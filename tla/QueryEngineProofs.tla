-------------------------- MODULE QueryEngineProofs --------------------------
(* Attempts count their waiters and have owners, memos hold what is in use,
   what is protected stays and stamps name values, for any queries, evaluators,
   revisions and number of tasks. *)
EXTENDS QueryEngine, FiniteSetTheorems, SequenceTheorems, WellFoundedInduction, TLAPS

\* Every leaf may take its time.
USE SMTT(120), ZenonT(120)

\* Sequences of whatever elements.
Listed(s) == Len(s) \in Nat /\ s = [i \in 1 .. Len(s) |-> s[i]]

AttemptFields == {"id", "rev", "owner", "waiters", "terminal"}
NodeFields == {"key", "next_attempt", "next_stamp", "attempts", "validated_at"}
QueryFields == {"kind", "key", "inc", "obs", "pc", "cursor", "attempt", "pinned", "contended"}
ValidateFields == {"kind", "inc", "terminal", "next", "again", "retryable"}
BodyFields == {"kind", "inc", "attempt", "log", "deps", "inputs", "missing", "abort"}
TaskFields == {"status", "rev", "stack", "ret", "leases", "cache", "canceled", "key"}

Ended(a) == a.terminal # NoTerminal

\* The node retains a terminal, or has an attempt that t computes, by that number.
Retains(n, id) == \E i \in 1 .. Len(n.attempts) : n.attempts[i].id = id /\ Ended(n.attempts[i])
Computes(n, id, t) ==
  \E i \in 1 .. Len(n.attempts) :
    n.attempts[i].id = id /\ ~Ended(n.attempts[i]) /\ n.attempts[i].owner = t

AttemptOK(a, bound) ==
  /\ AttemptFields \subseteq DOMAIN a
  /\ a.id \in 1 .. bound - 1 /\ a.rev \in RevIds /\ a.owner \in Tasks /\ a.waiters \in Nat

\* Attempts have numbers of their own, and below the next one.
NodeOK(n) ==
  /\ NodeFields \subseteq DOMAIN n
  /\ n.key \in Keys /\ n.next_attempt \in Nat \ {0}
  /\ Listed(n.attempts)
  /\ \A i \in 1 .. Len(n.attempts) : AttemptOK(n.attempts[i], n.next_attempt)
  /\ \A i, j \in 1 .. Len(n.attempts) : n.attempts[i].id = n.attempts[j].id => i = j

\* Stamps are below the next one, and name a value and a purity.
StampsOK(n) ==
  /\ n.next_stamp \in Nat
  /\ \A i \in 1 .. Len(n.attempts) : Ended(n.attempts[i]) =>
       n.attempts[i].terminal.stamp \in Nat /\ n.attempts[i].terminal.stamp < n.next_stamp
  /\ \A i, j \in 1 .. Len(n.attempts) :
       /\ Ended(n.attempts[i]) /\ Ended(n.attempts[j])
       /\ n.attempts[i].terminal.stamp = n.attempts[j].terminal.stamp
       => /\ n.attempts[i].terminal.value = n.attempts[j].terminal.value
          /\ n.attempts[i].terminal.missing = n.attempts[j].terminal.missing

\* A certificate is one of a terminal the node retains.
Backs(n, c) ==
  \E i \in 1 .. Len(n.attempts) :
    /\ Ended(n.attempts[i])
    /\ n.attempts[i].terminal.stamp = c.stamp /\ n.attempts[i].terminal.rev = c.terminal_rev
CertificateOK(n) == n.validated_at # NoCertificate => Backs(n, n.validated_at)

NodesOK(ns) ==
  /\ Listed(ns)
  /\ \A inc \in 1 .. Len(ns) : NodeOK(ns[inc]) /\ StampsOK(ns[inc]) /\ CertificateOK(ns[inc])

\* The same in a table of nodes, where inc may be any number.
RetainsIn(ns, inc, id) == inc \in 1 .. Len(ns) /\ Retains(ns[inc], id)
ComputesIn(ns, inc, id, t) == inc \in 1 .. Len(ns) /\ Computes(ns[inc], id, t)

\* A frame by itself; ns are the nodes, t the task.
QueryOK(f, ns) ==
  /\ QueryFields \subseteq DOMAIN f
  /\ f.key \in Keys /\ f.inc \in 0 .. Len(ns)
  /\ f.inc # 0 => ns[f.inc].key = f.key
  /\ f.pc \notin {"enter", "return"} => f.inc # 0
  /\ f.pc = "enter" => f.inc = 0
  /\ f.pc \in {"join", "parked"} => f.attempt \in Nat /\ f.attempt < ns[f.inc].next_attempt

FrameOK(f, t, ns) ==
  /\ "kind" \in DOMAIN f /\ f.kind \in {"query", "validate", "body"}
  /\ f.kind = "query" => QueryOK(f, ns)
  /\ f.kind = "validate" => ValidateFields \subseteq DOMAIN f
  /\ f.kind = "body" => BodyFields \subseteq DOMAIN f /\ ComputesIn(ns, f.inc, f.attempt, t)

\* Frame g on top of frame f: a validation or a body on its query, a query on either.
Above(f, g, ns) ==
  /\ f.kind = "query" <=> g.kind # "query"
  /\ g.kind = "validate" =>
       f.pc = "find" /\ f.pinned = TRUE /\ g.inc = f.inc /\ RetainsIn(ns, f.inc, f.attempt)
  /\ g.kind = "body" => f.pc = "compute" /\ g.inc = f.inc /\ g.attempt = f.attempt

StackOK(s, t, ns) ==
  /\ Listed(s) /\ Len(s) > 0
  /\ s[1].kind = "query" /\ s[1].obs = TRUE
  /\ \A i \in 1 .. Len(s) : FrameOK(s[i], t, ns)
  /\ \A i \in 1 .. Len(s) - 1 : Above(s[i], s[i + 1], ns)
  /\ \A i, j \in 1 .. Len(s) :
       /\ s[i].kind = "body" /\ s[j].kind = "body"
       /\ s[i].inc = s[j].inc /\ s[i].attempt = s[j].attempt
       => i = j

\* The host's own query starts with an empty cache, and its answer is leased.
BottomOK(tk) ==
  tk.status = "running" /\ Len(tk.stack) = 1 =>
    /\ tk.stack[1].pc = "enter" => \A key \in Keys : tk.cache[key] = {}
    /\ tk.stack[1].pc = "return" /\ ~IsAbort(tk.ret) => <<tk.ret.inc, tk.stack[1].attempt>> \in tk.leases

TaskOK(tk, t, ns) ==
  /\ TaskFields \subseteq DOMAIN tk
  /\ tk.status \in {"idle", "running", "done"}
  /\ tk.status = "running" => StackOK(tk.stack, t, ns) /\ tk.rev \in RevIds
  /\ tk.status # "running" => tk.stack = << >>
  /\ tk.leases \subseteq Nat \X Nat
  /\ \A lease \in tk.leases : RetainsIn(ns, lease[1], lease[2])
  /\ BottomOK(tk)

\* The task waits, or is about to, for that attempt.
JoinsAt(s, inc, id) ==
  /\ s[Len(s)].kind = "query" /\ s[Len(s)].pc \in {"join", "parked"}
  /\ s[Len(s)].inc = inc /\ s[Len(s)].attempt = id
Joins(tk, inc, id) == tk.status = "running" /\ JoinsAt(tk.stack, inc, id)
Joiners(tks, inc, id) == {t \in Tasks : Joins(tks[t], inc, id)}

CountsOK(ns, tks) ==
  \A inc \in 1 .. Len(ns) : \A i \in 1 .. Len(ns[inc].attempts) :
    ns[inc].attempts[i].waiters = Cardinality(Joiners(tks, inc, ns[inc].attempts[i].id))

\* Some frame of the stack computes the attempt, or leases the node.
BodyOn(s, inc, id) ==
  \E i \in 1 .. Len(s) : s[i].kind = "body" /\ s[i].inc = inc /\ s[i].attempt = id
LeaseOn(s, inc) == \E i \in 1 .. Len(s) : s[i].kind = "query" /\ s[i].inc = inc

OwnersOK(ns, tks) ==
  \A t \in Tasks : \A inc, id : ComputesIn(ns, inc, id, t) => BodyOn(tks[t].stack, inc, id)

IndexOK(ix, ns) ==
  /\ DOMAIN ix = Keys
  /\ \A key \in Keys : ix[key] \in 0 .. Len(ns) /\ (ix[key] # 0 => ns[ix[key]].key = key)

MemoOK(ix, ns, tks) ==
  \A key \in Keys : ix[key] # 0 =>
    ns[ix[key]].attempts # << >> \/ \E t \in Tasks : LeaseOn(tks[t].stack, ix[key])

HostOK(h) == {"asks", "cancels", "evictions"} \subseteq DOMAIN h /\ h.asks \in Seq(Keys \X RevIds)

\* What all the engine's state satisfies.
StateOK(ns, ix, tks, h) ==
  /\ NodesOK(ns) /\ IndexOK(ix, ns) /\ HostOK(h)
  /\ DOMAIN tks = Tasks
  /\ \A t \in Tasks : TaskOK(tks[t], t, ns)
  /\ CountsOK(ns, tks) /\ OwnersOK(ns, tks) /\ MemoOK(ix, ns, tks)

EngineInv == StateOK(nodes, index, tasks, host)

-----------------------------------------------------------------------------
(* Sequences *)

\* A listed sequence is one, and what is in a Seq is listed.
LEMMA ListedSeq ==
  ASSUME NEW s, Listed(s)
  PROVE  s \in Seq({s[i] : i \in 1 .. Len(s)}) /\ DOMAIN s = 1 .. Len(s)
<1>1. PICK n \in Nat : n = Len(s) /\ s = [i \in 1 .. n |-> s[i]]
  BY DEF Listed
<1>2. PICK S : S = {s[i] : i \in 1 .. Len(s)}
  OBVIOUS
<1>3. s \in [1 .. n -> S] /\ DOMAIN s = 1 .. n
  BY <1>1, <1>2
<1>4. s \in Seq(S)
  BY <1>3, SeqDef, Zenon
<1> QED
  BY <1>1, <1>2, <1>3, <1>4

\* A sequence over a set is listed.
LEMMA SeqListed ==
  ASSUME NEW S, NEW s \in Seq(S)
  PROVE  Listed(s) /\ \A i \in 1 .. Len(s) : s[i] \in S
  BY DEF Listed

\* A function on an initial segment is listed.
LEMMA FunctionListed ==
  ASSUME NEW n \in Nat, NEW s, DOMAIN s = 1 .. n, s = [i \in 1 .. n |-> s[i]]
  PROVE  Listed(s) /\ Len(s) = n
<1>1. s \in [1 .. n -> {s[i] : i \in 1 .. n}]
  OBVIOUS
<1>2. s \in Seq({s[i] : i \in 1 .. n})
  BY <1>1, SeqDef, Zenon
<1> QED
  BY <1>2 DEF Listed

\* The empty sequence.
LEMMA EmptyListed == Listed(<< >>) /\ Len(<< >>) = 0
  BY DEF Listed

\* Appending an element.
LEMMA AppendListed ==
  ASSUME NEW s, Listed(s), NEW x
  PROVE  /\ Listed(Append(s, x)) /\ Len(Append(s, x)) = Len(s) + 1
         /\ \A i \in 1 .. Len(s) : Append(s, x)[i] = s[i]
         /\ Append(s, x)[Len(s) + 1] = x
<1>1. PICK S : s \in Seq(S)
  BY ListedSeq
<1>2. PICK T : T = S \cup {x}
  OBVIOUS
<1>3. s \in Seq(T) /\ x \in T
  BY <1>1, <1>2
<1>4. Append(s, x) \in Seq(T)
  BY <1>3
<1>5. Listed(Append(s, x))
  BY <1>4, SeqListed
<1> QED
  BY <1>3, <1>5

\* All but the last element.
LEMMA FrontListed ==
  ASSUME NEW s, Listed(s), Len(s) > 0
  PROVE  /\ Listed(Front(s)) /\ Len(Front(s)) = Len(s) - 1
         /\ \A i \in 1 .. Len(s) - 1 : Front(s)[i] = s[i]
<1>1. PICK S : s \in Seq(S)
  BY ListedSeq
<1>2. PICK n \in Nat : n = Len(s)
  BY DEF Listed
<1>3. PICK b : b = SubSeq(s, 1, n - 1)
  OBVIOUS
<1>4. b \in Seq(S) /\ Len(b) = n - 1 /\ \A i \in 1 .. n - 1 : b[i] = s[i]
  BY <1>1, <1>2, <1>3
<1>5. Listed(b)
  BY <1>4, SeqListed
<1> QED
  BY <1>2, <1>3, <1>4, <1>5 DEF Front

\* Removing one element.
LEMMA RemoveListed ==
  ASSUME NEW s, Listed(s), NEW p \in 1 .. Len(s)
  PROVE  /\ Listed(RemoveAt(s, p)) /\ Len(RemoveAt(s, p)) = Len(s) - 1
         /\ \A i \in 1 .. Len(s) - 1 : RemoveAt(s, p)[i] = s[IF i < p THEN i ELSE i + 1]
<1>1. PICK S : s \in Seq(S)
  BY ListedSeq
<1>2. Len(s) \in Nat
  BY DEF Listed
<1>3. PICK a : a = SubSeq(s, 1, p - 1)
  OBVIOUS
<1>4. PICK b : b = SubSeq(s, p + 1, Len(s))
  OBVIOUS
<1>5. a \in Seq(S) /\ Len(a) = p - 1 /\ \A i \in 1 .. p - 1 : a[i] = s[i]
  BY <1>1, <1>2, <1>3
<1>6. b \in Seq(S) /\ Len(b) = Len(s) - p /\ \A i \in 1 .. Len(s) - p : b[i] = s[p + i]
  BY <1>1, <1>2, <1>4
<1>7. a \o b \in Seq(S) /\ Len(a \o b) = Len(s) - 1
  BY <1>2, <1>5, <1>6
<1>8. ASSUME NEW i \in 1 .. Len(s) - 1
      PROVE  (a \o b)[i] = s[IF i < p THEN i ELSE i + 1]
  BY <1>2, <1>5, <1>6
<1> QED
  BY <1>3, <1>4, <1>7, <1>8, SeqListed DEF RemoveAt

\* Rewriting elements in place.
LEMMA MapListed ==
  ASSUME NEW s, Listed(s), NEW u, DOMAIN u = DOMAIN s, u = [i \in DOMAIN s |-> u[i]]
  PROVE  Listed(u) /\ Len(u) = Len(s)
<1>1. PICK n \in Nat : n = Len(s)
  BY DEF Listed
<1>2. DOMAIN s = 1 .. n
  BY <1>1, ListedSeq
<1> QED
  BY <1>1, <1>2, FunctionListed

\* A nonempty set of indices has a largest one.
LEMMA LargestIndex ==
  ASSUME NEW n \in Nat, NEW S, S \subseteq 1 .. n, S # {}
  PROVE  Max(S) \in S
<1>1. PICK U : U = {k \in Nat : n - k \in S}
  OBVIOUS
<1>2. PICK j \in S : TRUE
  OBVIOUS
<1>3. n - j \in U
  BY <1>1, <1>2
<1>4. PICK k \in U : \A l \in U : ~(<<l, k>> \in OpToRel(<, Nat))
  BY <1>1, <1>3, NatLessThanWellFounded, WFMin, Zenon
<1>5. n - k \in S /\ k \in Nat
  BY <1>1, <1>4
<1>6. ASSUME NEW i \in S
      PROVE  i <= n - k
  <2>1. n - i \in U
    BY <1>1
  <2>2. ~(n - i < k)
    BY <1>4, <2>1, <1>5, <1>1 DEF OpToRel
  <2> QED
    BY <2>2, <1>5
<1> QED
  BY <1>5, <1>6 DEF Max

\* Sequences of the same elements are equal.
LEMMA ListedEqual ==
  ASSUME NEW s, Listed(s), NEW u, Listed(u), Len(u) = Len(s), \A i \in 1 .. Len(s) : u[i] = s[i]
  PROVE  u = s
<1>1. PICK n \in Nat : n = Len(s) /\ s = [i \in 1 .. n |-> s[i]]
  BY DEF Listed
<1>2. u = [i \in 1 .. n |-> u[i]] /\ \A i \in 1 .. n : u[i] = s[i]
  BY <1>1 DEF Listed
<1> QED
  BY <1>1, <1>2

\* Taking off what was appended.
LEMMA FrontAppend ==
  ASSUME NEW s, Listed(s), NEW x
  PROVE  Front(Append(s, x)) = s /\ Last(Append(s, x)) = x
<1>1. PICK a : a = Append(s, x)
  OBVIOUS
<1>2. /\ Listed(a) /\ Len(a) = Len(s) + 1 /\ Len(s) \in Nat
      /\ a[Len(s) + 1] = x /\ \A i \in 1 .. Len(s) : a[i] = s[i]
  BY <1>1, AppendListed DEF Listed
<1>3. Listed(Front(a)) /\ Len(Front(a)) = Len(s) /\ \A i \in 1 .. Len(s) : Front(a)[i] = a[i]
  BY <1>2, FrontListed
<1>4. Front(a) = s
  BY <1>2, <1>3, ListedEqual
<1> QED
  BY <1>1, <1>2, <1>4 DEF Last

\* Putting it back.
LEMMA FrontLast ==
  ASSUME NEW s, Listed(s), Len(s) > 0
  PROVE  /\ Append(Front(s), s[Len(s)]) = s /\ Listed(Front(s)) /\ Len(Front(s)) = Len(s) - 1
         /\ Last(s) = s[Len(s)] /\ \A i \in 1 .. Len(s) - 1 : Front(s)[i] = s[i]
<1>1. PICK b : b = Front(s)
  OBVIOUS
<1>2. Listed(b) /\ Len(b) = Len(s) - 1 /\ \A i \in 1 .. Len(s) - 1 : b[i] = s[i]
  BY <1>1, FrontListed
<1>3. PICK a : a = Append(b, s[Len(s)])
  OBVIOUS
<1>4. /\ Listed(a) /\ Len(a) = Len(b) + 1 /\ a[Len(b) + 1] = s[Len(s)]
      /\ \A i \in 1 .. Len(b) : a[i] = b[i]
  BY <1>2, <1>3, AppendListed
<1>5. Len(s) \in Nat
  BY DEF Listed
<1>6. \A i \in 1 .. Len(s) : a[i] = s[i]
  BY <1>2, <1>4, <1>5
<1>7. a = s
  BY <1>2, <1>4, <1>5, <1>6, ListedEqual
<1> QED
  BY <1>1, <1>2, <1>3, <1>7 DEF Last

-----------------------------------------------------------------------------
(* Nodes *)

\* The nodes keep their keys and go on counting attempts.
Grows(ns, ns2) ==
  /\ Len(ns) \in Nat /\ Len(ns2) \in Nat /\ Len(ns) <= Len(ns2)
  /\ \A inc \in 1 .. Len(ns) :
       /\ ns2[inc].key = ns[inc].key
       /\ ns[inc].next_attempt \in Nat /\ ns2[inc].next_attempt \in Nat
       /\ ns[inc].next_attempt <= ns2[inc].next_attempt

\* n2 is n up to waiter counts and a certificate.
NodeAlike(n, n2) ==
  /\ NodeFields \subseteq DOMAIN n2
  /\ n2.key = n.key /\ n2.next_attempt = n.next_attempt /\ n2.next_stamp = n.next_stamp
  /\ Listed(n2.attempts) /\ Len(n2.attempts) = Len(n.attempts)
  /\ \A i \in 1 .. Len(n.attempts) :
       /\ AttemptFields \subseteq DOMAIN n2.attempts[i]
       /\ n2.attempts[i].id = n.attempts[i].id /\ n2.attempts[i].rev = n.attempts[i].rev
       /\ n2.attempts[i].owner = n.attempts[i].owner /\ n2.attempts[i].terminal = n.attempts[i].terminal
       /\ n2.attempts[i].waiters \in Nat
  /\ n2.validated_at = n.validated_at \/ Backs(n, n2.validated_at)

\* All three conditions on a node.
Sound(n) == NodeOK(n) /\ StampsOK(n) /\ CertificateOK(n)

\* The table with one node rewritten.
Writes(ns, inc, n2, ns2) == ns2 = [ns EXCEPT ![inc] = n2]

\* It grew, and the other nodes are the same.
Written(ns, inc, n2, ns2) ==
  /\ NodesOK(ns2) /\ Grows(ns, ns2) /\ Len(ns2) = Len(ns) /\ ns2[inc] = n2
  /\ \A i \in 1 .. Len(ns) : i # inc => ns2[i] = ns[i]

\* n2 is a later state of the same incarnation.
Follows(n, n2) == Sound(n2) /\ n2.key = n.key /\ n.next_attempt <= n2.next_attempt

\* Writing one node of the table.
LEMMA TableWritten ==
  ASSUME NEW ns, NodesOK(ns), NEW inc \in 1 .. Len(ns), NEW n2, Follows(ns[inc], n2),
         NEW ns2, Writes(ns, inc, n2, ns2)
  PROVE  Written(ns, inc, n2, ns2)
<1>1. Listed(ns) /\ DOMAIN ns = 1 .. Len(ns) /\ Len(ns) \in Nat
  BY ListedSeq DEF NodesOK, Listed
<1>2. DOMAIN ns2 = DOMAIN ns /\ ns2 = [i \in DOMAIN ns |-> ns2[i]] /\ ns2[inc] = n2
      /\ \A i \in 1 .. Len(ns) : i # inc => ns2[i] = ns[i]
  BY <1>1 DEF Writes
<1>3. Listed(ns2) /\ Len(ns2) = Len(ns)
  BY <1>1, <1>2, MapListed
<1>4. NodesOK(ns2)
  BY <1>2, <1>3 DEF NodesOK, Sound, Follows
<1>5. Grows(ns, ns2)
  BY <1>1, <1>2, <1>3, <1>4 DEF Grows, NodesOK, NodeOK, Follows
<1> QED
  BY <1>2, <1>3, <1>4, <1>5 DEF Written

\* An incarnation's first state.
LEMMA NodeMinted ==
  ASSUME NEW key \in Keys
  PROVE  /\ Sound(NewNode(key)) /\ NewNode(key).attempts = << >> /\ NewNode(key).key = key
         /\ \A id : ~Retains(NewNode(key), id) /\ \A t : ~Computes(NewNode(key), id, t)
<1>1. PICK n : n = NewNode(key)
  OBVIOUS
<1>2. /\ NodeFields \subseteq DOMAIN n /\ n.key = key /\ n.next_attempt = 1 /\ n.next_stamp = 1
      /\ n.attempts = << >> /\ n.validated_at = NoCertificate
  BY <1>1 DEF NewNode, NodeFields
<1>3. Listed(n.attempts) /\ Len(n.attempts) = 0
  BY <1>2, EmptyListed
<1>4. NodeOK(n) /\ StampsOK(n) /\ CertificateOK(n)
  BY <1>2, <1>3 DEF NodeOK, StampsOK, CertificateOK
<1>5. \A id : ~Retains(n, id) /\ \A t : ~Computes(n, id, t)
  BY <1>3 DEF Retains, Computes
<1> QED
  BY <1>1, <1>2, <1>4, <1>5 DEF Sound

\* Appending a new incarnation to the table.
LEMMA TableExtended ==
  ASSUME NEW ns, NodesOK(ns), NEW key \in Keys, NEW ns2, ns2 = Append(ns, NewNode(key))
  PROVE  /\ NodesOK(ns2) /\ Grows(ns, ns2) /\ Len(ns2) = Len(ns) + 1 /\ Len(ns) \in Nat
         /\ ns2[Len(ns) + 1] = NewNode(key) /\ \A i \in 1 .. Len(ns) : ns2[i] = ns[i]
<1>1. Listed(ns) /\ Len(ns) \in Nat
  BY DEF NodesOK, Listed
<1>2. /\ Listed(ns2) /\ Len(ns2) = Len(ns) + 1 /\ ns2[Len(ns) + 1] = NewNode(key)
      /\ \A i \in 1 .. Len(ns) : ns2[i] = ns[i]
  BY <1>1, AppendListed
<1>3. Sound(NewNode(key))
  BY NodeMinted
<1>4. ASSUME NEW i \in 1 .. Len(ns2)
      PROVE  Sound(ns2[i])
  <2>1. CASE i = Len(ns) + 1
    BY <2>1, <1>2, <1>3
  <2>2. CASE i # Len(ns) + 1
    BY <2>2, <1>1, <1>2 DEF NodesOK, Sound
  <2> QED
    BY <2>1, <2>2
<1>5. NodesOK(ns2)
  BY <1>2, <1>4 DEF NodesOK, Sound
<1>6. Grows(ns, ns2)
  BY <1>1, <1>2, <1>4 DEF Grows, NodesOK, NodeOK
<1> QED
  BY <1>1, <1>2, <1>5, <1>6

\* Counts and certificates do not matter to the rest.
LEMMA AlikeSound ==
  ASSUME NEW n, Sound(n), NEW n2, NodeAlike(n, n2)
  PROVE  /\ Sound(n2)
         /\ \A id : (Retains(n2, id) <=> Retains(n, id)) /\ \A t : Computes(n2, id, t) <=> Computes(n, id, t)
<1>1. NodeOK(n2)
  BY DEF Sound, NodeOK, NodeAlike, AttemptOK
<1>2. StampsOK(n2)
  <2>1. /\ Len(n2.attempts) = Len(n.attempts) /\ n2.next_stamp = n.next_stamp
        /\ \A i \in 1 .. Len(n.attempts) : n2.attempts[i].terminal = n.attempts[i].terminal
    BY DEF NodeAlike
  <2>2. n.next_stamp \in Nat
    BY DEF Sound, StampsOK
  <2>3. ASSUME NEW i \in 1 .. Len(n.attempts), Ended(n2.attempts[i])
        PROVE  n2.attempts[i].terminal.stamp \in Nat /\ n2.attempts[i].terminal.stamp < n2.next_stamp
    BY <2>1, <2>3 DEF Sound, StampsOK, Ended
  <2>4. ASSUME NEW i \in 1 .. Len(n.attempts), NEW j \in 1 .. Len(n.attempts),
               Ended(n2.attempts[i]), Ended(n2.attempts[j]),
               n2.attempts[i].terminal.stamp = n2.attempts[j].terminal.stamp
        PROVE  /\ n2.attempts[i].terminal.value = n2.attempts[j].terminal.value
               /\ n2.attempts[i].terminal.missing = n2.attempts[j].terminal.missing
    <3>1. n2.attempts[i].terminal = n.attempts[i].terminal /\ n2.attempts[j].terminal = n.attempts[j].terminal
      BY <2>1
    <3>2. /\ Ended(n.attempts[i]) /\ Ended(n.attempts[j])
          /\ n.attempts[i].terminal.stamp = n.attempts[j].terminal.stamp
      BY <3>1, <2>4 DEF Ended
    <3> QED
      BY <3>1, <3>2 DEF Sound, StampsOK
  <2> QED
    BY <2>1, <2>2, <2>3, <2>4 DEF StampsOK
<1>3. \A c : Backs(n, c) => Backs(n2, c)
  BY DEF Backs, NodeAlike, Ended
<1>4. CertificateOK(n2)
  BY <1>3 DEF Sound, CertificateOK, NodeAlike
<1>5. \A id : (Retains(n2, id) <=> Retains(n, id)) /\ \A t : Computes(n2, id, t) <=> Computes(n, id, t)
  BY DEF Retains, Computes, NodeAlike, Ended
<1> QED
  BY <1>1, <1>2, <1>4, <1>5 DEF Sound

\* Changing one attempt's waiter count.
LEMMA WaitersWritten ==
  ASSUME NEW n, Sound(n), NEW p \in 1 .. Len(n.attempts), NEW w \in Nat, NEW n2,
         n2 = [n EXCEPT !.attempts = [n.attempts EXCEPT ![p] = [n.attempts[p] EXCEPT !.waiters = w]]]
  PROVE  /\ NodeAlike(n, n2)
         /\ \A i \in 1 .. Len(n.attempts) :
              n2.attempts[i].waiters = IF i = p THEN w ELSE n.attempts[i].waiters
<1>1. /\ Listed(n.attempts) /\ NodeFields \subseteq DOMAIN n
      /\ \A i \in 1 .. Len(n.attempts) : AttemptOK(n.attempts[i], n.next_attempt)
  BY DEF Sound, NodeOK
<1>a. PICK a : a = [n.attempts[p] EXCEPT !.waiters = w]
  OBVIOUS
<1>2. PICK u : u = [n.attempts EXCEPT ![p] = a]
  OBVIOUS
<1>3. n2 = [n EXCEPT !.attempts = u]
  BY <1>a, <1>2
<1>4. /\ n2.attempts = u /\ DOMAIN n2 = DOMAIN n /\ n2.key = n.key /\ n2.next_attempt = n.next_attempt
      /\ n2.next_stamp = n.next_stamp /\ n2.validated_at = n.validated_at
  BY <1>1, <1>3 DEF NodeFields
<1>5. DOMAIN n.attempts = 1 .. Len(n.attempts)
  BY <1>1, ListedSeq
<1>6. DOMAIN u = DOMAIN n.attempts /\ u = [i \in DOMAIN n.attempts |-> u[i]]
  BY <1>2
<1>7. Listed(u) /\ Len(u) = Len(n.attempts)
  BY <1>1, <1>6, MapListed
<1>8. ASSUME NEW i \in 1 .. Len(n.attempts)
      PROVE  /\ AttemptFields \subseteq DOMAIN u[i]
             /\ u[i].id = n.attempts[i].id /\ u[i].rev = n.attempts[i].rev
             /\ u[i].owner = n.attempts[i].owner /\ u[i].terminal = n.attempts[i].terminal
             /\ u[i].waiters \in Nat
             /\ u[i].waiters = IF i = p THEN w ELSE n.attempts[i].waiters
  BY <1>1, <1>a, <1>2, <1>5 DEF AttemptOK, AttemptFields
<1> QED
  BY <1>1, <1>4, <1>7, <1>8 DEF NodeAlike

\* Renewing the certificate.
LEMMA CertificateWritten ==
  ASSUME NEW n, Sound(n), NEW c
  PROVE  NodeAlike(n, MarkValidated(n, c))
         /\ \A i \in 1 .. Len(n.attempts) : MarkValidated(n, c).attempts[i] = n.attempts[i]
<1>1. /\ Listed(n.attempts) /\ NodeFields \subseteq DOMAIN n
      /\ \A i \in 1 .. Len(n.attempts) : AttemptOK(n.attempts[i], n.next_attempt)
      /\ DOMAIN n.attempts = 1 .. Len(n.attempts)
  BY ListedSeq DEF Sound, NodeOK
<1>2. NodeAlike(n, n)
  BY <1>1 DEF NodeAlike, AttemptOK
<1>3. CASE Backs(n, c)
  <2>1. PICK n2 : n2 = [n EXCEPT !.validated_at = c]
    OBVIOUS
  <2>2. MarkValidated(n, c) = n2
    BY <1>1, <1>3, <2>1 DEF MarkValidated, Backs, Ended
  <2>3. /\ DOMAIN n2 = DOMAIN n /\ n2.key = n.key /\ n2.next_attempt = n.next_attempt
        /\ n2.next_stamp = n.next_stamp /\ n2.attempts = n.attempts /\ n2.validated_at = c
    BY <1>1, <2>1 DEF NodeFields
  <2>4. NodeAlike(n, n2)
    BY <1>1, <1>3, <2>3 DEF NodeAlike, AttemptOK
  <2> QED
    BY <2>2, <2>3, <2>4
<1>4. CASE ~Backs(n, c)
  <2>1. MarkValidated(n, c) = n
    BY <1>1, <1>4 DEF MarkValidated, Backs, Ended
  <2> QED
    BY <1>2, <2>1
<1> QED
  BY <1>3, <1>4

\* The node with a new attempt, and what it is.
Claims(n, a, n2) ==
  n2 = [n EXCEPT !.next_attempt = n.next_attempt + 1, !.attempts = Append(n.attempts, a)]
Claimed(n, a, n2) ==
  /\ Sound(n2) /\ n2.key = n.key /\ n2.next_attempt = n.next_attempt + 1
  /\ Len(n2.attempts) = Len(n.attempts) + 1 /\ n2.attempts[Len(n.attempts) + 1] = a
  /\ \A i \in 1 .. Len(n.attempts) : n2.attempts[i] = n.attempts[i]
  /\ \A id : Retains(n2, id) <=> Retains(n, id)
  /\ \A id, t : Computes(n2, id, t) <=> Computes(n, id, t) \/ (id = a.id /\ t = a.owner)

\* Claiming a new attempt.
LEMMA AttemptClaimed ==
  ASSUME NEW n, Sound(n), NEW a, AttemptOK(a, n.next_attempt + 1), a.id = n.next_attempt,
         a.terminal = NoTerminal, NEW n2, Claims(n, a, n2)
  PROVE  Claimed(n, a, n2)
<1>1. /\ Listed(n.attempts) /\ NodeFields \subseteq DOMAIN n /\ n.key \in Keys
      /\ \A i \in 1 .. Len(n.attempts) : AttemptOK(n.attempts[i], n.next_attempt)
      /\ n.next_attempt \in Nat \ {0} /\ Len(n.attempts) \in Nat
      /\ \A i, j \in 1 .. Len(n.attempts) : n.attempts[i].id = n.attempts[j].id => i = j
  BY DEF Sound, NodeOK, Listed
<1>2. PICK u : u = Append(n.attempts, a)
  OBVIOUS
<1>3. /\ Listed(u) /\ Len(u) = Len(n.attempts) + 1 /\ u[Len(n.attempts) + 1] = a
      /\ \A i \in 1 .. Len(n.attempts) : u[i] = n.attempts[i]
  BY <1>1, <1>2, AppendListed
<1>4. /\ n2.attempts = u /\ DOMAIN n2 = DOMAIN n /\ n2.key = n.key /\ n2.next_attempt = n.next_attempt + 1
      /\ n2.next_stamp = n.next_stamp /\ n2.validated_at = n.validated_at
  BY <1>1, <1>2 DEF NodeFields, Claims
<1>5. \A i \in 1 .. Len(u) : i = Len(n.attempts) + 1 \/ i \in 1 .. Len(n.attempts)
  BY <1>1, <1>3
<1>6. NodeOK(n2)
  <2>1. \A i \in 1 .. Len(u) : AttemptOK(u[i], n.next_attempt + 1)
    <3>1. SUFFICES ASSUME NEW i \in 1 .. Len(u)
                   PROVE  AttemptOK(u[i], n.next_attempt + 1)
      OBVIOUS
    <3>2. CASE i = Len(n.attempts) + 1
      BY <3>2, <1>3
    <3>3. CASE i \in 1 .. Len(n.attempts)
      <4>1. u[i] = n.attempts[i] /\ AttemptOK(n.attempts[i], n.next_attempt)
        BY <3>3, <1>1, <1>3
      <4>2. n.attempts[i].id \in 1 .. n.next_attempt + 1 - 1
        BY <4>1, <1>1 DEF AttemptOK
      <4> QED
        BY <4>1, <4>2 DEF AttemptOK
    <3> QED
      BY <3>1, <3>2, <3>3, <1>5
  <2>2. \A i \in 1 .. Len(n.attempts) : n.attempts[i].id # a.id
    BY <1>1 DEF AttemptOK
  <2>3. \A i, j \in 1 .. Len(u) : u[i].id = u[j].id => i = j
    BY <1>1, <1>3, <1>5, <2>2
  <2>4. NodeFields \subseteq DOMAIN n2 /\ n2.key \in Keys /\ n2.next_attempt \in Nat \ {0}
    BY <1>1, <1>4
  <2>5. n2.attempts = u /\ n2.next_attempt = n.next_attempt + 1 /\ Listed(u)
    BY <1>3, <1>4
  <2>6. \A i \in 1 .. Len(n2.attempts) : AttemptOK(n2.attempts[i], n2.next_attempt)
    BY <2>1, <2>5
  <2>7. \A i, j \in 1 .. Len(n2.attempts) : n2.attempts[i].id = n2.attempts[j].id => i = j
    BY <2>3, <2>5
  <2>8. Listed(n2.attempts)
    BY <2>5
  <2> QED
    BY <2>4, <2>6, <2>7, <2>8, Zenon DEF NodeOK
<1>7. ~Ended(a)
  BY DEF Ended
<1>8. StampsOK(n2)
  <2>1. \A i \in 1 .. Len(u) : Ended(u[i]) => i \in 1 .. Len(n.attempts) /\ u[i] = n.attempts[i]
    BY <1>3, <1>5, <1>7
  <2>2. \A i \in 1 .. Len(u) : Ended(u[i]) => u[i].terminal.stamp \in Nat /\ u[i].terminal.stamp < n.next_stamp
    BY <2>1 DEF Sound, StampsOK
  <2>3. \A i, j \in 1 .. Len(u) :
          Ended(u[i]) /\ Ended(u[j]) /\ u[i].terminal.stamp = u[j].terminal.stamp
          => u[i].terminal.value = u[j].terminal.value /\ u[i].terminal.missing = u[j].terminal.missing
    BY <2>1 DEF Sound, StampsOK
  <2>4. n.next_stamp \in Nat
    BY DEF Sound, StampsOK
  <2> QED
    BY <1>4, <2>2, <2>3, <2>4 DEF StampsOK
<1>9. CertificateOK(n2)
  BY <1>1, <1>3, <1>4 DEF Sound, CertificateOK, Backs
<1>10. \A id : Retains(n2, id) <=> Retains(n, id)
  <2>1. ASSUME NEW id
        PROVE  (\E i \in 1 .. Len(u) : u[i].id = id /\ Ended(u[i])) <=> Retains(n, id)
    BY <1>1, <1>3, <1>5, <1>7 DEF Retains
  <2> QED
    BY <1>4, <2>1 DEF Retains
<1>11. \A id, t : Computes(n2, id, t) <=> Computes(n, id, t) \/ (id = a.id /\ t = a.owner)
  BY <1>1, <1>3, <1>4, <1>5, <1>7 DEF Computes
<1> QED
  BY <1>3, <1>4, <1>6, <1>8, <1>9, <1>10, <1>11 DEF Sound, Claimed

\* What the node is without one of its attempts.
Removed(n, p, n2) ==
  /\ Sound(n2) /\ n2.key = n.key /\ n2.next_attempt = n.next_attempt
  /\ Len(n2.attempts) = Len(n.attempts) - 1
  /\ \A i \in 1 .. Len(n2.attempts) : n2.attempts[i] = n.attempts[IF i < p THEN i ELSE i + 1]
  /\ \A id : Retains(n2, id) <=> Retains(n, id) /\ id # n.attempts[p].id
  /\ \A id, t : Computes(n2, id, t) <=> Computes(n, id, t) /\ id # n.attempts[p].id

\* Removing an attempt, and the certificate it backed.
LEMMA AttemptRemoved ==
  ASSUME NEW n, Sound(n), NEW p \in 1 .. Len(n.attempts), NEW n2, n2 = RemoveAttempt(n, p)
  PROVE  Removed(n, p, n2)
<1>1. /\ Listed(n.attempts) /\ NodeFields \subseteq DOMAIN n /\ n.key \in Keys
      /\ \A i \in 1 .. Len(n.attempts) : AttemptOK(n.attempts[i], n.next_attempt)
      /\ n.next_attempt \in Nat \ {0} /\ Len(n.attempts) \in Nat
      /\ \A i, j \in 1 .. Len(n.attempts) : n.attempts[i].id = n.attempts[j].id => i = j
  BY DEF Sound, NodeOK, Listed
<1>2. PICK u : u = RemoveAt(n.attempts, p)
  OBVIOUS
<1>3. PICK gone : gone = n.attempts[p].terminal
  OBVIOUS
<1>4. PICK c : c = n2.validated_at
  OBVIOUS
<1>5. /\ n2.attempts = u /\ NodeFields \subseteq DOMAIN n2 /\ n2.key = n.key
      /\ n2.next_attempt = n.next_attempt /\ n2.next_stamp = n.next_stamp
      /\ c = NoCertificate
         \/ (c = n.validated_at /\ ~(gone # NoTerminal /\ c.stamp = gone.stamp /\ c.terminal_rev = gone.rev))
  BY <1>1, <1>2, <1>3, <1>4 DEF NodeFields, RemoveAttempt
<1>6. /\ Listed(u) /\ Len(u) = Len(n.attempts) - 1
      /\ \A i \in 1 .. Len(u) : u[i] = n.attempts[IF i < p THEN i ELSE i + 1]
  BY <1>1, <1>2, RemoveListed
<1>7. PICK old \in [1 .. Len(u) -> 1 .. Len(n.attempts)] :
        \A i \in 1 .. Len(u) : old[i] = IF i < p THEN i ELSE i + 1
  <2>1. [i \in 1 .. Len(u) |-> IF i < p THEN i ELSE i + 1] \in [1 .. Len(u) -> 1 .. Len(n.attempts)]
    BY <1>1, <1>6
  <2> QED
    BY <2>1
<1>8. /\ \A i \in 1 .. Len(u) : u[i] = n.attempts[old[i]] /\ old[i] # p
      /\ \A i, j \in 1 .. Len(u) : old[i] = old[j] => i = j
  BY <1>1, <1>6, <1>7
<1>9. \A k \in 1 .. Len(n.attempts) : k # p => \E i \in 1 .. Len(u) : old[i] = k
  <2>1. SUFFICES ASSUME NEW k \in 1 .. Len(n.attempts), k # p
                 PROVE  \E i \in 1 .. Len(u) : old[i] = k
    OBVIOUS
  <2>2. CASE k < p
    BY <2>2, <1>1, <1>6, <1>7
  <2>3. CASE k > p
    <3>1. k - 1 \in 1 .. Len(u) /\ old[k - 1] = k
      BY <2>3, <1>1, <1>6, <1>7
    <3> QED
      BY <3>1
  <2> QED
    BY <2>1, <2>2, <2>3
<1>10. NodeOK(n2)
  <2>1. \A i \in 1 .. Len(u) : AttemptOK(u[i], n.next_attempt)
    BY <1>1, <1>7, <1>8
  <2>2. \A i, j \in 1 .. Len(u) : u[i].id = u[j].id => i = j
    BY <1>1, <1>7, <1>8
  <2> QED
    BY <1>1, <1>5, <1>6, <2>1, <2>2 DEF NodeOK
<1>11. StampsOK(n2)
  <2>1. ASSUME NEW i \in 1 .. Len(u), Ended(u[i])
        PROVE  u[i].terminal.stamp \in Nat /\ u[i].terminal.stamp < n.next_stamp
    <3>1. old[i] \in 1 .. Len(n.attempts) /\ u[i] = n.attempts[old[i]]
      BY <1>7, <1>8
    <3> QED
      BY <2>1, <3>1 DEF Sound, StampsOK
  <2>2. ASSUME NEW i \in 1 .. Len(u), NEW j \in 1 .. Len(u),
               Ended(u[i]), Ended(u[j]), u[i].terminal.stamp = u[j].terminal.stamp
        PROVE  u[i].terminal.value = u[j].terminal.value /\ u[i].terminal.missing = u[j].terminal.missing
    <3>1. /\ old[i] \in 1 .. Len(n.attempts) /\ u[i] = n.attempts[old[i]]
          /\ old[j] \in 1 .. Len(n.attempts) /\ u[j] = n.attempts[old[j]]
      BY <1>7, <1>8
    <3> QED
      BY <2>2, <3>1 DEF Sound, StampsOK
  <2>3. n.next_stamp \in Nat
    BY DEF Sound, StampsOK
  <2> QED
    BY <1>5, <2>1, <2>2, <2>3 DEF StampsOK
<1>12. CertificateOK(n2)
  <2>1. SUFFICES ASSUME c # NoCertificate
                 PROVE  Backs(n2, c)
    BY <1>4 DEF CertificateOK
  <2>2. c = n.validated_at /\ ~(gone # NoTerminal /\ c.stamp = gone.stamp /\ c.terminal_rev = gone.rev)
    BY <1>5, <2>1
  <2>3. PICK k \in 1 .. Len(n.attempts) :
          Ended(n.attempts[k]) /\ n.attempts[k].terminal.stamp = c.stamp /\ n.attempts[k].terminal.rev = c.terminal_rev
    BY <2>1, <2>2 DEF Sound, CertificateOK, Backs
  <2>4. k # p
    BY <2>2, <2>3, <1>3 DEF Ended
  <2>5. PICK i \in 1 .. Len(u) : old[i] = k
    BY <1>9, <2>4
  <2> QED
    BY <1>5, <1>8, <2>3, <2>5 DEF Backs
<1>a. n2.attempts = u
  BY <1>5
<1>b. \A i \in 1 .. Len(u) : old[i] \in 1 .. Len(n.attempts) /\ old[i] # p /\ u[i] = n.attempts[old[i]]
  BY <1>7, <1>8
<1>c. \A k \in 1 .. Len(n.attempts) : n.attempts[k].id = n.attempts[p].id => k = p
  BY <1>1
<1>13. \A id : Retains(n2, id) <=> Retains(n, id) /\ id # n.attempts[p].id
  <2>1. ASSUME NEW id, Retains(n2, id)
        PROVE  Retains(n, id) /\ id # n.attempts[p].id
    BY <2>1, <1>a, <1>b, <1>c DEF Retains
  <2>2. ASSUME NEW id, Retains(n, id), id # n.attempts[p].id
        PROVE  Retains(n2, id)
    <3>1. PICK k \in 1 .. Len(n.attempts) : n.attempts[k].id = id /\ Ended(n.attempts[k])
      BY <2>2 DEF Retains
    <3>2. PICK i \in 1 .. Len(u) : old[i] = k
      BY <1>9, <2>2, <3>1
    <3> QED
      BY <1>a, <1>b, <3>1, <3>2 DEF Retains
  <2> QED
    BY <2>1, <2>2
<1>14. \A id, t : Computes(n2, id, t) <=> Computes(n, id, t) /\ id # n.attempts[p].id
  <2>1. ASSUME NEW id, NEW t, Computes(n2, id, t)
        PROVE  Computes(n, id, t) /\ id # n.attempts[p].id
    BY <2>1, <1>a, <1>b, <1>c DEF Computes
  <2>2. ASSUME NEW id, NEW t, Computes(n, id, t), id # n.attempts[p].id
        PROVE  Computes(n2, id, t)
    <3>1. PICK k \in 1 .. Len(n.attempts) :
            n.attempts[k].id = id /\ ~Ended(n.attempts[k]) /\ n.attempts[k].owner = t
      BY <2>2 DEF Computes
    <3>2. PICK i \in 1 .. Len(u) : old[i] = k
      BY <1>9, <2>2, <3>1
    <3> QED
      BY <1>a, <1>b, <3>1, <3>2 DEF Computes
  <2> QED
    BY <2>1, <2>2
<1> QED
  BY <1>5, <1>6, <1>10, <1>11, <1>12, <1>13, <1>14 DEF Sound, Removed

\* The node with a terminal for an attempt, and what it is.
Publishes(n, p, terminal, c, red, n2) ==
  n2 = [n EXCEPT !.next_stamp = IF red THEN n.next_stamp ELSE n.next_stamp + 1,
                 !.attempts = [n.attempts EXCEPT ![p] = [n.attempts[p] EXCEPT !.terminal = terminal]],
                 !.validated_at = c]
Published(n, p, n2) ==
  /\ Sound(n2) /\ n2.key = n.key /\ n2.next_attempt = n.next_attempt
  /\ Len(n2.attempts) = Len(n.attempts)
  /\ \A i \in 1 .. Len(n.attempts) :
       n2.attempts[i].id = n.attempts[i].id /\ n2.attempts[i].waiters = n.attempts[i].waiters
  /\ \A id : Retains(n2, id) <=> Retains(n, id) \/ id = n.attempts[p].id
  /\ \A id, t : Computes(n2, id, t) <=> Computes(n, id, t) /\ id # n.attempts[p].id

\* Some terminal of the node has that stamp, value and purity.
Named(n, terminal) ==
  \E k \in 1 .. Len(n.attempts) :
    /\ Ended(n.attempts[k]) /\ n.attempts[k].terminal.stamp = terminal.stamp
    /\ n.attempts[k].terminal.value = terminal.value
    /\ n.attempts[k].terminal.missing = terminal.missing

\* Publishing a terminal under a stamp that names its value, old or new.
LEMMA TerminalPublished ==
  ASSUME NEW n, Sound(n), NEW p \in 1 .. Len(n.attempts), ~Ended(n.attempts[p]),
         NEW terminal, terminal # NoTerminal, NEW c,
         c.stamp = terminal.stamp, c.terminal_rev = terminal.rev,
         NEW red \in BOOLEAN, red => Named(n, terminal), ~red => terminal.stamp = n.next_stamp,
         NEW n2, Publishes(n, p, terminal, c, red, n2)
  PROVE  Published(n, p, n2)
<1>1. /\ Listed(n.attempts) /\ NodeFields \subseteq DOMAIN n /\ n.key \in Keys
      /\ \A i \in 1 .. Len(n.attempts) : AttemptOK(n.attempts[i], n.next_attempt)
      /\ n.next_attempt \in Nat \ {0} /\ Len(n.attempts) \in Nat
      /\ \A i, j \in 1 .. Len(n.attempts) : n.attempts[i].id = n.attempts[j].id => i = j
      /\ DOMAIN n.attempts = 1 .. Len(n.attempts)
  BY ListedSeq DEF Sound, NodeOK, Listed
<1>2. PICK a : a = [n.attempts[p] EXCEPT !.terminal = terminal]
  OBVIOUS
<1>3. PICK u : u = [n.attempts EXCEPT ![p] = a]
  OBVIOUS
<1>4. PICK next : next = IF red THEN n.next_stamp ELSE n.next_stamp + 1
  OBVIOUS
<1>5. n2 = [n EXCEPT !.next_stamp = next, !.attempts = u, !.validated_at = c]
  BY <1>2, <1>3, <1>4 DEF Publishes
<1>6. /\ n2.attempts = u /\ DOMAIN n2 = DOMAIN n /\ n2.key = n.key /\ n2.next_attempt = n.next_attempt
      /\ n2.next_stamp = next /\ n2.validated_at = c
  BY <1>1, <1>5 DEF NodeFields
<1>7. /\ DOMAIN a = DOMAIN n.attempts[p] /\ a.id = n.attempts[p].id /\ a.rev = n.attempts[p].rev
      /\ a.owner = n.attempts[p].owner /\ a.waiters = n.attempts[p].waiters /\ a.terminal = terminal
  BY <1>1, <1>2 DEF AttemptOK, AttemptFields
<1>8. DOMAIN u = DOMAIN n.attempts /\ u = [i \in DOMAIN n.attempts |-> u[i]]
  BY <1>3
<1>9. /\ Listed(u) /\ Len(u) = Len(n.attempts) /\ u[p] = a
      /\ \A i \in 1 .. Len(n.attempts) : i # p => u[i] = n.attempts[i]
  BY <1>1, <1>3, <1>8, MapListed
<1>10. \A i \in 1 .. Len(n.attempts) : u[i].id = n.attempts[i].id /\ u[i].waiters = n.attempts[i].waiters
  BY <1>7, <1>9
<1>11. NodeOK(n2)
  <2>1. \A i \in 1 .. Len(u) : AttemptOK(u[i], n.next_attempt)
    BY <1>1, <1>7, <1>9 DEF AttemptOK
  <2>2. \A i, j \in 1 .. Len(u) : u[i].id = u[j].id => i = j
    BY <1>1, <1>9, <1>10
  <2> QED
    BY <1>1, <1>6, <1>9, <2>1, <2>2 DEF NodeOK
<1>12. Ended(a)
  BY <1>7 DEF Ended
<1>13. StampsOK(n2)
  <2>1. n.next_stamp \in Nat /\ next \in Nat /\ n.next_stamp <= next
    BY <1>4 DEF Sound, StampsOK
  <2>2. \A i \in 1 .. Len(u) : i # p /\ Ended(u[i]) =>
          u[i].terminal.stamp \in Nat /\ u[i].terminal.stamp < n.next_stamp
    BY <1>9 DEF Sound, StampsOK
  <2>3. terminal.stamp \in Nat /\ terminal.stamp < next
    <3>1. CASE red
      BY <3>1, <1>4 DEF Sound, StampsOK, Named
    <3>2. CASE ~red
      BY <3>2, <1>4, <2>1
    <3> QED
      BY <3>1, <3>2
  <2>4. \A i \in 1 .. Len(u) : Ended(u[i]) => u[i].terminal.stamp \in Nat /\ u[i].terminal.stamp < next
    BY <1>7, <1>9, <2>1, <2>2, <2>3
  <2>5. ASSUME NEW i \in 1 .. Len(u), i # p, Ended(u[i]), u[i].terminal.stamp = terminal.stamp
        PROVE  u[i].terminal.value = terminal.value /\ u[i].terminal.missing = terminal.missing
    <3>1. red
      BY <2>1, <2>2, <2>5
    <3>2. u[i] = n.attempts[i] /\ i \in 1 .. Len(n.attempts)
      BY <1>9, <2>5
    <3>3. PICK k \in 1 .. Len(n.attempts) :
                  /\ Ended(n.attempts[k]) /\ n.attempts[k].terminal.stamp = terminal.stamp
                  /\ n.attempts[k].terminal.value = terminal.value
                  /\ n.attempts[k].terminal.missing = terminal.missing
      BY <3>1 DEF Named
    <3> QED
      BY <2>5, <3>2, <3>3 DEF Sound, StampsOK
  <2>6. ASSUME NEW i \in 1 .. Len(u), i # p, Ended(u[i]), NEW j \in 1 .. Len(u), j # p, Ended(u[j]),
               u[i].terminal.stamp = u[j].terminal.stamp
        PROVE  u[i].terminal.value = u[j].terminal.value /\ u[i].terminal.missing = u[j].terminal.missing
    <3>1. u[i] = n.attempts[i] /\ i \in 1 .. Len(n.attempts) /\ u[j] = n.attempts[j] /\ j \in 1 .. Len(n.attempts)
      BY <1>9, <2>6
    <3> QED
      BY <2>6, <3>1 DEF Sound, StampsOK
  <2>7. \A i, j \in 1 .. Len(u) :
          Ended(u[i]) /\ Ended(u[j]) /\ u[i].terminal.stamp = u[j].terminal.stamp
          => u[i].terminal.value = u[j].terminal.value /\ u[i].terminal.missing = u[j].terminal.missing
    BY <1>7, <1>9, <2>5, <2>6
  <2>8. n2.attempts = u /\ n2.next_stamp = next
    BY <1>6
  <2>9. n2.next_stamp \in Nat
    BY <2>1, <2>8
  <2>10. \A i \in 1 .. Len(n2.attempts) : Ended(n2.attempts[i]) =>
           n2.attempts[i].terminal.stamp \in Nat /\ n2.attempts[i].terminal.stamp < n2.next_stamp
    BY <2>4, <2>8
  <2>11. ASSUME NEW i \in 1 .. Len(n2.attempts), NEW j \in 1 .. Len(n2.attempts),
                Ended(n2.attempts[i]), Ended(n2.attempts[j]),
                n2.attempts[i].terminal.stamp = n2.attempts[j].terminal.stamp
         PROVE  /\ n2.attempts[i].terminal.value = n2.attempts[j].terminal.value
                /\ n2.attempts[i].terminal.missing = n2.attempts[j].terminal.missing
    <3>1. n2.attempts = u /\ i \in 1 .. Len(u) /\ j \in 1 .. Len(u)
      BY <2>8
    <3>2. Ended(u[i]) /\ Ended(u[j]) /\ u[i].terminal.stamp = u[j].terminal.stamp
      BY <2>11, <3>1
    <3>3. u[i].terminal.value = u[j].terminal.value /\ u[i].terminal.missing = u[j].terminal.missing
      BY <2>7, <3>1, <3>2
    <3> QED
      BY <3>1, <3>3
  <2> QED
    BY <2>9, <2>10, <2>11, Zenon DEF StampsOK
<1>14. CertificateOK(n2)
  <2>1. Backs(n2, c)
    BY <1>6, <1>7, <1>9, <1>12 DEF Backs
  <2> QED
    BY <1>6, <2>1 DEF CertificateOK
<1>15. \A id : Retains(n2, id) <=> Retains(n, id) \/ id = n.attempts[p].id
  BY <1>1, <1>6, <1>7, <1>9, <1>12 DEF Retains
<1>16. \A id, t : Computes(n2, id, t) <=> Computes(n, id, t) /\ id # n.attempts[p].id
  BY <1>1, <1>6, <1>7, <1>9, <1>12 DEF Computes
<1> QED
  BY <1>6, <1>9, <1>10, <1>11, <1>13, <1>14, <1>15, <1>16 DEF Sound, Published

-----------------------------------------------------------------------------
(* Stacks *)

\* Frames that differ in nothing an invariant reads.
Like(f, g) ==
  /\ DOMAIN g = DOMAIN f
  /\ \A x \in DOMAIN f \ {"deps", "inputs", "missing", "retryable"} : g[x] = f[x]

\* g may take the place of f on top of a stack.
Replaces(f, g) ==
  /\ g.kind = f.kind
  /\ f.kind = "query" => g.obs = f.obs /\ (f.inc # 0 => g.inc = f.inc)
  /\ f.kind # "query" => g.inc = f.inc
  /\ f.kind = "body" => g.attempt = f.attempt

\* What the first stack computes and leases, the second one does too.
Holds(s, s2) ==
  /\ \A inc, id : BodyOn(s, inc, id) => BodyOn(s2, inc, id)
  /\ \A inc : inc # 0 /\ LeaseOn(s, inc) => LeaseOn(s2, inc)

\* A frame's conditions only need the nodes to grow, and a body's attempt to stay.
LEMMA FrameKept ==
  ASSUME NEW f, NEW t, NEW ns, FrameOK(f, t, ns), NEW ns2, Grows(ns, ns2),
         f.kind = "body" => ComputesIn(ns2, f.inc, f.attempt, t)
  PROVE  FrameOK(f, t, ns2)
<1>1. QueryOK(f, ns) => QueryOK(f, ns2)
  BY DEF QueryOK, Grows
<1> QED
  BY <1>1 DEF FrameOK

\* So does a stack.
LEMMA StackKept ==
  ASSUME NEW s, NEW t, NEW ns, StackOK(s, t, ns), NEW ns2, Grows(ns, ns2),
         \A inc, id : ComputesIn(ns, inc, id, t) /\ BodyOn(s, inc, id) => ComputesIn(ns2, inc, id, t),
         \A i \in 1 .. Len(s) - 1 : s[i + 1].kind = "validate" /\ RetainsIn(ns, s[i].inc, s[i].attempt)
            => RetainsIn(ns2, s[i].inc, s[i].attempt)
  PROVE  StackOK(s, t, ns2)
<1>1. \A i \in 1 .. Len(s) : FrameOK(s[i], t, ns2)
  <2>1. SUFFICES ASSUME NEW i \in 1 .. Len(s)
                 PROVE  FrameOK(s[i], t, ns2)
    OBVIOUS
  <2>2. FrameOK(s[i], t, ns)
    BY DEF StackOK
  <2>3. s[i].kind = "body" => ComputesIn(ns2, s[i].inc, s[i].attempt, t)
    BY <2>2 DEF FrameOK, BodyOn
  <2> QED
    BY <2>2, <2>3, FrameKept
<1>2. \A i \in 1 .. Len(s) - 1 : Above(s[i], s[i + 1], ns2)
  BY DEF StackOK, Above
<1> QED
  BY <1>1, <1>2 DEF StackOK

\* Popping the top frame.
LEMMA StackPopped ==
  ASSUME NEW s, NEW t, NEW ns, StackOK(s, t, ns), Len(s) > 1
  PROVE  /\ StackOK(Front(s), t, ns) /\ Len(Front(s)) = Len(s) - 1 /\ Len(s) \in Nat
         /\ \A i \in 1 .. Len(s) - 1 : Front(s)[i] = s[i]
         /\ \A inc, id : BodyOn(Front(s), inc, id) <=>
              /\ BodyOn(s, inc, id)
              /\ ~(s[Len(s)].kind = "body" /\ s[Len(s)].inc = inc /\ s[Len(s)].attempt = id)
         /\ \A inc : LeaseOn(s, inc) =>
              LeaseOn(Front(s), inc) \/ (s[Len(s)].kind = "query" /\ s[Len(s)].inc = inc)
<1>1. Listed(s) /\ Len(s) \in Nat
  BY DEF StackOK, Listed
<1>2. PICK u : u = Front(s)
  OBVIOUS
<1>3. Listed(u) /\ Len(u) = Len(s) - 1 /\ \A i \in 1 .. Len(s) - 1 : u[i] = s[i]
  BY <1>1, <1>2, FrontListed
<1>4. StackOK(u, t, ns)
  <2>1. u[1].kind = "query" /\ u[1].obs = TRUE
    BY <1>1, <1>3 DEF StackOK
  <2>2. \A i \in 1 .. Len(u) : FrameOK(u[i], t, ns)
    BY <1>1, <1>3 DEF StackOK
  <2>3. \A i \in 1 .. Len(u) - 1 : Above(u[i], u[i + 1], ns)
    BY <1>1, <1>3 DEF StackOK
  <2>4. ASSUME NEW i \in 1 .. Len(u), NEW j \in 1 .. Len(u), u[i].kind = "body", u[j].kind = "body",
               u[i].inc = u[j].inc, u[i].attempt = u[j].attempt
        PROVE  i = j
    BY <1>1, <1>3, <2>4 DEF StackOK
  <2> QED
    BY <1>1, <1>3, <2>1, <2>2, <2>3, <2>4 DEF StackOK
<1>5. \A i \in 1 .. Len(s) : i = Len(s) \/ i \in 1 .. Len(u)
  BY <1>1, <1>3
<1>6. ASSUME NEW inc, NEW id
      PROVE  BodyOn(u, inc, id) <=>
               /\ BodyOn(s, inc, id)
               /\ ~(s[Len(s)].kind = "body" /\ s[Len(s)].inc = inc /\ s[Len(s)].attempt = id)
  <2>1. ASSUME NEW i \in 1 .. Len(s) - 1, s[i].kind = "body", s[Len(s)].kind = "body"
        PROVE  ~(s[i].inc = s[Len(s)].inc /\ s[i].attempt = s[Len(s)].attempt)
    BY <1>1, <2>1 DEF StackOK
  <2>2. BodyOn(u, inc, id) => \E i \in 1 .. Len(s) - 1 : s[i].kind = "body" /\ s[i].inc = inc /\ s[i].attempt = id
    BY <1>3 DEF BodyOn
  <2>3. BodyOn(u, inc, id) =>
               /\ BodyOn(s, inc, id)
               /\ ~(s[Len(s)].kind = "body" /\ s[Len(s)].inc = inc /\ s[Len(s)].attempt = id)
    BY <2>1, <2>2, <1>1 DEF BodyOn
  <2> QED
    BY <2>3, <1>3, <1>5 DEF BodyOn
<1>7. \A inc : LeaseOn(s, inc) => LeaseOn(u, inc) \/ (s[Len(s)].kind = "query" /\ s[Len(s)].inc = inc)
  BY <1>3, <1>5 DEF LeaseOn
<1> QED
  BY <1>1, <1>2, <1>3, <1>4, <1>6, <1>7

\* Pushing a frame.
LEMMA StackPushed ==
  ASSUME NEW s, NEW t, NEW ns, StackOK(s, t, ns), NEW f, FrameOK(f, t, ns), Above(s[Len(s)], f, ns),
         f.kind = "body" => ~BodyOn(s, f.inc, f.attempt)
  PROVE  /\ StackOK(Append(s, f), t, ns) /\ Len(Append(s, f)) = Len(s) + 1 /\ Len(s) \in Nat
         /\ Append(s, f)[Len(s) + 1] = f /\ \A i \in 1 .. Len(s) : Append(s, f)[i] = s[i]
         /\ Holds(s, Append(s, f))
         /\ f.kind = "body" => BodyOn(Append(s, f), f.inc, f.attempt)
         /\ f.kind = "query" => LeaseOn(Append(s, f), f.inc)
<1>1. Listed(s) /\ Len(s) \in Nat
  BY DEF StackOK, Listed
<1>2. PICK u : u = Append(s, f)
  OBVIOUS
<1>3. Listed(u) /\ Len(u) = Len(s) + 1 /\ u[Len(s) + 1] = f /\ \A i \in 1 .. Len(s) : u[i] = s[i]
  BY <1>1, <1>2, AppendListed
<1>4. \A i \in 1 .. Len(u) : i = Len(s) + 1 \/ i \in 1 .. Len(s)
  BY <1>1, <1>3
<1>5. StackOK(u, t, ns)
  <2>1. u[1].kind = "query" /\ u[1].obs = TRUE
    BY <1>1, <1>3 DEF StackOK
  <2>2. \A i \in 1 .. Len(u) : FrameOK(u[i], t, ns)
    BY <1>1, <1>3, <1>4 DEF StackOK
  <2>3. ASSUME NEW i \in 1 .. Len(u) - 1
        PROVE  Above(u[i], u[i + 1], ns)
    <3>1. CASE i = Len(s)
      <4>1. u[i] = s[Len(s)] /\ u[i + 1] = f
        BY <3>1, <1>1, <1>3 DEF StackOK
      <4> QED
        BY <4>1
    <3>2. CASE i # Len(s)
      <4>1. i \in 1 .. Len(s) - 1 /\ u[i] = s[i] /\ u[i + 1] = s[i + 1]
        BY <3>2, <1>1, <1>3
      <4> QED
        BY <4>1 DEF StackOK
    <3> QED
      BY <3>1, <3>2
  <2>4. ASSUME NEW i \in 1 .. Len(u), NEW j \in 1 .. Len(u), u[i].kind = "body", u[j].kind = "body",
               u[i].inc = u[j].inc, u[i].attempt = u[j].attempt
        PROVE  i = j
    <3>1. CASE i \in 1 .. Len(s) /\ j \in 1 .. Len(s)
      BY <3>1, <1>3, <2>4 DEF StackOK
    <3>2. CASE i = Len(s) + 1 /\ j \in 1 .. Len(s)
      BY <3>2, <1>3, <2>4 DEF BodyOn
    <3>3. CASE i \in 1 .. Len(s) /\ j = Len(s) + 1
      BY <3>3, <1>3, <2>4 DEF BodyOn
    <3> QED
      BY <3>1, <3>2, <3>3, <1>4
  <2> QED
    BY <1>1, <1>3, <2>1, <2>2, <2>3, <2>4 DEF StackOK
<1>6. \A i \in 1 .. Len(s) : i \in 1 .. Len(u) /\ u[i] = s[i]
  BY <1>1, <1>3
<1>7. Holds(s, u)
  BY <1>6 DEF Holds, BodyOn, LeaseOn
<1>8. Len(s) + 1 \in 1 .. Len(u)
  BY <1>1, <1>3
<1>9. /\ f.kind = "body" => BodyOn(u, f.inc, f.attempt)
      /\ f.kind = "query" => LeaseOn(u, f.inc)
  BY <1>3, <1>8 DEF BodyOn, LeaseOn
<1> QED
  BY <1>1, <1>2, <1>3, <1>5, <1>7, <1>9

\* Replacing the top frame.
LEMMA StackTopped ==
  ASSUME NEW s, NEW t, NEW ns, StackOK(s, t, ns), NEW f, FrameOK(f, t, ns), Replaces(s[Len(s)], f)
  PROVE  /\ StackOK(Append(Front(s), f), t, ns) /\ Len(Append(Front(s), f)) = Len(s) /\ Len(s) \in Nat
         /\ Append(Front(s), f)[Len(s)] = f
         /\ \A i \in 1 .. Len(s) - 1 : Append(Front(s), f)[i] = s[i]
         /\ Holds(s, Append(Front(s), f))
<1>1. Listed(s) /\ Len(s) \in Nat /\ Len(s) > 0
  BY DEF StackOK, Listed
<1>2. PICK u : u = Append(Front(s), f)
  OBVIOUS
<1>3. Listed(u) /\ Len(u) = Len(s) /\ u[Len(s)] = f /\ \A i \in 1 .. Len(s) - 1 : u[i] = s[i]
  <2>1. Listed(Front(s)) /\ Len(Front(s)) = Len(s) - 1 /\ \A i \in 1 .. Len(s) - 1 : Front(s)[i] = s[i]
    BY <1>1, FrontListed
  <2>2. /\ Listed(u) /\ Len(u) = Len(s) - 1 + 1 /\ u[Len(s) - 1 + 1] = f
        /\ \A i \in 1 .. Len(s) - 1 : u[i] = Front(s)[i]
    BY <2>1, <1>2, AppendListed
  <2> QED
    BY <1>1, <2>1, <2>2
<1>4. \A i \in 1 .. Len(s) : i = Len(s) \/ i \in 1 .. Len(s) - 1
  BY <1>1
<1>5. \A i \in 1 .. Len(s) : Replaces(s[i], u[i])
  BY <1>3, <1>4 DEF Replaces
<1>6. StackOK(u, t, ns)
  <2>1. u[1].kind = "query" /\ u[1].obs = TRUE
    BY <1>1, <1>5 DEF StackOK, Replaces
  <2>2. \A i \in 1 .. Len(u) : FrameOK(u[i], t, ns)
    BY <1>1, <1>3, <1>4 DEF StackOK
  <2>3. ASSUME NEW i \in 1 .. Len(u) - 1
        PROVE  Above(u[i], u[i + 1], ns)
    <3>1. Above(s[i], s[i + 1], ns) /\ u[i] = s[i] /\ Replaces(s[i + 1], u[i + 1])
      BY <1>1, <1>3, <1>5 DEF StackOK
    <3> QED
      BY <3>1 DEF Above, Replaces
  <2>4. ASSUME NEW i \in 1 .. Len(u), NEW j \in 1 .. Len(u), u[i].kind = "body", u[j].kind = "body",
               u[i].inc = u[j].inc, u[i].attempt = u[j].attempt
        PROVE  i = j
    <3>1. i \in 1 .. Len(s) /\ j \in 1 .. Len(s) /\ Replaces(s[i], u[i]) /\ Replaces(s[j], u[j])
      BY <1>3, <1>5
    <3>2. /\ s[i].kind = "body" /\ s[j].kind = "body"
          /\ s[i].inc = s[j].inc /\ s[i].attempt = s[j].attempt
      BY <3>1, <2>4 DEF Replaces
    <3> QED
      BY <3>1, <3>2 DEF StackOK
  <2> QED
    BY <1>1, <1>3, <2>1, <2>2, <2>3, <2>4 DEF StackOK
<1>7. Holds(s, u)
  BY <1>3, <1>5 DEF Holds, BodyOn, LeaseOn, Replaces
<1> QED
  BY <1>1, <1>2, <1>3, <1>6, <1>7

\* What an invariant reads of a frame is the same in a frame like it.
LEMMA LikeFrame ==
  ASSUME NEW f, NEW g, NEW t, NEW ns, FrameOK(f, t, ns), Like(f, g)
  PROVE  /\ FrameOK(g, t, ns) /\ Replaces(f, g)
         /\ f.kind = "query" => /\ g.pc = f.pc /\ g.pinned = f.pinned /\ g.inc = f.inc
                                /\ g.attempt = f.attempt /\ g.obs = f.obs
<1>1. g.kind = f.kind
  BY DEF Like, FrameOK
<1>2. CASE f.kind = "query"
  <2>1. /\ g.key = f.key /\ g.inc = f.inc /\ g.obs = f.obs /\ g.pc = f.pc /\ g.attempt = f.attempt
        /\ g.pinned = f.pinned /\ DOMAIN g = DOMAIN f
    BY <1>2 DEF Like, FrameOK, QueryOK, QueryFields
  <2> QED
    BY <1>1, <1>2, <2>1 DEF FrameOK, QueryOK, Replaces
<1>3. CASE f.kind = "validate"
  <2>1. g.inc = f.inc /\ DOMAIN g = DOMAIN f
    BY <1>3 DEF Like, FrameOK, ValidateFields
  <2> QED
    BY <1>1, <1>3, <2>1 DEF FrameOK, Replaces
<1>4. CASE f.kind = "body"
  <2>1. g.inc = f.inc /\ g.attempt = f.attempt /\ DOMAIN g = DOMAIN f
    BY <1>4 DEF Like, FrameOK, BodyFields
  <2> QED
    BY <1>1, <1>4, <2>1 DEF FrameOK, Replaces
<1> QED
  BY <1>2, <1>3, <1>4 DEF FrameOK

\* Sequences of frames, one like the other.
Alike(s, s2) == Listed(s2) /\ Len(s2) = Len(s) /\ \A i \in 1 .. Len(s) : Like(s[i], s2[i])

\* A stack like another one.
LEMMA StackAlike ==
  ASSUME NEW s, NEW t, NEW ns, StackOK(s, t, ns), NEW s2, Alike(s, s2)
  PROVE  /\ StackOK(s2, t, ns) /\ Holds(s, s2)
         /\ \A inc, id : BodyOn(s2, inc, id) => BodyOn(s, inc, id)
<1>1. Listed(s) /\ Len(s) \in Nat /\ Len(s) > 0 /\ Listed(s2) /\ Len(s2) = Len(s)
  BY DEF StackOK, Listed, Alike
<1>2. \A i \in 1 .. Len(s) : FrameOK(s[i], t, ns) /\ Like(s[i], s2[i])
  BY DEF StackOK, Alike
<1>3. \A i \in 1 .. Len(s) :
         /\ FrameOK(s2[i], t, ns) /\ Replaces(s[i], s2[i])
         /\ s[i].kind = "query" => /\ s2[i].pc = s[i].pc /\ s2[i].pinned = s[i].pinned
                                   /\ s2[i].inc = s[i].inc /\ s2[i].attempt = s[i].attempt
                                   /\ s2[i].obs = s[i].obs
  BY <1>2, LikeFrame
<1>4. s2[1].kind = "query" /\ s2[1].obs = TRUE
  BY <1>1, <1>3 DEF StackOK, Replaces
<1>5. ASSUME NEW i \in 1 .. Len(s2) - 1
      PROVE  Above(s2[i], s2[i + 1], ns)
  <2>1. Above(s[i], s[i + 1], ns) /\ i \in 1 .. Len(s) /\ i + 1 \in 1 .. Len(s)
    BY <1>1 DEF StackOK
  <2>2. /\ s2[i].kind = s[i].kind /\ Replaces(s[i + 1], s2[i + 1])
        /\ s[i].kind = "query" => /\ s2[i].pc = s[i].pc /\ s2[i].pinned = s[i].pinned
                                  /\ s2[i].inc = s[i].inc /\ s2[i].attempt = s[i].attempt
    BY <1>3, <2>1 DEF Replaces
  <2> QED
    BY <2>1, <2>2 DEF Above, Replaces
<1>6. ASSUME NEW i \in 1 .. Len(s2), NEW j \in 1 .. Len(s2), s2[i].kind = "body", s2[j].kind = "body",
             s2[i].inc = s2[j].inc, s2[i].attempt = s2[j].attempt
      PROVE  i = j
  <2>1. i \in 1 .. Len(s) /\ j \in 1 .. Len(s) /\ Replaces(s[i], s2[i]) /\ Replaces(s[j], s2[j])
    BY <1>1, <1>3
  <2>2. /\ s[i].kind = "body" /\ s[j].kind = "body"
        /\ s[i].inc = s[j].inc /\ s[i].attempt = s[j].attempt
    BY <2>1, <1>6 DEF Replaces
  <2> QED
    BY <2>1, <2>2 DEF StackOK
<1>7. StackOK(s2, t, ns)
  BY <1>1, <1>3, <1>4, <1>5, <1>6 DEF StackOK
<1>8. Holds(s, s2)
  BY <1>1, <1>3 DEF Holds, BodyOn, LeaseOn, Replaces
<1>9. \A inc, id : BodyOn(s2, inc, id) => BodyOn(s, inc, id)
  BY <1>1, <1>3 DEF BodyOn, Replaces
<1> QED
  BY <1>7, <1>8, <1>9

\* A frame with other dependencies.
LEMMA LikeObserved ==
  ASSUME NEW f, NEW d, NEW m
  PROVE  Like(f, f) /\ Like(f, [f EXCEPT !.deps = d, !.missing = m])
<1>1. PICK g : g = [f EXCEPT !.deps = d, !.missing = m]
  OBVIOUS
<1>2. DOMAIN g = DOMAIN f /\ \A x \in DOMAIN f : x # "deps" /\ x # "missing" => g[x] = f[x]
  BY <1>1
<1>3. Like(f, g)
  BY <1>2 DEF Like
<1>4. Like(f, f)
  BY DEF Like
<1> QED
  BY <1>1, <1>3, <1>4

\* A sequence with other dependencies in one frame.
LEMMA AlikeObserved ==
  ASSUME NEW s, Listed(s), NEW k, NEW f, NEW u, Like(s[k], f), u = [s EXCEPT ![k] = f]
  PROVE  Alike(s, u)
<1>1. DOMAIN s = 1 .. Len(s)
  BY ListedSeq
<1>2. DOMAIN u = DOMAIN s /\ u = [i \in DOMAIN s |-> u[i]]
  OBVIOUS
<1>3. Listed(u) /\ Len(u) = Len(s)
  BY <1>2, MapListed
<1>4. ASSUME NEW i \in 1 .. Len(s)
      PROVE  Like(s[i], u[i])
  <2>1. u[i] = IF i = k THEN f ELSE s[i]
    BY <1>1
  <2>2. Like(s[i], s[i])
    BY LikeObserved
  <2> QED
    BY <2>1, <2>2
<1> QED
  BY <1>3, <1>4 DEF Alike

\* A sequence is like itself.
LEMMA AlikeItself ==
  ASSUME NEW s, Listed(s)
  PROVE  Alike(s, s)
  BY LikeObserved DEF Alike

\* Observing a dependency changes dependencies only.
LEMMA ObserveAlike ==
  ASSUME NEW s, Listed(s), NEW inc, NEW stamp, NEW missing
  PROVE  Alike(s, Observe(s, inc, stamp, missing))
<1>1. CASE Bodies(s) = {}
  BY <1>1, AlikeItself DEF Observe
<1>2. CASE Bodies(s) # {}
  <2>1. PICK k : k = Max(Bodies(s))
    OBVIOUS
  <2>2. PICK f : f = [s[k] EXCEPT !.deps = With(s[k].deps, inc, stamp), !.missing = s[k].missing \/ missing]
    OBVIOUS
  <2>3. Observe(s, inc, stamp, missing) = [s EXCEPT ![k] = f]
    BY <1>2, <2>1, <2>2, Zenon DEF Observe
  <2>4. Like(s[k], f)
    BY <2>2, LikeObserved
  <2> QED
    BY <2>3, <2>4, AlikeObserved
<1> QED
  BY <1>1, <1>2

\* So does replaying what an aborted body had observed.
LEMMA PrefixAlike ==
  ASSUME NEW s, Listed(s), NEW body
  PROVE  Alike(s, ObserveAbortPrefix(s, body))
<1>1. CASE Bodies(s) = {}
  BY <1>1, AlikeItself DEF ObserveAbortPrefix
<1>2. CASE Bodies(s) # {}
  <2>1. PICK k : k = Max(Bodies(s))
    OBVIOUS
  <2>2. PICK d : d = [i \in DOMAIN s[k].deps \cup DOMAIN body.deps |->
                        IF i \in DOMAIN body.deps THEN body.deps[i] ELSE s[k].deps[i]]
    OBVIOUS
  <2>3. PICK e : e = [x \in DOMAIN s[k].inputs \cup DOMAIN body.inputs |->
                        IF x \in DOMAIN body.inputs THEN body.inputs[x] ELSE s[k].inputs[x]]
    OBVIOUS
  <2>4. PICK m : m = (s[k].missing \/ DOMAIN body.deps # {})
    OBVIOUS
  <2>5. PICK f : f = [s[k] EXCEPT !.deps = d, !.inputs = e, !.missing = m]
    OBVIOUS
  <2>6. ObserveAbortPrefix(s, body) = [s EXCEPT ![k] = f]
    BY <1>2, <2>1, <2>2, <2>3, <2>4, <2>5, Zenon DEF ObserveAbortPrefix
  <2>7. /\ DOMAIN f = DOMAIN s[k]
        /\ \A x \in DOMAIN s[k] : x # "deps" /\ x # "inputs" /\ x # "missing" => f[x] = s[k][x]
    BY <2>5
  <2>8. Like(s[k], f)
    BY <2>7 DEF Like
  <2> QED
    BY <2>6, <2>8, AlikeObserved
<1> QED
  BY <1>1, <1>2

\* Marking the validations of a task changes their marks only.
LEMMA DeferAlike ==
  ASSUME NEW s, Listed(s)
  PROVE  Alike(s, DeferProofs(s))
<1>1. PICK u : u = DeferProofs(s)
  OBVIOUS
<1>2. DOMAIN s = 1 .. Len(s)
  BY ListedSeq
<1>3. DOMAIN u = DOMAIN s /\ u = [i \in DOMAIN s |-> u[i]]
  BY <1>1 DEF DeferProofs
<1>4. Listed(u) /\ Len(u) = Len(s)
  BY <1>3, MapListed
<1>5. ASSUME NEW i \in 1 .. Len(s)
      PROVE  Like(s[i], u[i])
  <2>1. u[i] = IF s[i].kind = "validate" THEN [s[i] EXCEPT !.retryable = TRUE] ELSE s[i]
    BY <1>1, <1>2 DEF DeferProofs
  <2>2. CASE s[i].kind = "validate"
    <3>1. DOMAIN u[i] = DOMAIN s[i] /\ \A x \in DOMAIN s[i] : x # "retryable" => u[i][x] = s[i][x]
      BY <2>1, <2>2
    <3> QED
      BY <3>1 DEF Like
  <2>3. CASE s[i].kind # "validate"
    BY <2>1, <2>3, LikeObserved
  <2> QED
    BY <2>2, <2>3
<1> QED
  BY <1>1, <1>4, <1>5 DEF Alike

\* Appending one frame to sequences that are alike.
LEMMA AlikeAppended ==
  ASSUME NEW s, Listed(s), NEW u, Alike(s, u), NEW f
  PROVE  Alike(Append(s, f), Append(u, f))
<1>1. PICK a : a = Append(s, f)
  OBVIOUS
<1>2. PICK b : b = Append(u, f)
  OBVIOUS
<1>3. /\ Len(s) \in Nat /\ Listed(u) /\ Len(u) = Len(s)
      /\ \A i \in 1 .. Len(s) : Like(s[i], u[i])
  BY DEF Alike, Listed
<1>4. Len(a) = Len(s) + 1 /\ a[Len(s) + 1] = f /\ \A i \in 1 .. Len(s) : a[i] = s[i]
  BY <1>1, AppendListed
<1>5. /\ Listed(b) /\ Len(b) = Len(s) + 1 /\ b[Len(s) + 1] = f /\ \A i \in 1 .. Len(s) : b[i] = u[i]
  BY <1>2, <1>3, AppendListed
<1>6. \A i \in 1 .. Len(a) : i = Len(s) + 1 \/ i \in 1 .. Len(s)
  BY <1>3, <1>4
<1>7. Like(f, f)
  BY LikeObserved
<1>8. \A i \in 1 .. Len(a) : Like(a[i], b[i])
  BY <1>3, <1>4, <1>5, <1>6, <1>7
<1> QED
  BY <1>1, <1>2, <1>4, <1>5, <1>8 DEF Alike

-----------------------------------------------------------------------------
(* Steps *)

\* The step changed no task but t.
Only(t, tks, tks2) == DOMAIN tks2 = Tasks /\ \A u \in Tasks : u # t => tks2[u] = tks[u]

\* Retained terminals stay, and so do the attempts of the tasks other than t.
KeptFor(t, ns, ns2) ==
  /\ Grows(ns, ns2)
  /\ \A inc, id : RetainsIn(ns, inc, id) => RetainsIn(ns2, inc, id)
  /\ \A u \in Tasks : u # t => \A inc, id : ComputesIn(ns2, inc, id, u) <=> ComputesIn(ns, inc, id, u)

\* What the task keeps from being evicted.
Guards(tk, inc, id) ==
  \/ <<inc, id>> \in tk.leases
  \/ \E i \in 1 .. Len(tk.stack) :
       /\ tk.stack[i].kind = "query" /\ tk.stack[i].pinned
       /\ tk.stack[i].inc = inc /\ tk.stack[i].attempt = id

Weight(tk, inc, id) == IF Joins(tk, inc, id) THEN 1 ELSE 0

\* Each attempt's count moved with the one task that changed, or it is new.
Tally(t, ns, ns2, tks, tks2) ==
  \A inc \in 1 .. Len(ns2) : \A i \in 1 .. Len(ns2[inc].attempts) :
    \/ /\ inc \in 1 .. Len(ns)
       /\ \E j \in 1 .. Len(ns[inc].attempts) :
            /\ ns[inc].attempts[j].id = ns2[inc].attempts[i].id
            /\ ns2[inc].attempts[i].waiters =
                 ns[inc].attempts[j].waiters + Weight(tks2[t], inc, ns2[inc].attempts[i].id)
                                             - Weight(tks[t], inc, ns2[inc].attempts[i].id)
    \/ /\ ns2[inc].attempts[i].waiters = 0
       /\ \A u \in Tasks : ~Joins(tks2[u], inc, ns2[inc].attempts[i].id)

\* A task's conditions outlive a step that keeps what it computes and guards.
LEMMA TaskKept ==
  ASSUME NEW tk, NEW u, NEW ns, TaskOK(tk, u, ns), NEW ns2, Grows(ns, ns2),
         \A inc, id : ComputesIn(ns, inc, id, u) => ComputesIn(ns2, inc, id, u),
         \A inc, id : RetainsIn(ns, inc, id) /\ Guards(tk, inc, id) => RetainsIn(ns2, inc, id)
  PROVE  TaskOK(tk, u, ns2)
<1>1. ASSUME tk.status = "running"
      PROVE  StackOK(tk.stack, u, ns2)
  <2>1. StackOK(tk.stack, u, ns)
    BY <1>1 DEF TaskOK
  <2>2. PICK s : s = tk.stack
    OBVIOUS
  <2>3. ASSUME NEW i \in 1 .. Len(s) - 1, s[i + 1].kind = "validate", RetainsIn(ns, s[i].inc, s[i].attempt)
        PROVE  RetainsIn(ns2, s[i].inc, s[i].attempt)
    <3>1. i \in 1 .. Len(s) /\ Above(s[i], s[i + 1], ns)
      BY <2>1, <2>2 DEF StackOK, Listed
    <3>2. s[i].kind = "query" /\ s[i].pinned
      BY <3>1, <2>3 DEF Above
    <3>3. Guards(tk, s[i].inc, s[i].attempt)
      BY <3>1, <3>2, <2>2 DEF Guards
    <3> QED
      BY <3>3, <2>3
  <2>4. StackOK(s, u, ns)
    BY <2>1, <2>2
  <2>5. StackOK(s, u, ns2)
    BY <2>3, <2>4, StackKept
  <2> QED
    BY <2>2, <2>5
<1>2. ASSUME NEW lease \in tk.leases
      PROVE  RetainsIn(ns2, lease[1], lease[2])
  <2>1. lease \in Nat \X Nat /\ RetainsIn(ns, lease[1], lease[2])
    BY DEF TaskOK
  <2>2. lease = <<lease[1], lease[2]>>
    BY <2>1
  <2>3. Guards(tk, lease[1], lease[2])
    BY <2>2 DEF Guards
  <2> QED
    BY <2>1, <2>3
<1> QED
  BY <1>1, <1>2 DEF TaskOK

\* One task more or less joins.
LEMMA JoinersMove ==
  ASSUME NEW t \in Tasks, NEW tks, NEW tks2, Only(t, tks, tks2), NEW inc, NEW id
  PROVE  /\ Cardinality(Joiners(tks, inc, id)) \in Nat
         /\ Cardinality(Joiners(tks2, inc, id)) =
              Cardinality(Joiners(tks, inc, id)) + Weight(tks2[t], inc, id) - Weight(tks[t], inc, id)
<1>1. PICK J : J = Joiners(tks, inc, id)
  OBVIOUS
<1>2. PICK K : K = Joiners(tks2, inc, id)
  OBVIOUS
<1>3. IsFiniteSet(Tasks)
  BY EngineAssumption
<1>4. IsFiniteSet(J) /\ IsFiniteSet(K)
  <2>1. J \subseteq Tasks /\ K \subseteq Tasks
    BY <1>1, <1>2 DEF Joiners
  <2> QED
    BY <1>3, <2>1, FS_Subset
<1>5. Cardinality(J) \in Nat /\ Cardinality(K) \in Nat
  BY <1>4, FS_CardinalityType
<1>6. /\ \A u \in Tasks : u # t => (u \in K <=> u \in J)
      /\ J \subseteq Tasks /\ K \subseteq Tasks
      /\ t \in J <=> Joins(tks[t], inc, id)
      /\ t \in K <=> Joins(tks2[t], inc, id)
  BY <1>1, <1>2 DEF Joiners, Only
<1>7. CASE t \in J /\ t \in K
  <2>1. J = K
    BY <1>6, <1>7
  <2> QED
    BY <1>1, <1>2, <1>5, <1>6, <1>7, <2>1 DEF Weight
<1>8. CASE t \notin J /\ t \notin K
  <2>1. J = K
    BY <1>6, <1>8
  <2> QED
    BY <1>1, <1>2, <1>5, <1>6, <1>8, <2>1 DEF Weight
<1>9. CASE t \notin J /\ t \in K
  <2>1. K = J \cup {t}
    BY <1>6, <1>9
  <2>2. Cardinality(K) = Cardinality(J) + 1
    BY <1>4, <1>9, <2>1, FS_AddElement
  <2> QED
    BY <1>1, <1>2, <1>5, <1>6, <1>9, <2>2 DEF Weight
<1>10. CASE t \in J /\ t \notin K
  <2>1. J = K \cup {t}
    BY <1>6, <1>10
  <2>2. Cardinality(J) = Cardinality(K) + 1
    BY <1>4, <1>10, <2>1, FS_AddElement
  <2> QED
    BY <1>1, <1>2, <1>5, <1>6, <1>10, <2>2 DEF Weight
<1> QED
  BY <1>7, <1>8, <1>9, <1>10

\* Counts that moved with their joiners are right.
LEMMA CountsTallied ==
  ASSUME NEW t \in Tasks, NEW ns, NEW ns2, NEW tks, NEW tks2, Only(t, tks, tks2),
         CountsOK(ns, tks), Tally(t, ns, ns2, tks, tks2)
  PROVE  CountsOK(ns2, tks2)
<1>1. SUFFICES ASSUME NEW inc \in 1 .. Len(ns2), NEW i \in 1 .. Len(ns2[inc].attempts)
               PROVE  ns2[inc].attempts[i].waiters = Cardinality(Joiners(tks2, inc, ns2[inc].attempts[i].id))
  BY DEF CountsOK
<1>2. PICK id : id = ns2[inc].attempts[i].id
  OBVIOUS
<1>3. CASE /\ inc \in 1 .. Len(ns)
           /\ \E j \in 1 .. Len(ns[inc].attempts) :
                /\ ns[inc].attempts[j].id = id
                /\ ns2[inc].attempts[i].waiters =
                     ns[inc].attempts[j].waiters + Weight(tks2[t], inc, id) - Weight(tks[t], inc, id)
  <2>1. PICK j \in 1 .. Len(ns[inc].attempts) :
                /\ ns[inc].attempts[j].id = id
                /\ ns2[inc].attempts[i].waiters =
                     ns[inc].attempts[j].waiters + Weight(tks2[t], inc, id) - Weight(tks[t], inc, id)
    BY <1>3
  <2>2. ns[inc].attempts[j].waiters = Cardinality(Joiners(tks, inc, id))
    BY <1>3, <2>1 DEF CountsOK
  <2>3. Cardinality(Joiners(tks2, inc, id)) =
              Cardinality(Joiners(tks, inc, id)) + Weight(tks2[t], inc, id) - Weight(tks[t], inc, id)
    BY JoinersMove
  <2> QED
    BY <1>2, <2>1, <2>2, <2>3
<1>4. CASE ns2[inc].attempts[i].waiters = 0 /\ \A u \in Tasks : ~Joins(tks2[u], inc, id)
  <2>1. Joiners(tks2, inc, id) = {}
    BY <1>4 DEF Joiners
  <2>2. Cardinality({}) = 0
    BY FS_EmptySet
  <2> QED
    BY <1>2, <1>4, <2>1, <2>2
<1> QED
  BY <1>2, <1>3, <1>4 DEF Tally

\* A step of task t, part by part.
LEMMA Stepped ==
  ASSUME NEW t \in Tasks, NEW ns, NEW ix, NEW tks, NEW h, StateOK(ns, ix, tks, h),
         NEW ns2, NEW ix2, NEW tks2, NEW h2, Only(t, tks, tks2),
         NodesOK(ns2), KeptFor(t, ns, ns2), IndexOK(ix2, ns2), HostOK(h2),
         TaskOK(tks2[t], t, ns2),
         \A inc, id : ComputesIn(ns2, inc, id, t) => BodyOn(tks2[t].stack, inc, id),
         Tally(t, ns, ns2, tks, tks2), MemoOK(ix2, ns2, tks2)
  PROVE  StateOK(ns2, ix2, tks2, h2)
<1>1. ASSUME NEW u \in Tasks, u # t
      PROVE  TaskOK(tks2[u], u, ns2)
  <2>1. TaskOK(tks[u], u, ns) /\ tks2[u] = tks[u]
    BY <1>1 DEF StateOK, Only
  <2>2. /\ Grows(ns, ns2)
        /\ \A inc, id : ComputesIn(ns, inc, id, u) => ComputesIn(ns2, inc, id, u)
        /\ \A inc, id : RetainsIn(ns, inc, id) => RetainsIn(ns2, inc, id)
    BY <1>1 DEF KeptFor
  <2>3. TaskOK(tks[u], u, ns2)
    BY <2>1, <2>2, TaskKept
  <2> QED
    BY <2>1, <2>3
<1>2. CountsOK(ns2, tks2)
  BY CountsTallied DEF StateOK
<1>3. OwnersOK(ns2, tks2)
  BY DEF StateOK, OwnersOK, KeptFor, Only
<1> QED
  BY <1>1, <1>2, <1>3 DEF StateOK, Only

\* Nothing changes for the nodes and their leases.
LEMMA KeptItself ==
  ASSUME NEW t, NEW ns, NodesOK(ns)
  PROVE  KeptFor(t, ns, ns)
<1>a. Len(ns) \in Nat
  BY DEF NodesOK, Listed
<1>b. \A inc \in 1 .. Len(ns) : ns[inc].next_attempt \in Nat
  BY DEF NodesOK, NodeOK
<1>1. Grows(ns, ns)
  BY <1>a, <1>b DEF Grows
<1> QED
  BY <1>1 DEF KeptFor

\* Leases are only added.
LEMMA MemoHeld ==
  ASSUME NEW t \in Tasks, NEW ix, NEW ns, NEW tks, NEW tks2, MemoOK(ix, ns, tks), Only(t, tks, tks2),
         Holds(tks[t].stack, tks2[t].stack)
  PROVE  MemoOK(ix, ns, tks2)
<1>1. ASSUME NEW key \in Keys, ix[key] # 0, ns[ix[key]].attempts = << >>
      PROVE  \E u \in Tasks : LeaseOn(tks2[u].stack, ix[key])
  <2>1. PICK u \in Tasks : LeaseOn(tks[u].stack, ix[key])
    BY <1>1 DEF MemoOK
  <2>2. LeaseOn(tks2[u].stack, ix[key])
    BY <1>1, <2>1 DEF Only, Holds
  <2> QED
    BY <2>2
<1> QED
  BY <1>1 DEF MemoOK

\* A step of task t that writes nothing but its own state and the host's.
LEMMA QuietStep ==
  ASSUME NEW t \in Tasks, NEW ns, NEW ix, NEW tks, NEW h, StateOK(ns, ix, tks, h),
         NEW tks2, NEW h2, Only(t, tks, tks2), HostOK(h2), TaskOK(tks2[t], t, ns),
         Holds(tks[t].stack, tks2[t].stack),
         \A inc, id : Joins(tks2[t], inc, id) <=> Joins(tks[t], inc, id)
  PROVE  StateOK(ns, ix, tks2, h2)
<1>1. NodesOK(ns) /\ IndexOK(ix, ns) /\ CountsOK(ns, tks) /\ OwnersOK(ns, tks) /\ MemoOK(ix, ns, tks)
  BY DEF StateOK
<1>2. KeptFor(t, ns, ns)
  BY <1>1, KeptItself
<1>3. \A inc, id : ComputesIn(ns, inc, id, t) => BodyOn(tks2[t].stack, inc, id)
  BY <1>1 DEF OwnersOK, Holds
<1>4. \A inc, id : Weight(tks2[t], inc, id) = Weight(tks[t], inc, id) /\ Weight(tks[t], inc, id) \in Nat
  BY DEF Weight
<1>5. Tally(t, ns, ns, tks, tks2)
  <2>1. SUFFICES ASSUME NEW inc \in 1 .. Len(ns), NEW i \in 1 .. Len(ns[inc].attempts)
                 PROVE  ns[inc].attempts[i].waiters =
                          ns[inc].attempts[i].waiters + Weight(tks2[t], inc, ns[inc].attempts[i].id)
                                                      - Weight(tks[t], inc, ns[inc].attempts[i].id)
    BY Zenon DEF Tally
  <2>2. ns[inc].attempts[i].waiters \in Nat
    BY <1>1 DEF NodesOK, NodeOK, AttemptOK
  <2> QED
    BY <1>4, <2>2
<1>6. MemoOK(ix, ns, tks2)
  BY <1>1, MemoHeld
<1> QED
  BY <1>1, <1>2, <1>3, <1>5, <1>6, Stepped

\* The node's counts moved with the task.
Weighed(t, ns, inc, n2, tks, tks2) ==
  \A i \in 1 .. Len(ns[inc].attempts) :
    n2.attempts[i].waiters = ns[inc].attempts[i].waiters
                               + Weight(tks2[t], inc, ns[inc].attempts[i].id)
                               - Weight(tks[t], inc, ns[inc].attempts[i].id)

\* A step of task t that also changes a count, or renews a certificate.
LEMMA AlikeStep ==
  ASSUME NEW t \in Tasks, NEW ns, NEW ix, NEW tks, NEW h, StateOK(ns, ix, tks, h),
         NEW tks2, Only(t, tks, tks2), TaskOK(tks2[t], t, ns),
         Holds(tks[t].stack, tks2[t].stack),
         NEW inc \in 1 .. Len(ns), NEW n2, NodeAlike(ns[inc], n2), NEW ns2, Writes(ns, inc, n2, ns2),
         Weighed(t, ns, inc, n2, tks, tks2),
         \A other, id : other # inc => (Joins(tks2[t], other, id) <=> Joins(tks[t], other, id))
  PROVE  StateOK(ns2, ix, tks2, h)
<1>1. /\ NodesOK(ns) /\ IndexOK(ix, ns) /\ CountsOK(ns, tks) /\ OwnersOK(ns, tks) /\ MemoOK(ix, ns, tks)
      /\ HostOK(h)
  BY DEF StateOK
<1>2. Sound(ns[inc])
  BY <1>1 DEF NodesOK, Sound
<1>3. /\ Sound(n2)
      /\ \A id : (Retains(n2, id) <=> Retains(ns[inc], id))
                 /\ \A u : Computes(n2, id, u) <=> Computes(ns[inc], id, u)
  BY <1>2, AlikeSound
<1>4. Follows(ns[inc], n2)
  BY <1>2, <1>3 DEF NodeAlike, Sound, NodeOK, Follows
<1>5. /\ NodesOK(ns2) /\ Grows(ns, ns2) /\ Len(ns2) = Len(ns) /\ ns2[inc] = n2
      /\ \A i \in 1 .. Len(ns) : i # inc => ns2[i] = ns[i]
  <2>1. Written(ns, inc, n2, ns2)
    BY <1>1, <1>4, TableWritten, Zenon
  <2> QED
    BY <2>1 DEF Written
<1>6. \A i, id : (RetainsIn(ns2, i, id) <=> RetainsIn(ns, i, id))
                 /\ \A u : ComputesIn(ns2, i, id, u) <=> ComputesIn(ns, i, id, u)
  BY <1>3, <1>5 DEF RetainsIn, ComputesIn
<1>7. KeptFor(t, ns, ns2)
  BY <1>5, <1>6 DEF KeptFor
<1>8. TaskOK(tks2[t], t, ns2)
  BY <1>5, <1>6, TaskKept
<1>9. \A i, id : ComputesIn(ns2, i, id, t) => BodyOn(tks2[t].stack, i, id)
  BY <1>1, <1>6 DEF OwnersOK, Holds
<1>10. IndexOK(ix, ns2)
  BY <1>1, <1>5 DEF IndexOK, Grows
<1>11. MemoOK(ix, ns2, tks2)
  <2>1. MemoOK(ix, ns, tks2)
    BY <1>1, MemoHeld
  <2>2. ASSUME NEW i \in 1 .. Len(ns), ns[i].attempts # << >>
        PROVE  ns2[i].attempts # << >>
    <3>1. CASE i # inc
      BY <3>1, <2>2, <1>5
    <3>2. CASE i = inc
      <4>1. Len(n2.attempts) = Len(ns[inc].attempts) /\ Listed(ns[inc].attempts)
        BY <1>2 DEF NodeAlike, Sound, NodeOK
      <4>2. PICK a : a = ns[inc].attempts
        OBVIOUS
      <4>3. Len(a) # 0
        <5>1. a = [k \in 1 .. Len(a) |-> a[k]] /\ a # << >>
          BY <4>1, <4>2, <2>2, <3>2 DEF Listed
        <5> QED
          BY <5>1
      <4>4. Len(<< >>) = 0
        OBVIOUS
      <4> QED
        BY <4>1, <4>2, <4>3, <4>4, <3>2, <1>5
    <3> QED
      BY <3>1, <3>2
  <2>3. \A key \in Keys : ix[key] # 0 => ix[key] \in 1 .. Len(ns)
    BY <1>1 DEF IndexOK, NodesOK, Listed
  <2> QED
    BY <2>1, <2>2, <2>3 DEF MemoOK
<1>12. Tally(t, ns, ns2, tks, tks2)
  <2>0. ASSUME \A i \in 1 .. Len(ns) : \A k \in 1 .. Len(ns2[i].attempts) :
                  /\ k \in 1 .. Len(ns[i].attempts)
                  /\ ns[i].attempts[k].id = ns2[i].attempts[k].id
                  /\ ns2[i].attempts[k].waiters =
                       ns[i].attempts[k].waiters + Weight(tks2[t], i, ns2[i].attempts[k].id)
                                                 - Weight(tks[t], i, ns2[i].attempts[k].id)
        PROVE  Tally(t, ns, ns2, tks, tks2)
    <3>1. SUFFICES ASSUME NEW i \in 1 .. Len(ns2), NEW k \in 1 .. Len(ns2[i].attempts)
                   PROVE  /\ i \in 1 .. Len(ns)
                          /\ \E j \in 1 .. Len(ns[i].attempts) :
                               /\ ns[i].attempts[j].id = ns2[i].attempts[k].id
                               /\ ns2[i].attempts[k].waiters =
                                    ns[i].attempts[j].waiters + Weight(tks2[t], i, ns2[i].attempts[k].id)
                                                              - Weight(tks[t], i, ns2[i].attempts[k].id)
      BY Zenon DEF Tally
    <3>2. i \in 1 .. Len(ns)
      BY <1>5
    <3> QED
      BY <2>0, <3>2, Zenon
  <2>1. SUFFICES ASSUME NEW i \in 1 .. Len(ns), NEW k \in 1 .. Len(ns2[i].attempts)
                 PROVE  /\ k \in 1 .. Len(ns[i].attempts)
                        /\ ns[i].attempts[k].id = ns2[i].attempts[k].id
                        /\ ns2[i].attempts[k].waiters =
                             ns[i].attempts[k].waiters + Weight(tks2[t], i, ns2[i].attempts[k].id)
                                                       - Weight(tks[t], i, ns2[i].attempts[k].id)
    BY <2>0, Zenon
  <2>2. CASE i = inc
    <3>1. Len(n2.attempts) = Len(ns[inc].attempts)
          /\ \A m \in 1 .. Len(ns[inc].attempts) : n2.attempts[m].id = ns[inc].attempts[m].id
      BY DEF NodeAlike
    <3> QED
      BY <2>1, <2>2, <3>1, <1>5 DEF Weighed
  <2>3. CASE i # inc
    <3>1. ns2[i] = ns[i]
      BY <2>3, <1>5
    <3>2. ns[i].attempts[k].waiters \in Nat
      BY <3>1, <1>1 DEF NodesOK, NodeOK, AttemptOK
    <3>3. /\ Weight(tks2[t], i, ns2[i].attempts[k].id) = Weight(tks[t], i, ns2[i].attempts[k].id)
          /\ Weight(tks[t], i, ns2[i].attempts[k].id) \in Nat
      BY <2>3 DEF Weight
    <3> QED
      BY <3>1, <3>2, <3>3
  <2> QED
    BY <2>2, <2>3
<1> QED
  BY <1>1, <1>5, <1>7, <1>8, <1>9, <1>10, <1>11, <1>12, Stepped

-----------------------------------------------------------------------------
(* What an operation does to its task *)

\* Task t goes on with stack s.
Runs(t, tks, tks2, s) ==
  Only(t, tks, tks2) /\ tks2[t].stack = s /\ tks2[t].status = "running"

NoJoin(s) == ~(s[Len(s)].kind = "query" /\ s[Len(s)].pc \in {"join", "parked"})

\* The stack is not the host's query alone, at its start or its end.
Inner(s) == Len(s) = 1 => s[1].pc \notin {"enter", "return"}

\* A task that runs.
LEMMA RunningTask ==
  ASSUME NEW t \in Tasks, NEW ns, NEW ix, NEW tks, NEW h, StateOK(ns, ix, tks, h),
         tks[t].status = "running"
  PROVE  /\ TaskOK(tks[t], t, ns) /\ StackOK(tks[t].stack, t, ns) /\ DOMAIN tks = Tasks
         /\ Listed(tks[t].stack) /\ Len(tks[t].stack) \in Nat \ {0}
         /\ FrameOK(tks[t].stack[Len(tks[t].stack)], t, ns)
<1>1. TaskOK(tks[t], t, ns) /\ DOMAIN tks = Tasks
  BY DEF StateOK
<1>2. StackOK(tks[t].stack, t, ns)
  BY <1>1 DEF TaskOK
<1>3. Listed(tks[t].stack) /\ Len(tks[t].stack) \in Nat \ {0}
  BY <1>2 DEF StackOK, Listed
<1>4. FrameOK(tks[t].stack[Len(tks[t].stack)], t, ns)
  BY <1>2, <1>3 DEF StackOK
<1> QED
  BY <1>1, <1>2, <1>3, <1>4

\* The task sets its stack.
LEMMA TaskSets ==
  ASSUME NEW t \in Tasks, NEW ns, NEW tks, DOMAIN tks = Tasks, TaskOK(tks[t], t, ns),
         tks[t].status = "running", NEW s, StackOK(s, t, ns), Inner(s),
         NEW tks2, tks2 = [tks EXCEPT ![t].stack = s]
  PROVE  Runs(t, tks, tks2, s) /\ TaskOK(tks2[t], t, ns)
<1>1. Only(t, tks, tks2)
  BY DEF Only
<1>2. PICK tk : tk = tks2[t]
  OBVIOUS
<1>3. tk = [tks[t] EXCEPT !.stack = s]
  BY <1>2
<1>4. /\ DOMAIN tk = DOMAIN tks[t] /\ tk.stack = s /\ tk.status = "running" /\ tk.rev = tks[t].rev
      /\ tk.leases = tks[t].leases
  BY <1>3 DEF TaskOK, TaskFields
<1>5. BottomOK(tk)
  BY <1>4 DEF BottomOK, Inner
<1>6. TaskOK(tk, t, ns)
  BY <1>4, <1>5 DEF TaskOK
<1> QED
  BY <1>1, <1>2, <1>4, <1>6 DEF Runs

\* The task sets its stack and what it returns.
LEMMA TaskReturns ==
  ASSUME NEW t \in Tasks, NEW ns, NEW tks, DOMAIN tks = Tasks, TaskOK(tks[t], t, ns),
         tks[t].status = "running", NEW s, StackOK(s, t, ns), NEW ret,
         Inner(s) \/ (IsAbort(ret) /\ s[1].pc = "return"),
         NEW tks2, tks2 = [tks EXCEPT ![t].stack = s, ![t].ret = ret]
  PROVE  Runs(t, tks, tks2, s) /\ TaskOK(tks2[t], t, ns)
<1>1. Only(t, tks, tks2)
  BY DEF Only
<1>2. PICK tk : tk = tks2[t]
  OBVIOUS
<1>3. tk = [tks[t] EXCEPT !.stack = s, !.ret = ret]
  BY <1>2
<1>4. /\ DOMAIN tk = DOMAIN tks[t] /\ tk.stack = s /\ tk.status = "running" /\ tk.rev = tks[t].rev
      /\ tk.leases = tks[t].leases /\ tk.ret = ret
  BY <1>3 DEF TaskOK, TaskFields
<1>5. BottomOK(tk)
  BY <1>4 DEF BottomOK, Inner
<1>6. TaskOK(tk, t, ns)
  BY <1>4, <1>5 DEF TaskOK
<1> QED
  BY <1>1, <1>2, <1>4, <1>6 DEF Runs

\* A query frame that goes on with the same key, node and origin.
LEMMA QueryMoved ==
  ASSUME NEW f, NEW t, NEW ns, FrameOK(f, t, ns), f.kind = "query", NEW g,
         DOMAIN f \subseteq DOMAIN g, g.kind = "query", g.key = f.key, g.obs = f.obs, g.inc = f.inc,
         g.pc # "enter", g.pc # "return" => f.inc # 0, g.pc \notin {"join", "parked"}
  PROVE  FrameOK(g, t, ns) /\ Replaces(f, g)
  BY DEF FrameOK, QueryOK, Replaces

\* A step of a task that runs, about itself and without joining.
LEMMA QuietMove ==
  ASSUME NEW t \in Tasks, NEW ns, NEW ix, NEW tks, NEW h, StateOK(ns, ix, tks, h),
         NEW s, NEW tks2, Runs(t, tks, tks2, s), TaskOK(tks2[t], t, ns),
         Holds(tks[t].stack, s), NoJoin(tks[t].stack), NoJoin(s)
  PROVE  StateOK(ns, ix, tks2, h)
<1>1. \A inc, id : Joins(tks2[t], inc, id) <=> Joins(tks[t], inc, id)
  BY DEF Runs, NoJoin, Joins, JoinsAt
<1>2. HostOK(h) /\ Only(t, tks, tks2) /\ Holds(tks[t].stack, tks2[t].stack)
  BY DEF StateOK, Runs
<1> QED
  BY <1>1, <1>2, QuietStep

\* The stack has this frame on top of these ones.
Puts(u, rest, f) == u = Append(rest, f)

\* Stack s with g, on top of rest, for its top frame.
Topped(t, ns, s, u, rest, g) ==
  /\ StackOK(u, t, ns) /\ Len(u) = Len(rest) + 1 /\ Len(rest) \in Nat /\ u[Len(u)] = g
  /\ \A i \in 1 .. Len(rest) : u[i] = rest[i]
  /\ Holds(s, u)

\* The top frame replaced by another one.
LEMMA TopReplaced ==
  ASSUME NEW t, NEW ns, NEW rest, Listed(rest), NEW f, NEW s, Puts(s, rest, f), StackOK(s, t, ns),
         NEW g, FrameOK(g, t, ns), Replaces(f, g), NEW u, Puts(u, rest, g)
  PROVE  Topped(t, ns, s, u, rest, g)
<1>1. s = Append(rest, f) /\ u = Append(rest, g)
  BY DEF Puts
<1>2. Front(s) = rest /\ Len(s) = Len(rest) + 1 /\ Len(rest) \in Nat /\ s[Len(s)] = f
      /\ \A i \in 1 .. Len(rest) : s[i] = rest[i]
  BY <1>1, FrontAppend, AppendListed DEF Listed
<1>3. StackOK(s, t, ns) /\ Replaces(s[Len(s)], g)
  BY <1>1, <1>2
<1>4. /\ StackOK(Append(Front(s), g), t, ns) /\ Len(Append(Front(s), g)) = Len(s)
      /\ Append(Front(s), g)[Len(s)] = g
      /\ \A i \in 1 .. Len(s) - 1 : Append(Front(s), g)[i] = s[i]
      /\ Holds(s, Append(Front(s), g))
  BY <1>3, StackTopped
<1>5. /\ StackOK(u, t, ns) /\ Len(u) = Len(s) /\ u[Len(s)] = g
      /\ \A i \in 1 .. Len(s) - 1 : u[i] = s[i]
      /\ Holds(s, u)
  BY <1>1, <1>2, <1>4
<1> QED
  BY <1>1, <1>2, <1>5 DEF Topped

\* A query that ends, with whatever answer.
Returned(g) == [g EXCEPT !.pc = "return", !.pinned = FALSE]

\* The frame of a query that ends.
LEMMA FrameReturned ==
  ASSUME NEW t, NEW ns, NEW g, FrameOK(g, t, ns), g.kind = "query"
  PROVE  /\ FrameOK(Returned(g), t, ns) /\ Replaces(g, Returned(g))
         /\ Returned(g).kind = "query" /\ Returned(g).pc = "return"
         /\ Returned(g).obs = g.obs /\ Returned(g).attempt = g.attempt
<1>1. PICK r : r = [g EXCEPT !.pc = "return", !.pinned = FALSE]
  OBVIOUS
<1>2. QueryFields \subseteq DOMAIN g
  BY DEF FrameOK, QueryOK
<1>3. /\ DOMAIN r = DOMAIN g /\ r.kind = g.kind /\ r.key = g.key /\ r.obs = g.obs /\ r.inc = g.inc
      /\ r.attempt = g.attempt /\ r.pc = "return"
  BY <1>1, <1>2 DEF QueryFields
<1>4. FrameOK(r, t, ns) /\ Replaces(g, r)
  BY <1>3, QueryMoved
<1> QED
  BY <1>1, <1>3, <1>4 DEF Returned

\* The stack it leaves.
Ends(t, ns, s, u, rest, g) == Topped(t, ns, s, u, rest, Returned(g)) /\ NoJoin(u)

\* The query on top of a stack ends.
LEMMA StackEnds ==
  ASSUME NEW t, NEW ns, NEW rest, Listed(rest), NEW g, NEW s, Puts(s, rest, g), StackOK(s, t, ns),
         g.kind = "query", NEW u, Puts(u, rest, Returned(g))
  PROVE  Ends(t, ns, s, u, rest, g) /\ FrameOK(g, t, ns)
<1>1. FrameOK(g, t, ns)
  <2>2. Len(s) = Len(rest) + 1 /\ s[Len(rest) + 1] = g /\ Len(rest) \in Nat
    BY AppendListed DEF Listed, Puts
  <2>3. Len(rest) + 1 \in 1 .. Len(s) /\ StackOK(s, t, ns)
    BY <2>2
  <2> QED
    BY <2>2, <2>3 DEF StackOK
<1>2. FrameOK(Returned(g), t, ns) /\ Replaces(g, Returned(g)) /\ Returned(g).pc = "return"
  BY <1>1, FrameReturned
<1>3. Topped(t, ns, s, u, rest, Returned(g))
  BY <1>2, TopReplaced, Zenon
<1>4. NoJoin(u)
  BY <1>2, <1>3 DEF NoJoin, Topped
<1> QED
  BY <1>1, <1>3, <1>4 DEF Ends

\* What an aborted query does to its task.
Aborted(t, tks, tks2, u, why) == tks2 = [tks EXCEPT ![t].stack = u, ![t].ret = Abort(why)]

\* The task's query aborts.
LEMMA TaskAborts ==
  ASSUME NEW t \in Tasks, NEW ns, NEW tks, DOMAIN tks = Tasks, TaskOK(tks[t], t, ns),
         tks[t].status = "running",
         NEW rest, Listed(rest), NEW g, NEW s, Puts(s, rest, g), StackOK(s, t, ns), g.kind = "query",
         NEW why, NEW u, Puts(u, rest, Returned(g)),
         NEW tks2, Aborted(t, tks, tks2, u, why)
  PROVE  /\ Runs(t, tks, tks2, u) /\ TaskOK(tks2[t], t, ns) /\ Ends(t, ns, s, u, rest, g)
<1>1. Ends(t, ns, s, u, rest, g) /\ FrameOK(g, t, ns)
  BY StackEnds, Zenon
<1>2. Returned(g).pc = "return"
  BY <1>1, FrameReturned
<1>3. IsAbort(Abort(why))
  BY DEF IsAbort, Abort
<1>4. StackOK(u, t, ns) /\ (Inner(u) \/ (IsAbort(Abort(why)) /\ u[1].pc = "return"))
  BY <1>1, <1>2, <1>3 DEF Inner, Ends, Topped
<1>5. Runs(t, tks, tks2, u) /\ TaskOK(tks2[t], t, ns)
  BY <1>4, TaskReturns DEF Aborted
<1> QED
  BY <1>1, <1>5

\* What an answered query does to its task.
Answered(t, tks, tks2, u, ret, g) ==
  /\ Only(t, tks, tks2) /\ DOMAIN tks[t] \subseteq DOMAIN tks2[t]
  /\ tks2[t].status = tks[t].status /\ tks2[t].rev = tks[t].rev
  /\ tks2[t].stack = u /\ tks2[t].ret = ret
  /\ tks2[t].leases = IF g.obs THEN tks[t].leases \cup {<<ret.inc, g.attempt>>} ELSE tks[t].leases

\* The task's query is answered by an attempt of a node.
LEMMA TaskAnswers ==
  ASSUME NEW t \in Tasks, NEW ns, NEW tks, DOMAIN tks = Tasks, TaskOK(tks[t], t, ns),
         tks[t].status = "running",
         NEW rest, Listed(rest), NEW g, NEW s, Puts(s, rest, g), StackOK(s, t, ns), g.kind = "query",
         NEW ret, ret.inc \in Nat, g.attempt \in Nat, RetainsIn(ns, ret.inc, g.attempt),
         NEW after, Alike(rest, after), NEW u, Puts(u, after, Returned(g)),
         NEW tks2, Answered(t, tks, tks2, u, ret, g)
  PROVE  /\ Runs(t, tks, tks2, u) /\ TaskOK(tks2[t], t, ns) /\ Holds(s, u) /\ NoJoin(u)
<1>0. PICK a : Puts(a, after, g)
  BY DEF Puts
<1>1. StackOK(a, t, ns) /\ Holds(s, a) /\ Listed(after)
  <2>1. Alike(s, a)
    BY <1>0, AlikeAppended DEF Puts
  <2> QED
    BY <2>1, StackAlike DEF Alike
<1>2. Ends(t, ns, a, u, after, g) /\ FrameOK(g, t, ns)
  BY <1>0, <1>1, StackEnds, Zenon
<1>3. Returned(g).pc = "return" /\ Returned(g).obs = g.obs /\ Returned(g).attempt = g.attempt
  BY <1>2, FrameReturned
<1>4. Holds(s, u) /\ NoJoin(u)
  BY <1>1, <1>2 DEF Holds, Ends, Topped
<1>5. Runs(t, tks, tks2, u)
  BY DEF Runs, Answered
<1>6. PICK tk : tk = tks2[t]
  OBVIOUS
<1>7. BottomOK(tk)
  <2>1. ASSUME Len(u) = 1
        PROVE  u[1].pc = "return" /\ <<ret.inc, u[1].attempt>> \in tk.leases
    <3>1. u[1] = Returned(g) /\ StackOK(u, t, ns)
      BY <1>2, <2>1 DEF Ends, Topped
    <3>2. g.obs = TRUE
      BY <3>1, <1>3 DEF StackOK
    <3> QED
      BY <1>3, <1>6, <3>1, <3>2 DEF Answered
  <2> QED
    BY <1>6, <2>1 DEF BottomOK, Answered
<1>8. ASSUME NEW lease \in tk.leases
      PROVE  lease \in Nat \X Nat /\ RetainsIn(ns, lease[1], lease[2])
  <2>1. CASE lease \in tks[t].leases
    BY <2>1 DEF TaskOK
  <2>2. CASE lease = <<ret.inc, g.attempt>>
    BY <2>2
  <2> QED
    BY <1>6, <1>8, <2>1, <2>2 DEF Answered
<1>9. tk.stack = u /\ tk.status = "running" /\ tk.rev = tks[t].rev /\ DOMAIN tks[t] \subseteq DOMAIN tk
  BY <1>6 DEF Answered
<1>10. StackOK(u, t, ns)
  BY <1>2 DEF Ends, Topped
<1>11. TaskOK(tk, t, ns)
  BY <1>7, <1>8, <1>9, <1>10 DEF TaskOK
<1> QED
  BY <1>4, <1>5, <1>6, <1>11

-----------------------------------------------------------------------------
(* Where a task stands *)

\* Stack s has frame f on top of rest.
Stacked(t, ns, s, rest, f) ==
  /\ StackOK(s, t, ns) /\ Puts(s, rest, f) /\ Listed(rest) /\ Len(rest) \in Nat
  /\ Len(s) = Len(rest) + 1 /\ s[Len(s)] = f /\ \A i \in 1 .. Len(rest) : s[i] = rest[i]
  /\ FrameOK(f, t, ns)

\* The running task's stack is s, with frame f on top of rest.
Stands(t, s, rest, f) ==
  /\ s = tasks[t].stack /\ s = Stack(t) /\ rest = Below(t) /\ f = Top(t)
  /\ tasks[t].status = "running" /\ TaskOK(tasks[t], t, nodes) /\ DOMAIN tasks = Tasks
  /\ Stacked(t, nodes, s, rest, f)

\* The step makes u the stack of task t and changes nothing else that counts.
Quietly(t, s, u) ==
  /\ Runs(t, tasks, tasks', u) /\ TaskOK(tasks'[t], t, nodes)
  /\ Holds(s, u) /\ NoJoin(u)

\* A stack, taken apart.
LEMMA StackApart ==
  ASSUME NEW t, NEW ns, NEW s, StackOK(s, t, ns), NEW rest, rest = Front(s), NEW f, f = Last(s)
  PROVE  Stacked(t, ns, s, rest, f)
<1>1. Listed(s) /\ Len(s) > 0 /\ Len(s) \in Nat
  BY DEF StackOK, Listed
<1>2. /\ Append(Front(s), s[Len(s)]) = s /\ Listed(Front(s)) /\ Len(Front(s)) = Len(s) - 1
      /\ Last(s) = s[Len(s)] /\ \A i \in 1 .. Len(s) - 1 : Front(s)[i] = s[i]
  BY <1>1, FrontLast
<1>3. FrameOK(s[Len(s)], t, ns)
  BY <1>1 DEF StackOK
<1> QED
  BY <1>1, <1>2, <1>3 DEF Stacked, Puts

\* A running task stands somewhere.
LEMMA TaskStands ==
  ASSUME EngineInv, NEW t \in Tasks, tasks[t].status = "running"
  PROVE  Stands(t, Stack(t), Below(t), Top(t))
<1>1. TaskOK(tasks[t], t, nodes) /\ StackOK(Stack(t), t, nodes) /\ DOMAIN tasks = Tasks
  BY RunningTask DEF EngineInv, Stack
<1>2. Stacked(t, nodes, Stack(t), Below(t), Top(t))
  BY <1>1, StackApart DEF Below, Top
<1> QED
  BY <1>1, <1>2 DEF Stands, Stack

\* The frame below, and what goes with the top frame.
LEMMA StackBelow ==
  ASSUME NEW t, NEW ns, NEW s, NEW rest, NEW f, Stacked(t, ns, s, rest, f), Len(rest) > 0
  PROVE  /\ Stacked(t, ns, rest, Front(rest), Last(rest)) /\ Above(Last(rest), f, ns)
         /\ \A inc, id : BodyOn(rest, inc, id) <=>
              BodyOn(s, inc, id) /\ ~(f.kind = "body" /\ f.inc = inc /\ f.attempt = id)
         /\ \A inc : LeaseOn(s, inc) => LeaseOn(rest, inc) \/ (f.kind = "query" /\ f.inc = inc)
<1>1. Front(s) = rest
  BY FrontAppend DEF Stacked, Puts
<1>2. /\ Len(s) > 1 /\ s[Len(s)] = f /\ StackOK(s, t, ns)
  BY DEF Stacked
<1>3. /\ StackOK(Front(s), t, ns)
      /\ \A inc, id : BodyOn(Front(s), inc, id) <=>
              /\ BodyOn(s, inc, id)
              /\ ~(s[Len(s)].kind = "body" /\ s[Len(s)].inc = inc /\ s[Len(s)].attempt = id)
      /\ \A inc : LeaseOn(s, inc) =>
              LeaseOn(Front(s), inc) \/ (s[Len(s)].kind = "query" /\ s[Len(s)].inc = inc)
  BY <1>2, StackPopped
<1>4. Stacked(t, ns, rest, Front(rest), Last(rest))
  BY <1>1, <1>3, StackApart
<1>5. Above(Last(rest), f, ns)
  <2>1. Last(rest) = rest[Len(rest)]
    BY DEF Last
  <2>2. Len(rest) \in 1 .. Len(s) - 1 /\ s[Len(rest)] = rest[Len(rest)] /\ s[Len(rest) + 1] = f
    BY DEF Stacked
  <2> QED
    BY <1>2, <2>1, <2>2 DEF StackOK
<1> QED
  BY <1>1, <1>2, <1>3, <1>4, <1>5

\* Validations and bodies have their query below.
LEMMA InnerBelow ==
  ASSUME NEW t, NEW ns, NEW s, NEW rest, NEW f, Stacked(t, ns, s, rest, f), f.kind # "query"
  PROVE  Len(rest) > 0
  BY DEF Stacked, StackOK

\* The stack one frame higher.
LEMMA StackHigher ==
  ASSUME NEW t, NEW ns, NEW s, NEW rest, NEW f, Stacked(t, ns, s, rest, f),
         NEW g, FrameOK(g, t, ns), Above(f, g, ns), g.kind = "body" => ~BodyOn(s, g.inc, g.attempt),
         NEW u, Puts(u, s, g)
  PROVE  /\ Stacked(t, ns, u, s, g) /\ Holds(s, u)
         /\ g.kind = "body" => BodyOn(u, g.inc, g.attempt)
         /\ g.kind = "query" => LeaseOn(u, g.inc)
<1>1. StackOK(s, t, ns) /\ Above(s[Len(s)], g, ns)
  BY DEF Stacked
<1>2. /\ StackOK(Append(s, g), t, ns) /\ Len(Append(s, g)) = Len(s) + 1 /\ Len(s) \in Nat
      /\ Append(s, g)[Len(s) + 1] = g /\ \A i \in 1 .. Len(s) : Append(s, g)[i] = s[i]
      /\ Holds(s, Append(s, g))
      /\ g.kind = "body" => BodyOn(Append(s, g), g.inc, g.attempt)
      /\ g.kind = "query" => LeaseOn(Append(s, g), g.inc)
  BY <1>1, StackPushed
<1>3. u = Append(s, g) /\ Listed(s)
  BY <1>1 DEF Puts, StackOK
<1> QED
  BY <1>2, <1>3 DEF Stacked

\* Another frame on top.
LEMMA StackTurned ==
  ASSUME NEW t, NEW ns, NEW s, NEW rest, NEW f, Stacked(t, ns, s, rest, f),
         NEW g, FrameOK(g, t, ns), Replaces(f, g), NEW u, Puts(u, rest, g)
  PROVE  Stacked(t, ns, u, rest, g) /\ Holds(s, u)
<1>1. Topped(t, ns, s, u, rest, g)
  BY TopReplaced, Zenon DEF Stacked
<1> QED
  BY <1>1 DEF Topped, Stacked

-----------------------------------------------------------------------------
(* Quiet steps *)

\* A query that waits for nothing and is not the host's at its start or end.
Busy(g) == g.kind = "query" => g.pc \notin {"enter", "return", "join", "parked"}

\* A quiet step keeps the invariant.
LEMMA QuietlyKeeps ==
  ASSUME EngineInv, NEW t \in Tasks, NEW s, s = tasks[t].stack, NoJoin(s), NEW u, Quietly(t, s, u),
         nodes' = nodes, index' = index, host' = host
  PROVE  EngineInv'
<1>1. StateOK(nodes, index, tasks', host)
  <2>1. StateOK(nodes, index, tasks, host) /\ Holds(tasks[t].stack, u) /\ NoJoin(tasks[t].stack)
    BY DEF EngineInv, Quietly
  <2> QED
    BY <2>1, QuietMove, Zenon DEF Quietly
<1> QED
  BY <1>1 DEF EngineInv

\* Setting a stack whose top frame is busy.
LEMMA SetQuietly ==
  ASSUME NEW t \in Tasks, NEW s, NEW rest, NEW f, Stands(t, s, rest, f),
         NEW u, NEW below, NEW g, Stacked(t, nodes, u, below, g), Busy(g) \/ (Len(below) > 0 /\ g.pc = "enter"),
         Holds(s, u), tasks' = SetStack(t, u)
  PROVE  Quietly(t, s, u)
<1>1. StackOK(u, t, nodes) /\ u[Len(u)] = g /\ Len(u) = Len(below) + 1 /\ Len(below) \in Nat
      /\ g.kind \in {"query", "validate", "body"}
  BY DEF Stacked, FrameOK
<1>2. Inner(u) /\ NoJoin(u)
  BY <1>1 DEF Inner, NoJoin, Busy, StackOK
<1>3. tasks' = [tasks EXCEPT ![t].stack = u]
  BY DEF SetStack
<1>4. Runs(t, tasks, tasks', u) /\ TaskOK(tasks'[t], t, nodes)
  BY <1>1, <1>2, <1>3, TaskSets DEF Stands
<1> QED
  BY <1>2, <1>4 DEF Quietly

\* Aborting a query.
LEMMA AbortQuietly ==
  ASSUME NEW t \in Tasks, NEW s, NEW rest, NEW f, Stands(t, s, rest, f),
         NEW u, NEW below, NEW g, Stacked(t, nodes, u, below, g), g.kind = "query", Holds(s, u),
         NEW why, tasks' = AbortQuery(t, below, g, why)
  PROVE  \E v : Quietly(t, s, v)
<1>1. PICK v : Puts(v, below, Returned(g))
  BY DEF Puts
<1>2. Aborted(t, tasks, tasks', v, why)
  BY <1>1 DEF AbortQuery, Puts, Returned, Aborted
<1>3. Runs(t, tasks, tasks', v) /\ TaskOK(tasks'[t], t, nodes) /\ Ends(t, nodes, u, v, below, g)
  <2>1. /\ DOMAIN tasks = Tasks /\ TaskOK(tasks[t], t, nodes) /\ tasks[t].status = "running"
        /\ Listed(below) /\ Puts(u, below, g) /\ StackOK(u, t, nodes)
    BY DEF Stands, Stacked
  <2> QED
    BY <1>1, <1>2, <2>1, TaskAborts, Zenon
<1>4. Holds(s, v) /\ NoJoin(v)
  BY <1>3 DEF Ends, Topped, Holds
<1> QED
  BY <1>3, <1>4 DEF Quietly

\* Turning the top frame.
LEMMA TurnQuietly ==
  ASSUME NEW t \in Tasks, NEW s, NEW rest, NEW f, Stands(t, s, rest, f),
         NEW g, FrameOK(g, t, nodes), Replaces(f, g), Busy(g), tasks' = SetStack(t, Append(rest, g))
  PROVE  \E u : Quietly(t, s, u)
<1>1. PICK u : Puts(u, rest, g)
  BY DEF Puts
<1>2. Stacked(t, nodes, u, rest, g) /\ Holds(s, u)
  BY <1>1, StackTurned, Zenon DEF Stands
<1>3. tasks' = SetStack(t, u)
  BY <1>1 DEF Puts
<1>4. Quietly(t, s, u)
  BY <1>2, <1>3, SetQuietly, Zenon
<1> QED
  BY <1>4

\* Looking for a candidate writes the task only.
LEMMA FindKeeps ==
  ASSUME EngineInv, NEW t \in Tasks, Find(t)
  PROVE  EngineInv'
<1>1. PICK s : s = Stack(t)
  OBVIOUS
<1>2. PICK f : f = Top(t)
  OBVIOUS
<1>3. PICK rest : rest = Below(t)
  OBVIOUS
<1>4. tasks[t].status = "running" /\ f.kind = "query" /\ f.pc = "find"
  BY <1>2 DEF Find, AtPc, At, Running
<1>5. Stands(t, s, rest, f)
  BY <1>1, <1>2, <1>3, <1>4, TaskStands, Zenon
<1>6. FrameOK(f, t, nodes) /\ QueryFields \subseteq DOMAIN f /\ f.inc \in 1 .. Len(nodes) /\ NodesOK(nodes)
  BY <1>4, <1>5 DEF Stands, Stacked, FrameOK, QueryOK, EngineInv, StateOK, NodesOK, Listed
<1>7. PICK older : older = {i \in Computed(f.inc) : Attempts(f.inc)[i].id < f.cursor}
  OBVIOUS
<1>8. PICK a : a = Attempts(f.inc)[Max(older)]
  OBVIOUS
<1>9. PICK pinned : pinned = [f EXCEPT !.cursor = a.id, !.attempt = a.id, !.pinned = TRUE]
  OBVIOUS
<1>10. PICK skipped : skipped = [f EXCEPT !.cursor = a.id]
  OBVIOUS
<1>11. PICK fresh : fresh = [f EXCEPT !.pc = "claim"]
  OBVIOUS
<1>12. PICK v : v = ValidateFrame(f.inc, a.terminal, FALSE)
  OBVIOUS
<1>13. /\ tasks' = IF f.cursor = Infinity /\ Canceled(t) THEN AbortQuery(t, rest, f, "canceled")
                   ELSE IF older = {} THEN SetStack(t, Append(rest, fresh))
                   ELSE IF DirectlyValid(a.terminal, tasks[t].rev)
                   THEN SetStack(t, Append(Append(rest, pinned), v))
                   ELSE SetStack(t, Append(rest, skipped))
       /\ nodes' = nodes /\ index' = index /\ host' = host
  BY <1>2, <1>3, <1>7, <1>8, <1>9, <1>10, <1>11, <1>12, Zenon DEF Find, OnTop, Goto
<1>14. NoJoin(s) /\ s = tasks[t].stack /\ Holds(s, s)
  BY <1>4, <1>5 DEF NoJoin, Stands, Stacked, Holds
<1>15. ASSUME NEW u, Quietly(t, s, u)
       PROVE  EngineInv'
  BY <1>13, <1>14, <1>15, QuietlyKeeps, Zenon
<1>16. /\ DOMAIN fresh = DOMAIN f /\ fresh.kind = "query" /\ fresh.key = f.key /\ fresh.obs = f.obs
       /\ fresh.inc = f.inc /\ fresh.pc = "claim"
       /\ DOMAIN skipped = DOMAIN f /\ skipped.kind = "query" /\ skipped.key = f.key
       /\ skipped.obs = f.obs /\ skipped.inc = f.inc /\ skipped.pc = "find"
  BY <1>4, <1>6, <1>10, <1>11 DEF QueryFields
<1>17. /\ DOMAIN pinned = DOMAIN f /\ pinned.kind = "query" /\ pinned.key = f.key /\ pinned.obs = f.obs
       /\ pinned.inc = f.inc /\ pinned.pc = "find" /\ pinned.pinned = TRUE /\ pinned.attempt = a.id
  BY <1>4, <1>6, <1>9 DEF QueryFields
<1>18. CASE f.cursor = Infinity /\ Canceled(t)
  <2>1. tasks' = AbortQuery(t, rest, f, "canceled")
    BY <1>13, <1>18, Zenon
  <2>2. \E u : Quietly(t, s, u)
    BY <1>4, <1>5, <1>14, <2>1, AbortQuietly, Zenon DEF Stands
  <2> QED
    BY <1>15, <2>2
<1>19. CASE ~(f.cursor = Infinity /\ Canceled(t)) /\ older = {}
  <2>1. tasks' = SetStack(t, Append(rest, fresh))
    BY <1>13, <1>19, Zenon
  <2>2. FrameOK(fresh, t, nodes) /\ Replaces(f, fresh) /\ Busy(fresh)
    BY <1>4, <1>6, <1>16, QueryMoved DEF Busy
  <2>3. \E u : Quietly(t, s, u)
    BY <1>5, <2>1, <2>2, TurnQuietly, Zenon
  <2> QED
    BY <1>15, <2>3
<1>20. CASE ~(f.cursor = Infinity /\ Canceled(t)) /\ older # {} /\ ~DirectlyValid(a.terminal, tasks[t].rev)
  <2>1. tasks' = SetStack(t, Append(rest, skipped))
    BY <1>13, <1>20, Zenon
  <2>2. FrameOK(skipped, t, nodes) /\ Replaces(f, skipped) /\ Busy(skipped)
    BY <1>4, <1>6, <1>16, QueryMoved DEF Busy
  <2>3. \E u : Quietly(t, s, u)
    BY <1>5, <2>1, <2>2, TurnQuietly, Zenon
  <2> QED
    BY <1>15, <2>3
<1>21. CASE ~(f.cursor = Infinity /\ Canceled(t)) /\ older # {} /\ DirectlyValid(a.terminal, tasks[t].rev)
  <2>1. PICK w : Puts(w, rest, pinned)
    BY DEF Puts
  <2>2. PICK u : Puts(u, w, v)
    BY DEF Puts
  <2>3. tasks' = SetStack(t, u)
    <3>1. tasks' = SetStack(t, Append(Append(rest, pinned), v))
      BY <1>13, <1>21, Zenon
    <3>2. u = Append(Append(rest, pinned), v)
      BY <2>1, <2>2, Zenon DEF Puts
    <3> QED
      BY <3>1, <3>2, Zenon
  <2>4. FrameOK(pinned, t, nodes) /\ Replaces(f, pinned)
    BY <1>4, <1>6, <1>17, QueryMoved
  <2>5. Stacked(t, nodes, w, rest, pinned) /\ Holds(s, w)
    BY <1>5, <2>1, <2>4, StackTurned, Zenon DEF Stands
  <2>6. v.kind = "validate" /\ v.inc = f.inc /\ DOMAIN v = ValidateFields
    BY <1>12 DEF ValidateFrame, ValidateFields
  <2>7. FrameOK(v, t, nodes)
    BY <2>6 DEF FrameOK, ValidateFields
  <2>8. RetainsIn(nodes, f.inc, a.id)
    <3>1. PICK n : n = nodes[f.inc]
      OBVIOUS
    <3>2. Listed(n.attempts) /\ DOMAIN n.attempts = 1 .. Len(n.attempts) /\ Len(n.attempts) \in Nat
      BY <1>6, <3>1, ListedSeq DEF NodesOK, NodeOK, Listed
    <3>3. older \subseteq 1 .. Len(n.attempts) /\ \A i \in older : Ended(n.attempts[i])
      BY <1>7, <3>1, <3>2 DEF Computed, Computing, Attempts, Ended
    <3>4. Max(older) \in older
      BY <1>21, <3>2, <3>3, LargestIndex
    <3>5. a = n.attempts[Max(older)]
      BY <1>8, <3>1 DEF Attempts
    <3> QED
      BY <1>6, <3>1, <3>3, <3>4, <3>5 DEF RetainsIn, Retains
  <2>9. Above(pinned, v, nodes)
    BY <1>17, <2>6, <2>8 DEF Above
  <2>10. Stacked(t, nodes, u, w, v) /\ Holds(w, u)
    <3>1. v.kind = "body" => ~BodyOn(w, v.inc, v.attempt)
      BY <2>6
    <3> QED
      BY <2>2, <2>5, <2>7, <2>9, <3>1, StackHigher, Zenon
  <2>11. Holds(s, u) /\ Busy(v)
    BY <2>5, <2>6, <2>10 DEF Holds, Busy
  <2>12. Quietly(t, s, u)
    BY <1>5, <2>3, <2>10, <2>11, SetQuietly, Zenon
  <2> QED
    BY <1>15, <2>12
<1> QED
  BY <1>18, <1>19, <1>20, <1>21

\* A body that goes on.
LEMMA BodyMoved ==
  ASSUME NEW f, NEW t, NEW ns, FrameOK(f, t, ns), f.kind = "body", NEW g,
         DOMAIN f \subseteq DOMAIN g, g.kind = "body", g.inc = f.inc, g.attempt = f.attempt
  PROVE  FrameOK(g, t, ns) /\ Replaces(f, g) /\ Busy(g)
  BY DEF FrameOK, Replaces, Busy

\* A validation that goes on.
LEMMA ValidateMoved ==
  ASSUME NEW f, NEW t, NEW ns, FrameOK(f, t, ns), f.kind = "validate", NEW g,
         DOMAIN f \subseteq DOMAIN g, g.kind = "validate", g.inc = f.inc
  PROVE  FrameOK(g, t, ns) /\ Replaces(f, g) /\ Busy(g)
  BY DEF FrameOK, Replaces, Busy

\* Reading an input writes the body's frame only.
LEMMA ReadInputKeeps ==
  ASSUME EngineInv, NEW t \in Tasks, ReadInput(t)
  PROVE  EngineInv'
<1>1. PICK s : s = Stack(t)
  OBVIOUS
<1>2. PICK f : f = Top(t)
  OBVIOUS
<1>3. PICK rest : rest = Below(t)
  OBVIOUS
<1>4. tasks[t].status = "running" /\ f.kind = "body"
  BY <1>2 DEF ReadInput, BodyActive, At, Running
<1>5. Stands(t, s, rest, f)
  BY <1>1, <1>2, <1>3, <1>4, TaskStands, Zenon
<1>6. FrameOK(f, t, nodes) /\ BodyFields \subseteq DOMAIN f
  BY <1>4, <1>5 DEF Stands, Stacked, FrameOK
<1>7. PICK stamp : stamp = Revisions[tasks[t].rev].view[BodyOp(t).leaf]
  OBVIOUS
<1>8. PICK missed : missed = [f EXCEPT !.abort = "missing"]
  OBVIOUS
<1>9. PICK read : read = [f EXCEPT !.inputs = With(f.inputs, BodyOp(t).leaf, stamp), !.log = Append(f.log, stamp)]
  OBVIOUS
<1>10. PICK g : g = IF BodyOp(t).op = "input" /\ stamp = Missing THEN missed ELSE read
  OBVIOUS
<1>11. tasks' = SetStack(t, Append(rest, g)) /\ nodes' = nodes /\ index' = index /\ host' = host
  BY <1>2, <1>3, <1>7, <1>8, <1>9, <1>10, Zenon DEF ReadInput, OnTop
<1>12. /\ DOMAIN missed = DOMAIN f /\ missed.kind = "body" /\ missed.inc = f.inc /\ missed.attempt = f.attempt
       /\ DOMAIN read = DOMAIN f /\ read.kind = "body" /\ read.inc = f.inc /\ read.attempt = f.attempt
  BY <1>4, <1>6, <1>8, <1>9 DEF BodyFields
<1>13. DOMAIN f \subseteq DOMAIN g /\ g.kind = "body" /\ g.inc = f.inc /\ g.attempt = f.attempt
  BY <1>10, <1>12
<1>14. FrameOK(g, t, nodes) /\ Replaces(f, g) /\ Busy(g)
  BY <1>4, <1>6, <1>13, BodyMoved, Zenon
<1>15. \E u : Quietly(t, s, u)
  BY <1>5, <1>11, <1>14, TurnQuietly, Zenon
<1>16. NoJoin(s) /\ s = tasks[t].stack
  BY <1>4, <1>5 DEF NoJoin, Stands, Stacked
<1> QED
  BY <1>11, <1>15, <1>16, QuietlyKeeps, Zenon

\* A validation's stack and the stack of its query.
LEMMA ValidationBelow ==
  ASSUME NEW t, NEW ns, NEW s, NEW rest, NEW f, Stacked(t, ns, s, rest, f), f.kind = "validate",
         NEW q, q = Last(rest), NEW base, base = Front(rest)
  PROVE  /\ Stacked(t, ns, rest, base, q) /\ Holds(s, rest)
         /\ q.kind = "query" /\ q.pc = "find" /\ q.inc = f.inc /\ q.inc # 0 /\ QueryFields \subseteq DOMAIN q
         /\ RetainsIn(ns, q.inc, q.attempt)
<1>1. Len(rest) > 0
  BY InnerBelow
<1>2. /\ Stacked(t, ns, rest, base, q) /\ Above(q, f, ns)
      /\ \A inc, id : BodyOn(rest, inc, id) <=>
              BodyOn(s, inc, id) /\ ~(f.kind = "body" /\ f.inc = inc /\ f.attempt = id)
      /\ \A inc : LeaseOn(s, inc) => LeaseOn(rest, inc) \/ (f.kind = "query" /\ f.inc = inc)
  BY <1>1, StackBelow
<1>3. Holds(s, rest)
  BY <1>2 DEF Holds
<1>4. /\ q.kind = "query" /\ q.pc = "find" /\ q.inc = f.inc /\ RetainsIn(ns, q.inc, q.attempt)
  BY <1>2 DEF Above
<1>5. q.inc # 0 /\ QueryFields \subseteq DOMAIN q
  BY <1>2, <1>4 DEF Stacked, FrameOK, QueryOK
<1> QED
  BY <1>2, <1>3, <1>4, <1>5

\* The candidate is given up.
LEMMA DirtyQuietly ==
  ASSUME NEW t \in Tasks, NEW s, NEW rest, NEW f, Stands(t, s, rest, f), f.kind = "validate",
         tasks' = Dirty(t)
  PROVE  \E u : Quietly(t, s, u)
<1>1. PICK q : q = Last(rest)
  OBVIOUS
<1>2. PICK base : base = Front(rest)
  OBVIOUS
<1>3. PICK g : g = [q EXCEPT !.pinned = FALSE]
  OBVIOUS
<1>4. PICK u : Puts(u, base, g)
  BY DEF Puts
<1>5. tasks' = SetStack(t, u)
  BY <1>1, <1>2, <1>3, <1>4, Zenon DEF Dirty, Stands, Puts
<1>6. /\ Stacked(t, nodes, rest, base, q) /\ Holds(s, rest)
      /\ q.kind = "query" /\ q.pc = "find" /\ q.inc # 0 /\ QueryFields \subseteq DOMAIN q
  BY <1>1, <1>2, ValidationBelow DEF Stands
<1>7. /\ DOMAIN g = DOMAIN q /\ g.kind = "query" /\ g.key = q.key /\ g.obs = q.obs /\ g.inc = q.inc
      /\ g.pc = "find"
  BY <1>3, <1>6 DEF QueryFields
<1>8. FrameOK(q, t, nodes)
  BY <1>6 DEF Stacked
<1>9. FrameOK(g, t, nodes) /\ Replaces(q, g) /\ Busy(g)
  BY <1>6, <1>7, <1>8, QueryMoved DEF Busy
<1>10. Stacked(t, nodes, u, base, g) /\ Holds(rest, u)
  BY <1>4, <1>6, <1>9, StackTurned, Zenon
<1>11. Holds(s, u)
  BY <1>6, <1>10 DEF Holds
<1>12. Quietly(t, s, u)
  BY <1>5, <1>9, <1>10, <1>11, SetQuietly, Zenon
<1> QED
  BY <1>12

\* Validating a dependency writes the task only, and demands nodes that exist.
LEMMA ValidateDependencyKeeps ==
  ASSUME EngineInv, NEW t \in Tasks, ValidateDependency(t)
  PROVE  EngineInv'
<1>1. PICK s : s = Stack(t)
  OBVIOUS
<1>2. PICK f : f = Top(t)
  OBVIOUS
<1>3. PICK rest : rest = Below(t)
  OBVIOUS
<1>4. tasks[t].status = "running" /\ f.kind = "validate"
  BY <1>2 DEF ValidateDependency, At, Running
<1>5. Stands(t, s, rest, f)
  BY <1>1, <1>2, <1>3, <1>4, TaskStands, Zenon
<1>6. FrameOK(f, t, nodes) /\ ValidateFields \subseteq DOMAIN f
  BY <1>4, <1>5 DEF Stands, Stacked, FrameOK
<1>7. PICK dep : dep = f.terminal.deps[f.next]
  OBVIOUS
<1>8. PICK node : node = nodes[dep.inc]
  OBVIOUS
<1>9. PICK ahead : ahead = [f EXCEPT !.next = f.next + 1]
  OBVIOUS
<1>10. PICK g : g = QueryFrame(node.key, FALSE)
  OBVIOUS
<1>11. /\ \/ tasks' = SetStack(t, Append(rest, ahead))
          \/ tasks' = Dirty(t)
          \/ dep.inc \in Memoized /\ tasks' = SetStack(t, Append(s, g))
       /\ nodes' = nodes /\ index' = index /\ host' = host
  BY <1>1, <1>2, <1>3, <1>7, <1>8, <1>9, <1>10, Zenon DEF ValidateDependency, OnTop
<1>12. NoJoin(s) /\ s = tasks[t].stack
  BY <1>4, <1>5 DEF NoJoin, Stands, Stacked
<1>13. ASSUME NEW u, Quietly(t, s, u)
       PROVE  EngineInv'
  BY <1>11, <1>12, <1>13, QuietlyKeeps, Zenon
<1>14. CASE tasks' = SetStack(t, Append(rest, ahead))
  <2>1. DOMAIN f \subseteq DOMAIN ahead /\ ahead.kind = "validate" /\ ahead.inc = f.inc
    BY <1>4, <1>6, <1>9 DEF ValidateFields
  <2>2. FrameOK(ahead, t, nodes) /\ Replaces(f, ahead) /\ Busy(ahead)
    BY <1>4, <1>6, <2>1, ValidateMoved, Zenon
  <2>3. \E u : Quietly(t, s, u)
    BY <1>5, <1>14, <2>2, TurnQuietly, Zenon
  <2> QED
    BY <1>13, <2>3
<1>15. CASE tasks' = Dirty(t)
  <2>1. \E u : Quietly(t, s, u)
    BY <1>4, <1>5, <1>15, DirtyQuietly, Zenon
  <2> QED
    BY <1>13, <2>1
<1>16. CASE dep.inc \in Memoized /\ tasks' = SetStack(t, Append(s, g))
  <2>1. node.key \in Keys
    <3>1. PICK key \in Keys : dep.inc = index[key] /\ dep.inc # 0
      BY <1>16 DEF Memoized
    <3> QED
      BY <1>8, <3>1 DEF EngineInv, StateOK, IndexOK
  <2>2. /\ g.kind = "query" /\ g.key = node.key /\ g.inc = 0 /\ g.pc = "enter" /\ DOMAIN g = QueryFields
    BY <1>10 DEF QueryFrame, QueryFields
  <2>3. FrameOK(g, t, nodes)
    BY <2>1, <2>2 DEF FrameOK, QueryOK, QueryFields, EngineInv, StateOK, NodesOK, Listed
  <2>4. Above(f, g, nodes)
    BY <1>4, <2>2 DEF Above
  <2>5. PICK u : Puts(u, s, g)
    BY DEF Puts
  <2>6. Stacked(t, nodes, s, rest, f)
    BY <1>5 DEF Stands
  <2>7. g.kind # "body"
    BY <2>2
  <2>8. Stacked(t, nodes, u, s, g) /\ Holds(s, u)
    BY <2>3, <2>4, <2>5, <2>6, <2>7, StackHigher, Zenon
  <2>9. Len(s) > 0 /\ tasks' = SetStack(t, u)
    BY <1>16, <2>5, <2>6 DEF Stacked, Puts
  <2>10. Quietly(t, s, u)
    BY <1>5, <2>2, <2>8, <2>9, SetQuietly, Zenon
  <2> QED
    BY <1>13, <2>10
<1> QED
  BY <1>11, <1>14, <1>15, <1>16

\* Where a query that begins will stand.
Begins(t, ns, s, w, rest, g) ==
  /\ Stacked(t, ns, w, rest, g) /\ Holds(s, w) /\ NoJoin(s)
  /\ g.kind = "query" /\ g.pc = "enter" /\ g.inc = 0 /\ g.key \in Keys /\ QueryFields \subseteq DOMAIN g
  /\ Len(rest) = 0 => \A key \in Keys : tasks[t].cache[key] = {}

\* A query begins on top of the body that demands it, or is on the stack already.
LEMMA QueryBegins ==
  ASSUME EngineInv, NEW t \in Tasks, Entering(t)
  PROVE  /\ Stands(t, Stack(t), Below(t), Top(t))
         /\ \E w : Begins(t, nodes, Stack(t), w, Caller(t), Entered(t))
<1>1. PICK s : s = Stack(t)
  OBVIOUS
<1>2. PICK f : f = Top(t)
  OBVIOUS
<1>3. PICK rest : rest = Below(t)
  OBVIOUS
<1>4. tasks[t].status = "running"
  BY DEF Entering, AtPc, Demands, BodyActive, At, Running
<1>5. Stands(t, s, rest, f)
  BY <1>1, <1>2, <1>3, <1>4, TaskStands, Zenon
<1>6. Stacked(t, nodes, s, rest, f) /\ FrameOK(f, t, nodes)
  BY <1>5 DEF Stands, Stacked
<1>7. CASE Demands(t)
  <2>1. PICK g : g = QueryFrame(BodyOp(t).key, TRUE)
    OBVIOUS
  <2>2. Caller(t) = s /\ Entered(t) = g
    BY <1>1, <1>7, <2>1 DEF Caller, Entered
  <2>3. f.kind = "body" /\ BodyOp(t).key \in Keys
    BY <1>2, <1>7 DEF Demands, BodyActive, At
  <2>4. /\ g.kind = "query" /\ g.key = BodyOp(t).key /\ g.inc = 0 /\ g.pc = "enter" /\ DOMAIN g = QueryFields
    BY <2>1 DEF QueryFrame, QueryFields
  <2>5. FrameOK(g, t, nodes)
    BY <2>3, <2>4 DEF FrameOK, QueryOK, QueryFields, EngineInv, StateOK, NodesOK, Listed
  <2>6. Above(f, g, nodes)
    BY <2>3, <2>4 DEF Above
  <2>7. PICK w : Puts(w, s, g)
    BY DEF Puts
  <2>8. g.kind # "body"
    BY <2>4
  <2>9. Stacked(t, nodes, w, s, g) /\ Holds(s, w)
    BY <1>6, <2>5, <2>6, <2>7, <2>8, StackHigher, Zenon
  <2>10. Len(s) # 0 /\ NoJoin(s)
    BY <1>6, <2>3 DEF Stacked, NoJoin
  <2>11. Begins(t, nodes, s, w, s, g)
    BY <2>3, <2>4, <2>9, <2>10 DEF Begins
  <2> QED
    BY <1>1, <1>2, <1>3, <1>5, <2>2, <2>11
<1>8. CASE ~Demands(t)
  <2>1. Caller(t) = rest /\ Entered(t) = f
    BY <1>2, <1>3, <1>8 DEF Caller, Entered
  <2>2. f.kind = "query" /\ f.pc = "enter"
    BY <1>2, <1>8 DEF Entering, AtPc, At
  <2>3. QueryOK(f, nodes)
    BY <1>6, <2>2 DEF FrameOK
  <2>4. f.inc = 0 /\ f.key \in Keys /\ QueryFields \subseteq DOMAIN f
    BY <2>2, <2>3 DEF QueryOK
  <2>5. Len(rest) = 0 => \A key \in Keys : tasks[t].cache[key] = {}
    BY <1>5, <1>6, <2>2 DEF Stands, Stacked, TaskOK, BottomOK
  <2>6. Holds(s, s) /\ NoJoin(s)
    BY <1>6, <2>2 DEF Holds, NoJoin, Stacked
  <2>7. Begins(t, nodes, s, s, rest, f)
    BY <1>6, <2>2, <2>4, <2>5, <2>6 DEF Begins
  <2> QED
    BY <1>1, <1>2, <1>3, <1>5, <2>1, <2>7
<1> QED
  BY <1>7, <1>8

\* A cached answer writes the task only.
LEMMA EnterCachedKeeps ==
  ASSUME EngineInv, NEW t \in Tasks, EnterCached(t)
  PROVE  EngineInv'
<1>1. PICK s : s = Stack(t)
  OBVIOUS
<1>2. PICK rest : rest = Caller(t)
  OBVIOUS
<1>3. PICK g : g = Entered(t)
  OBVIOUS
<1>4. PICK w : Begins(t, nodes, s, w, rest, g)
  BY <1>1, <1>2, <1>3, QueryBegins, Zenon DEF EnterCached
<1>5. Stands(t, s, Below(t), Top(t))
  BY <1>1, QueryBegins, Zenon DEF EnterCached
<1>6. PICK hit \in tasks[t].cache[g.key] :
        tasks' = IF StackCycle(t, hit.inc) THEN AbortQuery(t, rest, g, "cycle")
                 ELSE IF Canceled(t) THEN AbortQuery(t, rest, g, "canceled")
                 ELSE [tasks EXCEPT
                        ![t].stack = Append(Observe(rest, hit.inc, hit.terminal.stamp, hit.terminal.missing),
                                            [g EXCEPT !.pc = "return"]),
                        ![t].ret = Result(hit.inc, hit.terminal, "reused")]
  BY <1>2, <1>3, Zenon DEF EnterCached
<1>7. nodes' = nodes /\ index' = index /\ host' = host
  BY DEF EnterCached
<1>8. NoJoin(s) /\ s = tasks[t].stack /\ Stacked(t, nodes, w, rest, g) /\ Holds(s, w)
  BY <1>4, <1>5 DEF Stands, Begins
<1>9. ASSUME NEW u, Quietly(t, s, u)
      PROVE  EngineInv'
  BY <1>7, <1>8, <1>9, QuietlyKeeps, Zenon
<1>10. ASSUME NEW why, tasks' = AbortQuery(t, rest, g, why)
       PROVE  EngineInv'
  <2>1. \E u : Quietly(t, s, u)
    BY <1>4, <1>5, <1>8, <1>10, AbortQuietly, Zenon DEF Begins
  <2> QED
    BY <1>9, <2>1
<1>11. PICK after : after = Observe(rest, hit.inc, hit.terminal.stamp, hit.terminal.missing)
  OBVIOUS
<1>12. PICK r : r = [g EXCEPT !.pc = "return"]
  OBVIOUS
<1>13. PICK u : Puts(u, after, r)
  BY DEF Puts
<1>14. CASE tasks' = [tasks EXCEPT ![t].stack = u, ![t].ret = Result(hit.inc, hit.terminal, "reused")]
  <2>1. Alike(rest, after)
    BY <1>8, <1>11, ObserveAlike DEF Stacked
  <2>2. PICK a : Puts(a, after, g)
    BY DEF Puts
  <2>3. Alike(w, a) /\ Listed(after) /\ Len(after) = Len(rest)
    <3>1. w = Append(rest, g) /\ a = Append(after, g) /\ Listed(rest)
      BY <1>8, <2>2 DEF Puts, Stacked
    <3>2. Alike(Append(rest, g), Append(after, g))
      BY <2>1, <3>1, AlikeAppended
    <3> QED
      BY <2>1, <3>1, <3>2, Zenon DEF Alike
  <2>4. StackOK(a, t, nodes) /\ Holds(w, a)
    BY <1>8, <2>3, StackAlike DEF Stacked
  <2>5. /\ DOMAIN r = DOMAIN g /\ r.kind = "query" /\ r.key = g.key /\ r.obs = g.obs /\ r.inc = g.inc
        /\ r.pc = "return"
    BY <1>4, <1>12 DEF Begins, QueryFields
  <2>6. FrameOK(r, t, nodes) /\ Replaces(g, r)
    BY <1>4, <1>8, <2>5, QueryMoved DEF Begins, Stacked
  <2>7. Topped(t, nodes, a, u, after, r)
    BY <1>13, <2>2, <2>3, <2>4, <2>6, TopReplaced, Zenon
  <2>8. Len(rest) # 0 /\ Len(rest) \in Nat
    BY <1>4, <1>6 DEF Begins, Stacked
  <2>9. StackOK(u, t, nodes) /\ Inner(u) /\ NoJoin(u) /\ Holds(s, u)
    BY <1>8, <2>3, <2>4, <2>5, <2>7, <2>8 DEF Topped, Inner, NoJoin, Holds
  <2>10. Runs(t, tasks, tasks', u) /\ TaskOK(tasks'[t], t, nodes)
    <3>1. /\ DOMAIN tasks = Tasks /\ TaskOK(tasks[t], t, nodes) /\ tasks[t].status = "running"
      BY <1>5 DEF Stands
    <3> QED
      BY <1>14, <2>9, <3>1, TaskReturns
  <2>11. Quietly(t, s, u)
    BY <2>9, <2>10 DEF Quietly
  <2> QED
    BY <1>9, <2>11
<1>15. \/ tasks' = AbortQuery(t, rest, g, "cycle")
       \/ tasks' = AbortQuery(t, rest, g, "canceled")
       \/ tasks' = [tasks EXCEPT ![t].stack = u, ![t].ret = Result(hit.inc, hit.terminal, "reused")]
  BY <1>6, <1>11, <1>12, <1>13, Zenon DEF Puts
<1> QED
  BY <1>10, <1>14, <1>15

\* The table with at most one more incarnation, of the key.
Mints(ns, ns2, key, inc) ==
  /\ NodesOK(ns2) /\ Grows(ns, ns2) /\ Len(ns) \in Nat /\ inc \in 1 .. Len(ns2) /\ ns2[inc].key = key
  /\ \A i \in 1 .. Len(ns) : ns2[i] = ns[i]
  /\ \A i \in 1 .. Len(ns2) : i \in 1 .. Len(ns) \/ (i = inc /\ ns2[i].attempts = << >>)

\* Minting, or taking the incarnation that is there.
LEMMA NodeTaken ==
  ASSUME NEW ns, NodesOK(ns), NEW ix, IndexOK(ix, ns), NEW key \in Keys,
         NEW inc, inc = IF ix[key] = 0 THEN Len(ns) + 1 ELSE ix[key],
         NEW ns2, ns2 = IF ix[key] = 0 THEN Append(ns, NewNode(key)) ELSE ns
  PROVE  Mints(ns, ns2, key, inc)
<1>1. CASE ix[key] = 0
  <2>1. inc = Len(ns) + 1 /\ ns2 = Append(ns, NewNode(key))
    BY <1>1
  <2>2. /\ NodesOK(ns2) /\ Grows(ns, ns2) /\ Len(ns2) = Len(ns) + 1 /\ Len(ns) \in Nat
        /\ ns2[Len(ns) + 1] = NewNode(key) /\ \A i \in 1 .. Len(ns) : ns2[i] = ns[i]
    BY <2>1, TableExtended
  <2>3. NewNode(key).attempts = << >> /\ NewNode(key).key = key
    BY NodeMinted
  <2> QED
    BY <2>1, <2>2, <2>3 DEF Mints
<1>2. CASE ix[key] # 0
  <2>1. inc = ix[key] /\ ns2 = ns
    BY <1>2
  <2>2. Len(ns) \in Nat /\ inc \in 1 .. Len(ns) /\ ns[inc].key = key
    BY <1>2, <2>1 DEF IndexOK, NodesOK, Listed
  <2>3. Grows(ns, ns)
    BY KeptItself DEF KeptFor
  <2> QED
    BY <2>1, <2>2, <2>3 DEF Mints
<1> QED
  BY <1>1, <1>2

\* What the attempts of the table are does not change.
LEMMA MintKeeps ==
  ASSUME NEW ns, NEW ns2, NEW key, NEW inc, Mints(ns, ns2, key, inc)
  PROVE  /\ \A i, id : (RetainsIn(ns2, i, id) <=> RetainsIn(ns, i, id))
                       /\ \A u : ComputesIn(ns2, i, id, u) <=> ComputesIn(ns, i, id, u)
         /\ \A t : KeptFor(t, ns, ns2)
<1>1. Len(<< >>) = 0
  BY EmptyListed
<1>2. \A i \in 1 .. Len(ns) : i \in 1 .. Len(ns2) /\ ns2[i] = ns[i]
  BY DEF Mints, Grows
<1>3. ASSUME NEW i, NEW id
      PROVE  (RetainsIn(ns2, i, id) <=> RetainsIn(ns, i, id))
             /\ \A u : ComputesIn(ns2, i, id, u) <=> ComputesIn(ns, i, id, u)
  <2>1. CASE i \in 1 .. Len(ns)
    BY <1>2, <2>1 DEF RetainsIn, ComputesIn
  <2>2. CASE i \notin 1 .. Len(ns)
    <3>1. ASSUME i \in 1 .. Len(ns2)
          PROVE  Len(ns2[i].attempts) = 0
      BY <1>1, <2>2, <3>1 DEF Mints
    <3>2. ~RetainsIn(ns2, i, id) /\ \A u : ~ComputesIn(ns2, i, id, u)
      BY <3>1 DEF RetainsIn, ComputesIn, Retains, Computes
    <3> QED
      BY <2>2, <3>2 DEF RetainsIn, ComputesIn
  <2> QED
    BY <2>1, <2>2
<1>4. \A t : KeptFor(t, ns, ns2)
  BY <1>3 DEF KeptFor, Mints
<1> QED
  BY <1>3, <1>4

\* A step of task t that takes a lease of the key's incarnation.
LEMMA LeaseStep ==
  ASSUME NEW t \in Tasks, NEW ns, NEW ix, NEW tks, NEW h, StateOK(ns, ix, tks, h),
         NEW ns2, NEW key \in Keys, NEW inc, Mints(ns, ns2, key, inc), NEW ix2, ix2 = [ix EXCEPT ![key] = inc],
         NEW tks2, NEW u, Runs(t, tks, tks2, u), TaskOK(tks2[t], t, ns2),
         Holds(tks[t].stack, u), LeaseOn(u, inc), NoJoin(tks[t].stack), NoJoin(u)
  PROVE  StateOK(ns2, ix2, tks2, h)
<1>1. /\ NodesOK(ns) /\ IndexOK(ix, ns) /\ CountsOK(ns, tks) /\ OwnersOK(ns, tks) /\ MemoOK(ix, ns, tks)
      /\ HostOK(h)
  BY DEF StateOK
<1>2. /\ NodesOK(ns2) /\ Grows(ns, ns2) /\ Len(ns) \in Nat /\ inc \in 1 .. Len(ns2) /\ ns2[inc].key = key
      /\ \A i \in 1 .. Len(ns) : ns2[i] = ns[i]
      /\ \A i \in 1 .. Len(ns2) : i \in 1 .. Len(ns) \/ (i = inc /\ ns2[i].attempts = << >>)
  BY DEF Mints
<1>3. KeptFor(t, ns, ns2) /\ \A i, id : ComputesIn(ns2, i, id, t) <=> ComputesIn(ns, i, id, t)
  BY MintKeeps
<1>4. Only(t, tks, tks2) /\ tks2[t].stack = u
  BY DEF Runs
<1>5. \A i, id : ComputesIn(ns2, i, id, t) => BodyOn(tks2[t].stack, i, id)
  BY <1>1, <1>3, <1>4 DEF OwnersOK, Holds
<1>6. IndexOK(ix2, ns2)
  <2>1. DOMAIN ix2 = Keys /\ \A k \in Keys : ix2[k] = IF k = key THEN inc ELSE ix[k]
    BY <1>1 DEF IndexOK
  <2>2. \A k \in Keys : ix[k] \in 0 .. Len(ns) /\ (ix[k] # 0 => ns[ix[k]].key = k)
    BY <1>1 DEF IndexOK
  <2>3. \A k \in Keys : ix[k] \in 0 .. Len(ns2) /\ (ix[k] # 0 => ns2[ix[k]].key = k)
    BY <1>2, <2>2 DEF Grows
  <2> QED
    BY <1>2, <2>1, <2>3 DEF IndexOK
<1>7. MemoOK(ix2, ns2, tks2)
  <2>1. MemoOK(ix, ns, tks2)
    BY <1>1, <1>4, MemoHeld
  <2>2. ASSUME NEW k \in Keys, ix2[k] # 0
        PROVE  ns2[ix2[k]].attempts # << >> \/ \E v \in Tasks : LeaseOn(tks2[v].stack, ix2[k])
    <3>1. CASE k = key
      <4>1. ix2[k] = inc
        BY <1>1, <3>1 DEF IndexOK
      <4> QED
        BY <1>4, <4>1
    <3>2. CASE k # key
      <4>1. ix2[k] = ix[k] /\ ix[k] \in 1 .. Len(ns)
        BY <1>1, <1>2, <2>2, <3>2 DEF IndexOK
      <4>2. ns2[ix[k]] = ns[ix[k]] /\ ix[k] # 0
        BY <1>2, <4>1
      <4> QED
        BY <2>1, <4>1, <4>2 DEF MemoOK
    <3> QED
      BY <3>1, <3>2
  <2> QED
    BY <2>2 DEF MemoOK
<1>8. \A i, id : Weight(tks2[t], i, id) = 0 /\ Weight(tks[t], i, id) = 0
  BY <1>4 DEF Weight, Joins, JoinsAt, NoJoin
<1>9. Tally(t, ns, ns2, tks, tks2)
  <2>1. SUFFICES ASSUME NEW i \in 1 .. Len(ns2), NEW k \in 1 .. Len(ns2[i].attempts)
                 PROVE  /\ i \in 1 .. Len(ns)
                        /\ \E j \in 1 .. Len(ns[i].attempts) :
                             /\ ns[i].attempts[j].id = ns2[i].attempts[k].id
                             /\ ns2[i].attempts[k].waiters =
                                  ns[i].attempts[j].waiters + Weight(tks2[t], i, ns2[i].attempts[k].id)
                                                            - Weight(tks[t], i, ns2[i].attempts[k].id)
    BY Zenon DEF Tally
  <2>2. i \in 1 .. Len(ns) /\ ns2[i] = ns[i]
    <3>1. Len(<< >>) = 0
      BY EmptyListed
    <3>2. ns2[i].attempts # << >>
      BY <2>1, <3>1
    <3> QED
      BY <1>2, <3>2
  <2>3. ns[i].attempts[k].waiters \in Nat
    BY <1>1, <2>2 DEF NodesOK, NodeOK, AttemptOK
  <2>4. ns2[i].attempts[k].waiters =
          ns[i].attempts[k].waiters + Weight(tks2[t], i, ns2[i].attempts[k].id)
                                    - Weight(tks[t], i, ns2[i].attempts[k].id)
    BY <1>8, <2>2, <2>3
  <2> QED
    BY <2>2, <2>4
<1> QED
  BY <1>1, <1>2, <1>3, <1>4, <1>5, <1>6, <1>7, <1>9, Stepped DEF Runs

\* Taking a node's lease, or minting the node.
LEMMA EnterNodeKeeps ==
  ASSUME EngineInv, NEW t \in Tasks, EnterNode(t)
  PROVE  EngineInv'
<1>1. PICK s : s = Stack(t)
  OBVIOUS
<1>2. PICK rest : rest = Caller(t)
  OBVIOUS
<1>3. PICK g : g = Entered(t)
  OBVIOUS
<1>4. PICK w : Begins(t, nodes, s, w, rest, g)
  BY <1>1, <1>2, <1>3, QueryBegins, Zenon DEF EnterNode
<1>5. Stands(t, s, Below(t), Top(t))
  BY <1>1, QueryBegins, Zenon DEF EnterNode
<1>6. PICK key \in Keys : key = g.key
  BY <1>4 DEF Begins
<1>7. PICK inc : inc = IF index[key] = 0 THEN Len(nodes) + 1 ELSE index[key]
  OBVIOUS
<1>8. PICK f : f = [g EXCEPT !.inc = inc, !.pc = "find"]
  OBVIOUS
<1>9. PICK v : Puts(v, rest, f)
  BY DEF Puts
<1>10. /\ nodes' = IF index[key] = 0 THEN Append(nodes, NewNode(key)) ELSE nodes
       /\ index' = [index EXCEPT ![key] = inc]
       /\ tasks' = IF StackCycle(t, inc) THEN AbortQuery(t, rest, f, "cycle") ELSE SetStack(t, v)
       /\ host' = host
  BY <1>2, <1>3, <1>6, <1>7, <1>8, <1>9, Zenon DEF EnterNode, Puts
<1>11. StateOK(nodes, index, tasks, host) /\ NodesOK(nodes) /\ IndexOK(index, nodes)
  BY DEF EngineInv, StateOK
<1>12. Mints(nodes, nodes', key, inc)
  BY <1>7, <1>10, <1>11, NodeTaken
<1>13. /\ \A i, id : (RetainsIn(nodes', i, id) <=> RetainsIn(nodes, i, id))
                     /\ \A u : ComputesIn(nodes', i, id, u) <=> ComputesIn(nodes, i, id, u)
       /\ Grows(nodes, nodes')
  <2>1. Grows(nodes, nodes')
    BY <1>12 DEF Mints
  <2>2. \A i, id : (RetainsIn(nodes', i, id) <=> RetainsIn(nodes, i, id))
                   /\ \A u : ComputesIn(nodes', i, id, u) <=> ComputesIn(nodes, i, id, u)
    BY <1>12, MintKeeps, Zenon
  <2> QED
    BY <2>1, <2>2
<1>14. /\ TaskOK(tasks[t], t, nodes') /\ DOMAIN tasks = Tasks /\ tasks[t].status = "running"
       /\ s = tasks[t].stack
  BY <1>5, <1>13, TaskKept DEF Stands
<1>15. /\ Stacked(t, nodes, w, rest, g) /\ Holds(s, w) /\ NoJoin(s) /\ g.kind = "query" /\ g.inc = 0
       /\ QueryFields \subseteq DOMAIN g
  BY <1>4 DEF Begins
<1>16. StackOK(w, t, nodes') /\ Puts(w, rest, g) /\ Listed(rest)
  BY <1>13, <1>15, StackKept DEF Stacked
<1>17. /\ DOMAIN f = DOMAIN g /\ f.kind = "query" /\ f.key = key /\ f.obs = g.obs /\ f.inc = inc
       /\ f.pc = "find"
  BY <1>6, <1>8, <1>15 DEF QueryFields
<1>18. inc \in 1 .. Len(nodes') /\ nodes'[inc].key = key /\ Len(nodes') \in Nat
  BY <1>12 DEF Mints, Grows
<1>19. FrameOK(f, t, nodes') /\ Replaces(g, f)
  <2>1. QueryFields \subseteq DOMAIN f /\ "kind" \in DOMAIN f
    BY <1>15, <1>17 DEF QueryFields
  <2>2. f.inc \in 0 .. Len(nodes') /\ f.inc # 0
    BY <1>17, <1>18
  <2>3. nodes'[f.inc].key = f.key
    BY <1>17, <1>18
  <2>4. QueryOK(f, nodes')
    BY <1>17, <2>1, <2>2, <2>3 DEF QueryOK
  <2> QED
    BY <1>15, <1>17, <2>1, <2>4 DEF FrameOK, Replaces
<1>20. Topped(t, nodes', w, v, rest, f)
  BY <1>9, <1>16, <1>19, TopReplaced, Zenon
<1>21. StackOK(v, t, nodes') /\ v[Len(v)] = f /\ Len(v) \in Nat \ {0} /\ Holds(s, v)
  BY <1>15, <1>20 DEF Topped, Holds
<1>22. LeaseOn(v, inc) /\ inc # 0
  BY <1>17, <1>18, <1>21 DEF LeaseOn
<1>23. ASSUME NEW u, Runs(t, tasks, tasks', u), TaskOK(tasks'[t], t, nodes'), Holds(v, u), NoJoin(u)
       PROVE  EngineInv'
  <2>1. Holds(s, u) /\ LeaseOn(u, inc)
    BY <1>21, <1>22, <1>23 DEF Holds
  <2>2. StateOK(nodes', index', tasks', host)
    BY <1>10, <1>11, <1>12, <1>14, <1>15, <1>23, <2>1, LeaseStep
  <2> QED
    BY <1>10, <2>2 DEF EngineInv
<1>24. CASE tasks' = AbortQuery(t, rest, f, "cycle")
  <2>1. PICK u : Puts(u, rest, Returned(f))
    BY DEF Puts
  <2>2. Aborted(t, tasks, tasks', u, "cycle")
    BY <1>24, <2>1 DEF AbortQuery, Puts, Returned, Aborted
  <2>3. Runs(t, tasks, tasks', u) /\ TaskOK(tasks'[t], t, nodes') /\ Ends(t, nodes', v, u, rest, f)
    BY <1>9, <1>14, <1>16, <1>17, <1>21, <2>1, <2>2, TaskAborts, Zenon
  <2>4. Holds(v, u) /\ NoJoin(u)
    BY <2>3 DEF Ends, Topped
  <2> QED
    BY <1>23, <2>3, <2>4
<1>25. CASE tasks' = SetStack(t, v)
  <2>1. Inner(v) /\ NoJoin(v) /\ Holds(v, v)
    BY <1>17, <1>21 DEF Inner, NoJoin, Holds
  <2>2. tasks' = [tasks EXCEPT ![t].stack = v]
    BY <1>25 DEF SetStack
  <2>3. Runs(t, tasks, tasks', v) /\ TaskOK(tasks'[t], t, nodes')
    BY <1>14, <1>21, <2>1, <2>2, TaskSets
  <2> QED
    BY <1>23, <2>1, <2>3
<1> QED
  BY <1>10, <1>24, <1>25

-----------------------------------------------------------------------------
(* Steps that write a node *)

\* Looking an attempt up by its number.
LEMMA PositionFound ==
  ASSUME NodesOK(nodes), NEW inc \in 1 .. Len(nodes), NEW id, HasAttempt(inc, id)
  PROVE  /\ Position(inc, id) \in 1 .. Len(nodes[inc].attempts)
         /\ \A i \in 1 .. Len(nodes[inc].attempts) :
              nodes[inc].attempts[i].id = id <=> i = Position(inc, id)
<1>1. PICK s : s = nodes[inc].attempts
  OBVIOUS
<1>2. Listed(s) /\ \A i, j \in 1 .. Len(s) : s[i].id = s[j].id => i = j
  BY <1>1 DEF NodesOK, NodeOK
<1>3. DOMAIN s = 1 .. Len(s)
  BY <1>2, ListedSeq
<1>4. PICK p : p = CHOOSE i \in DOMAIN s : s[i].id = id
  OBVIOUS
<1>5. \E i \in DOMAIN s : s[i].id = id
  BY <1>1 DEF HasAttempt, Attempts
<1>6. p \in DOMAIN s /\ s[p].id = id
  BY <1>4, <1>5
<1>7. p = Position(inc, id)
  BY <1>1, <1>4 DEF Position, Attempts
<1> QED
  BY <1>1, <1>2, <1>3, <1>6, <1>7

\* n2 is the node with d more waiters on that attempt, and ns2 the table with it.
Counted(ns, inc, id, d, n2, ns2) ==
  /\ NodeAlike(ns[inc], n2) /\ Writes(ns, inc, n2, ns2)
  /\ \A i \in 1 .. Len(ns[inc].attempts) :
       n2.attempts[i].waiters = IF ns[inc].attempts[i].id = id
                                THEN ns[inc].attempts[i].waiters + d
                                ELSE ns[inc].attempts[i].waiters

\* An attempt has one waiter more, or one less.
LEMMA WaiterAdded ==
  ASSUME NodesOK(nodes), NEW inc \in 1 .. Len(nodes), NEW id, HasAttempt(inc, id), NEW d \in Int,
         nodes[inc].attempts[Position(inc, id)].waiters + d \in Nat
  PROVE  \E n2 : Counted(nodes, inc, id, d, n2, AddWaiter(inc, id, d))
<1>1. PICK p : p = Position(inc, id)
  OBVIOUS
<1>2. /\ p \in 1 .. Len(nodes[inc].attempts)
      /\ \A i \in 1 .. Len(nodes[inc].attempts) : nodes[inc].attempts[i].id = id <=> i = p
  BY <1>1, PositionFound
<1>3. PICK n : n = nodes[inc]
  OBVIOUS
<1>4. PICK w \in Nat : w = n.attempts[p].waiters + d
  BY <1>1, <1>3
<1>5. PICK n2 : n2 = [n EXCEPT !.attempts = [n.attempts EXCEPT ![p] = [n.attempts[p] EXCEPT !.waiters = w]]]
  OBVIOUS
<1>6. Sound(n) /\ p \in 1 .. Len(n.attempts)
  BY <1>2, <1>3 DEF NodesOK, Sound
<1>7. /\ NodeAlike(n, n2)
      /\ \A i \in 1 .. Len(n.attempts) :
           n2.attempts[i].waiters = IF i = p THEN w ELSE n.attempts[i].waiters
  BY <1>5, <1>6, WaitersWritten
<1>8. Writes(nodes, inc, n2, AddWaiter(inc, id, d))
  <2>1. AddWaiter(inc, id, d) = [nodes EXCEPT ![inc].attempts[p].waiters = nodes[inc].attempts[p].waiters + d]
    BY <1>1, Zenon DEF AddWaiter
  <2>2. nodes[inc].attempts[p].waiters + d = w
    BY <1>3, <1>4
  <2>3. AddWaiter(inc, id, d) = [nodes EXCEPT ![inc].attempts[p].waiters = w]
    BY <2>1, <2>2, Zenon
  <2>4. [nodes EXCEPT ![inc].attempts[p].waiters = w] =
          [nodes EXCEPT ![inc] = [nodes[inc] EXCEPT !.attempts =
             [nodes[inc].attempts EXCEPT ![p] = [nodes[inc].attempts[p] EXCEPT !.waiters = w]]]]
    BY Zenon
  <2>5. AddWaiter(inc, id, d) = [nodes EXCEPT ![inc] = n2]
    BY <1>3, <1>5, <2>3, <2>4, Zenon
  <2> QED
    BY <2>5, Zenon DEF Writes
<1> QED
  BY <1>2, <1>3, <1>4, <1>7, <1>8 DEF Counted

\* Who joins is counted.
LEMMA JoinCounts ==
  ASSUME NEW t \in Tasks, NEW ns, NEW tks, NodesOK(ns), CountsOK(ns, tks), NEW inc \in 1 .. Len(ns),
         NEW i \in 1 .. Len(ns[inc].attempts), Joins(tks[t], inc, ns[inc].attempts[i].id)
  PROVE  ns[inc].attempts[i].waiters \in Nat \ {0}
<1>1. PICK J : J = Joiners(tks, inc, ns[inc].attempts[i].id)
  OBVIOUS
<1>2. J \subseteq Tasks /\ t \in J
  BY <1>1 DEF Joiners
<1>3. IsFiniteSet(J)
  BY <1>2, FS_Subset, EngineAssumption
<1>4. Cardinality(J) # 0
  BY <1>2, <1>3, FS_EmptySet
<1>5. ns[inc].attempts[i].waiters = Cardinality(J)
  BY <1>1 DEF CountsOK
<1>6. ns[inc].attempts[i].waiters \in Nat
  BY DEF NodesOK, NodeOK, AttemptOK
<1> QED
  BY <1>4, <1>5, <1>6

One(b) == IF b THEN 1 ELSE 0

\* The task with stack s waits for that attempt, if b, and for no other one.
JoinsOnly(s, b, inc, id) == \A i, k : JoinsAt(s, i, k) <=> b /\ i = inc /\ k = id

\* The attempt's count, if it is there, goes with one task's wait.
CountMoves(inc, id, before, after) ==
  nodes' = IF HasAttempt(inc, id) THEN AddWaiter(inc, id, One(after) - One(before)) ELSE nodes

\* The task begins or ends to wait for the attempt, which may be gone.
LEMMA CountStep ==
  ASSUME EngineInv, NEW t \in Tasks, NEW u, Runs(t, tasks, tasks', u), TaskOK(tasks'[t], t, nodes),
         Holds(tasks[t].stack, u), NEW inc \in 1 .. Len(nodes), NEW id,
         NEW before \in BOOLEAN, NEW after \in BOOLEAN,
         tasks[t].status = "running", JoinsOnly(tasks[t].stack, before, inc, id), JoinsOnly(u, after, inc, id),
         CountMoves(inc, id, before, after),
         index' = index, host' = host
  PROVE  EngineInv'
<1>1. StateOK(nodes, index, tasks, host) /\ NodesOK(nodes) /\ CountsOK(nodes, tasks)
  BY DEF EngineInv, StateOK
<1>2. Only(t, tasks, tasks') /\ tasks'[t].stack = u /\ tasks'[t].status = "running"
  BY DEF Runs
<1>3. \A k : /\ Weight(tasks'[t], inc, k) = One(after /\ k = id)
             /\ Weight(tasks[t], inc, k) = One(before /\ k = id)
  BY <1>2 DEF Weight, Joins, One, JoinsOnly
<1>4. \A other, k : other # inc => (Joins(tasks'[t], other, k) <=> Joins(tasks[t], other, k))
  BY <1>2 DEF Joins, JoinsOnly
<1>5. PICK d \in Int : d = One(after) - One(before)
  <2>1. One(after) \in {0, 1} /\ One(before) \in {0, 1}
    BY DEF One
  <2> QED
    BY <2>1
<1>6. \A i \in 1 .. Len(nodes[inc].attempts) : nodes[inc].attempts[i].waiters \in Nat
  BY <1>1 DEF NodesOK, NodeOK, AttemptOK
<1>7. \E n2 : Counted(nodes, inc, id, d, n2, nodes')
  <2>1. CASE HasAttempt(inc, id)
    <3>1. nodes' = AddWaiter(inc, id, d)
      BY <1>5, <2>1 DEF CountMoves
    <3>2. /\ Position(inc, id) \in 1 .. Len(nodes[inc].attempts)
          /\ nodes[inc].attempts[Position(inc, id)].id = id
      BY <1>1, <2>1, PositionFound
    <3>3. before => nodes[inc].attempts[Position(inc, id)].waiters \in Nat \ {0}
      <4>1. ASSUME before
            PROVE  Joins(tasks[t], inc, nodes[inc].attempts[Position(inc, id)].id)
        BY <3>2, <4>1 DEF Joins, JoinsOnly
      <4> QED
        BY <1>1, <3>2, <4>1, JoinCounts
    <3>4. nodes[inc].attempts[Position(inc, id)].waiters + d \in Nat
      BY <1>5, <1>6, <3>2, <3>3 DEF One
    <3>5. \E n2 : Counted(nodes, inc, id, d, n2, AddWaiter(inc, id, d))
      BY <1>1, <2>1, <3>4, WaiterAdded, Zenon
    <3> QED
      BY <3>1, <3>5, Zenon
  <2>2. CASE ~HasAttempt(inc, id)
    <3>1. nodes' = nodes
      BY <2>2 DEF CountMoves
    <3>2. PICK n : n = nodes[inc]
      OBVIOUS
    <3>3. NodeOK(n) /\ DOMAIN n.attempts = 1 .. Len(n.attempts)
      BY <1>1, <3>2, ListedSeq DEF NodesOK, NodeOK
    <3>4. NodeAlike(n, n)
      BY <3>3 DEF NodeAlike, NodeOK, AttemptOK
    <3>5. \A i \in 1 .. Len(n.attempts) : n.attempts[i].id # id
      BY <2>2, <3>2, <3>3 DEF HasAttempt, Attempts
    <3>6. Writes(nodes, inc, n, nodes)
      <4>1. nodes = [i \in 1 .. Len(nodes) |-> nodes[i]]
        BY <1>1 DEF NodesOK, Listed
      <4> QED
        BY <3>2, <4>1 DEF Writes
    <3> QED
      BY <3>1, <3>2, <3>4, <3>5, <3>6 DEF Counted
  <2> QED
    BY <2>1, <2>2
<1>a. PICK n2 : Counted(nodes, inc, id, d, n2, nodes')
  BY <1>7
<1>8. /\ NodeAlike(nodes[inc], n2) /\ Writes(nodes, inc, n2, nodes')
      /\ \A i \in 1 .. Len(nodes[inc].attempts) :
           n2.attempts[i].waiters = IF nodes[inc].attempts[i].id = id
                                    THEN nodes[inc].attempts[i].waiters + d
                                    ELSE nodes[inc].attempts[i].waiters
  BY <1>a DEF Counted
<1>9. Weighed(t, nodes, inc, n2, tasks, tasks')
  <2>0. SUFFICES ASSUME NEW i \in 1 .. Len(nodes[inc].attempts)
                 PROVE  n2.attempts[i].waiters = nodes[inc].attempts[i].waiters
                                                   + Weight(tasks'[t], inc, nodes[inc].attempts[i].id)
                                                   - Weight(tasks[t], inc, nodes[inc].attempts[i].id)
    BY DEF Weighed
  <2>1. CASE nodes[inc].attempts[i].id = id
    BY <1>3, <1>5, <1>6, <1>8, <2>1 DEF One
  <2>2. CASE nodes[inc].attempts[i].id # id
    BY <1>3, <1>6, <1>8, <2>2 DEF One
  <2> QED
    BY <2>1, <2>2
<1>10. Holds(tasks[t].stack, tasks'[t].stack)
  BY <1>2
<1>11. StateOK(nodes', index, tasks', host)
  BY <1>1, <1>2, <1>4, <1>8, <1>9, <1>10, AlikeStep, Zenon
<1> QED
  BY <1>11 DEF EngineInv

\* What a written node keeps for the other tasks, and how its counts go on.
Succeeds(t, n, n2) ==
  /\ Follows(n, n2) /\ \A id : Retains(n, id) => Retains(n2, id)
  /\ \A v \in Tasks : v # t => \A id : Computes(n2, id, v) <=> Computes(n, id, v)
  /\ \A i \in 1 .. Len(n2.attempts) :
       \/ \E j \in 1 .. Len(n.attempts) :
            n.attempts[j].id = n2.attempts[i].id /\ n.attempts[j].waiters = n2.attempts[i].waiters
       \/ n2.attempts[i].waiters = 0 /\ n2.attempts[i].id = n.next_attempt

\* The task's new stack has a body for each attempt it computes and keeps its leases.
Owns(t, s, u, inc, n2) ==
  /\ \A id : Computes(n2, id, t) => BodyOn(u, inc, id)
  /\ \A i, id : i # inc /\ BodyOn(s, i, id) => BodyOn(u, i, id)
  /\ \A i : i # 0 /\ LeaseOn(s, i) => LeaseOn(u, i)
  /\ LeaseOn(u, inc)

\* Only numbers below the next one are waited for.
LEMMA JoinBelow ==
  ASSUME NEW ns, NEW v \in Tasks, NEW tk, TaskOK(tk, v, ns), NEW inc, NEW id, Joins(tk, inc, id)
  PROVE  id \in Nat /\ id < ns[inc].next_attempt
<1>1. PICK s : s = tk.stack
  OBVIOUS
<1>2. StackOK(s, v, ns) /\ JoinsAt(s, inc, id)
  BY <1>1 DEF TaskOK, Joins
<1>3. Len(s) \in 1 .. Len(s)
  BY <1>2 DEF StackOK, Listed
<1>4. QueryOK(s[Len(s)], ns)
  BY <1>2, <1>3 DEF StackOK, FrameOK, JoinsAt
<1> QED
  BY <1>2, <1>4 DEF JoinsAt, QueryOK

\* A step of task t that writes one node.
LEMMA NodeStep ==
  ASSUME NEW t \in Tasks, NEW ns, NEW ix, NEW tks, NEW h, StateOK(ns, ix, tks, h),
         NEW inc \in 1 .. Len(ns), NEW n2, Succeeds(t, ns[inc], n2), NEW ns2, Written(ns, inc, n2, ns2),
         NEW tks2, NEW u, Runs(t, tks, tks2, u), TaskOK(tks2[t], t, ns2),
         NoJoin(tks[t].stack), NoJoin(u), Owns(t, tks[t].stack, u, inc, n2)
  PROVE  StateOK(ns2, ix, tks2, h)
<1>1. /\ NodesOK(ns) /\ IndexOK(ix, ns) /\ CountsOK(ns, tks) /\ OwnersOK(ns, tks) /\ MemoOK(ix, ns, tks)
      /\ HostOK(h) /\ DOMAIN tks = Tasks /\ \A v \in Tasks : TaskOK(tks[v], v, ns)
  BY DEF StateOK
<1>2. /\ NodesOK(ns2) /\ Grows(ns, ns2) /\ Len(ns2) = Len(ns) /\ ns2[inc] = n2
      /\ \A i \in 1 .. Len(ns) : i # inc => ns2[i] = ns[i]
  BY DEF Written
<1>3. Only(t, tks, tks2) /\ tks2[t].stack = u /\ tks2[t].status = "running"
  BY DEF Runs
<1>4. KeptFor(t, ns, ns2)
  <2>1. \A i, id : RetainsIn(ns, i, id) => RetainsIn(ns2, i, id)
    BY <1>2 DEF RetainsIn, Succeeds
  <2>2. \A v \in Tasks : v # t => \A i, id : ComputesIn(ns2, i, id, v) <=> ComputesIn(ns, i, id, v)
    BY <1>2 DEF ComputesIn, Succeeds
  <2> QED
    BY <1>2, <2>1, <2>2 DEF KeptFor
<1>5. ASSUME NEW i, NEW id, ComputesIn(ns2, i, id, t)
      PROVE  BodyOn(tks2[t].stack, i, id)
  <2>1. CASE i = inc
    BY <1>2, <1>3, <1>5, <2>1 DEF ComputesIn, Owns
  <2>2. CASE i # inc
    <3>1. ComputesIn(ns, i, id, t)
      BY <1>2, <1>5, <2>2 DEF ComputesIn
    <3> QED
      BY <1>1, <1>3, <2>2, <3>1 DEF OwnersOK, Owns
  <2> QED
    BY <2>1, <2>2
<1>6. IndexOK(ix, ns2)
  BY <1>1, <1>2 DEF IndexOK, Grows
<1>7. MemoOK(ix, ns2, tks2)
  <2>1. ASSUME NEW key \in Keys, ix[key] # 0
        PROVE  ns2[ix[key]].attempts # << >> \/ \E v \in Tasks : LeaseOn(tks2[v].stack, ix[key])
    <3>1. CASE ix[key] = inc
      BY <1>3, <3>1 DEF Owns
    <3>2. CASE ix[key] # inc
      <4>1. ix[key] \in 1 .. Len(ns)
        BY <1>1, <2>1 DEF IndexOK, NodesOK, Listed
      <4>2. ns2[ix[key]] = ns[ix[key]]
        BY <1>2, <3>2, <4>1
      <4>3. \A v \in Tasks : LeaseOn(tks[v].stack, ix[key]) => LeaseOn(tks2[v].stack, ix[key])
        BY <1>3, <2>1 DEF Only, Owns
      <4> QED
        BY <1>1, <2>1, <4>2, <4>3 DEF MemoOK
    <3> QED
      BY <3>1, <3>2
  <2> QED
    BY <2>1 DEF MemoOK
<1>8. \A i, id : ~Joins(tks2[t], i, id) /\ ~Joins(tks[t], i, id)
  BY <1>3 DEF Joins, JoinsAt, NoJoin
<1>9. \A i, id : Weight(tks2[t], i, id) = 0 /\ Weight(tks[t], i, id) = 0
  BY <1>8 DEF Weight
<1>10. Tally(t, ns, ns2, tks, tks2)
  <2>1. ASSUME NEW i \in 1 .. Len(ns2), NEW k \in 1 .. Len(ns2[i].attempts)
        PROVE  \/ /\ i \in 1 .. Len(ns)
                  /\ \E j \in 1 .. Len(ns[i].attempts) :
                       /\ ns[i].attempts[j].id = ns2[i].attempts[k].id
                       /\ ns2[i].attempts[k].waiters =
                            ns[i].attempts[j].waiters + Weight(tks2[t], i, ns2[i].attempts[k].id)
                                                      - Weight(tks[t], i, ns2[i].attempts[k].id)
               \/ /\ ns2[i].attempts[k].waiters = 0
                  /\ \A v \in Tasks : ~Joins(tks2[v], i, ns2[i].attempts[k].id)
    <3>1. i \in 1 .. Len(ns)
      BY <1>2
    <3>2. ns2[i].attempts[k].waiters \in Nat
      BY <1>2 DEF NodesOK, NodeOK, AttemptOK
    <3>3. ASSUME NEW j \in 1 .. Len(ns[i].attempts), ns[i].attempts[j].id = ns2[i].attempts[k].id,
                 ns[i].attempts[j].waiters = ns2[i].attempts[k].waiters
          PROVE  ns2[i].attempts[k].waiters =
                   ns[i].attempts[j].waiters + Weight(tks2[t], i, ns2[i].attempts[k].id)
                                             - Weight(tks[t], i, ns2[i].attempts[k].id)
      BY <1>9, <3>2, <3>3
    <3>4. CASE i # inc
      <4>1. ns2[i] = ns[i]
        BY <1>2, <3>1, <3>4
      <4>2. k \in 1 .. Len(ns[i].attempts) /\ ns[i].attempts[k].id = ns2[i].attempts[k].id
            /\ ns[i].attempts[k].waiters = ns2[i].attempts[k].waiters
        BY <2>1, <4>1
      <4> QED
        BY <3>1, <3>3, <4>2, Zenon
    <3>5. CASE i = inc
      <4>1. \/ \E j \in 1 .. Len(ns[i].attempts) :
                 ns[i].attempts[j].id = ns2[i].attempts[k].id /\ ns[i].attempts[j].waiters = ns2[i].attempts[k].waiters
            \/ ns2[i].attempts[k].waiters = 0 /\ ns2[i].attempts[k].id = ns[i].next_attempt
        BY <1>2, <3>5, <2>1 DEF Succeeds
      <4>2. ASSUME ns2[i].attempts[k].id = ns[i].next_attempt, NEW v \in Tasks
            PROVE  ~Joins(tks2[v], i, ns2[i].attempts[k].id)
        <5>1. CASE v = t
          BY <1>8, <5>1
        <5>2. CASE v # t
          <6>1. tks2[v] = tks[v] /\ TaskOK(tks[v], v, ns)
            BY <1>1, <1>3, <5>2 DEF Only
          <6>2. ASSUME Joins(tks[v], i, ns2[i].attempts[k].id)
                PROVE  FALSE
            <7>1. ns[i].next_attempt \in Nat /\ ns[i].next_attempt < ns[i].next_attempt
              BY <4>2, <6>1, <6>2, JoinBelow
            <7> QED
              BY <7>1
          <6> QED
            BY <6>1, <6>2
        <5> QED
          BY <5>1, <5>2
      <4> QED
        BY <3>1, <3>3, <4>1, <4>2, Zenon
    <3> QED
      BY <3>4, <3>5
  <2> QED
    BY <2>1, Zenon DEF Tally
<1> QED
  BY <1>1, <1>2, <1>3, <1>4, <1>5, <1>6, <1>7, <1>10, Stepped

\* The step gives task t stack u, with frame g on top.
Turned(t, s, u, g) ==
  /\ Runs(t, tasks, tasks', u) /\ TaskOK(tasks'[t], t, nodes) /\ Holds(s, u)
  /\ Len(u) \in Nat \ {0} /\ u[Len(u)] = g

\* Turning the top query, even into one that waits.
LEMMA TurnRuns ==
  ASSUME NEW t \in Tasks, NEW s, NEW rest, NEW f, Stands(t, s, rest, f), f.kind = "query",
         NEW g, FrameOK(g, t, nodes), Replaces(f, g), g.pc \notin {"enter", "return"},
         tasks' = SetStack(t, Append(rest, g))
  PROVE  \E u : Turned(t, s, u, g)
<1>1. PICK u : Puts(u, rest, g)
  BY DEF Puts
<1>2. Stacked(t, nodes, u, rest, g) /\ Holds(s, u)
  BY <1>1, StackTurned, Zenon DEF Stands
<1>3. StackOK(u, t, nodes) /\ u[Len(u)] = g /\ Len(u) = Len(rest) + 1 /\ Len(rest) \in Nat
  BY <1>2 DEF Stacked
<1>4. Inner(u)
  BY <1>3 DEF Inner
<1>5. tasks' = [tasks EXCEPT ![t].stack = u]
  BY <1>1 DEF SetStack, Puts
<1>6. Runs(t, tasks, tasks', u) /\ TaskOK(tasks'[t], t, nodes)
  BY <1>3, <1>4, <1>5, TaskSets DEF Stands
<1> QED
  BY <1>2, <1>3, <1>6 DEF Turned

\* Claiming a new attempt.
LEMMA ClaimKeeps ==
  ASSUME EngineInv, NEW t \in Tasks, NEW s, NEW rest, NEW f, Stands(t, s, rest, f),
         f.kind = "query", f.pc = "claim",
         NEW id, id = nodes[f.inc].next_attempt,
         nodes' = [nodes EXCEPT
                     ![f.inc].next_attempt = @ + 1,
                     ![f.inc].attempts = Append(@, [id |-> id, rev |-> tasks[t].rev, owner |-> t,
                                                    waiters |-> 0, terminal |-> NoTerminal])],
         tasks' = SetStack(t, Append(Append(rest, [f EXCEPT !.pc = "compute", !.attempt = id]),
                                     BodyFrame(f.inc, id))),
         index' = index, host' = host
  PROVE  EngineInv'
<1>1. PICK inc : inc = f.inc
  OBVIOUS
<1>2. PICK n : n = nodes[inc]
  OBVIOUS
<1>3. PICK a : a = [id |-> id, rev |-> tasks[t].rev, owner |-> t, waiters |-> 0, terminal |-> NoTerminal]
  OBVIOUS
<1>4. PICK n2 : n2 = [n EXCEPT !.next_attempt = n.next_attempt + 1, !.attempts = Append(n.attempts, a)]
  OBVIOUS
<1>5. PICK g : g = [f EXCEPT !.pc = "compute", !.attempt = id]
  OBVIOUS
<1>6. PICK b : b = BodyFrame(inc, id)
  OBVIOUS
<1>7. StateOK(nodes, index, tasks, host) /\ NodesOK(nodes)
  BY DEF EngineInv, StateOK
<1>8. /\ Stacked(t, nodes, s, rest, f) /\ tasks[t].status = "running" /\ TaskOK(tasks[t], t, nodes)
      /\ DOMAIN tasks = Tasks /\ s = tasks[t].stack /\ FrameOK(f, t, nodes) /\ StackOK(s, t, nodes)
  BY DEF Stands, Stacked
<1>9. inc \in 1 .. Len(nodes) /\ QueryFields \subseteq DOMAIN f /\ nodes[inc].key = f.key /\ f.key \in Keys
  BY <1>1, <1>7, <1>8 DEF FrameOK, QueryOK, NodesOK, Listed
<1>10. Sound(n) /\ n.next_attempt \in Nat \ {0} /\ id = n.next_attempt
       /\ \A i \in 1 .. Len(n.attempts) : AttemptOK(n.attempts[i], n.next_attempt)
  BY <1>1, <1>2, <1>7, <1>9 DEF NodesOK, Sound, NodeOK
<1>11. /\ a.id = id /\ a.owner = t /\ a.waiters = 0 /\ a.terminal = NoTerminal /\ a.rev \in RevIds
       /\ AttemptOK(a, n.next_attempt + 1)
  BY <1>3, <1>8, <1>10 DEF AttemptOK, AttemptFields, TaskOK
<1>12. /\ Sound(n2) /\ n2.key = n.key /\ n2.next_attempt = n.next_attempt + 1
       /\ Len(n2.attempts) = Len(n.attempts) + 1 /\ n2.attempts[Len(n.attempts) + 1] = a
       /\ \A i \in 1 .. Len(n.attempts) : n2.attempts[i] = n.attempts[i]
       /\ \A k : Retains(n2, k) <=> Retains(n, k)
       /\ \A k, v : Computes(n2, k, v) <=> Computes(n, k, v) \/ (k = a.id /\ v = a.owner)
  <2>1. Claims(n, a, n2)
    BY <1>4 DEF Claims
  <2>2. Claimed(n, a, n2)
    BY <1>10, <1>11, <2>1, AttemptClaimed, Zenon
  <2> QED
    BY <2>2 DEF Claimed
<1>13. Follows(n, n2)
  BY <1>10, <1>12 DEF Follows
<1>14. Written(nodes, inc, n2, nodes')
  <2>1. nodes' = [nodes EXCEPT ![inc] = n2]
    BY <1>1, <1>2, <1>3, <1>4, Zenon
  <2>2. Writes(nodes, inc, n2, nodes') /\ Follows(nodes[inc], n2)
    BY <1>2, <1>13, <2>1 DEF Writes
  <2> QED
    BY <1>7, <1>9, <2>2, TableWritten, Zenon
<1>15. /\ Grows(nodes, nodes') /\ Len(nodes') = Len(nodes) /\ nodes'[inc] = n2
       /\ \A i \in 1 .. Len(nodes) : i # inc => nodes'[i] = nodes[i]
  BY <1>14 DEF Written
<1>16. /\ \A i, k : RetainsIn(nodes, i, k) => RetainsIn(nodes', i, k)
       /\ \A i, k : ComputesIn(nodes, i, k, t) => ComputesIn(nodes', i, k, t)
       /\ ComputesIn(nodes', inc, id, t)
  BY <1>2, <1>9, <1>11, <1>12, <1>15 DEF RetainsIn, ComputesIn
<1>17. TaskOK(tasks[t], t, nodes') /\ StackOK(s, t, nodes')
  BY <1>8, <1>15, <1>16, TaskKept DEF TaskOK
<1>18. /\ DOMAIN g = DOMAIN f /\ g.kind = "query" /\ g.key = f.key /\ g.obs = f.obs /\ g.inc = f.inc
       /\ g.pc = "compute" /\ g.attempt = id
  BY <1>5, <1>9 DEF QueryFields
<1>19. b.kind = "body" /\ b.inc = inc /\ b.attempt = id /\ DOMAIN b = BodyFields
  BY <1>6 DEF BodyFrame, BodyFields
<1>20. inc # 0 /\ f.inc = inc
  BY <1>1, <1>9
<1>21. FrameOK(f, t, nodes')
  <2>1. Len(s) \in 1 .. Len(s) /\ s[Len(s)] = f
    BY <1>8 DEF Stacked
  <2> QED
    BY <1>17, <2>1 DEF StackOK
<1>22. FrameOK(g, t, nodes') /\ Replaces(f, g)
  BY <1>18, <1>20, <1>21, QueryMoved
<1>23. PICK w : Puts(w, rest, g)
  BY DEF Puts
<1>24. Stacked(t, nodes', s, rest, f)
  BY <1>8, <1>17, <1>21 DEF Stacked
<1>25. Stacked(t, nodes', w, rest, g) /\ Holds(s, w)
  BY <1>22, <1>23, <1>24, StackTurned, Zenon
<1>26. FrameOK(b, t, nodes')
  BY <1>16, <1>19 DEF FrameOK, BodyFields
<1>27. Above(g, b, nodes')
  BY <1>18, <1>19, <1>20 DEF Above
<1>28. ~BodyOn(w, b.inc, b.attempt)
  <2>1. SUFFICES ASSUME NEW i \in 1 .. Len(w), w[i].kind = "body", w[i].inc = inc, w[i].attempt = id
                 PROVE  FALSE
    BY <1>19 DEF BodyOn
  <2>2. i \in 1 .. Len(rest) /\ w[i] = s[i] /\ i \in 1 .. Len(s)
    BY <1>8, <1>18, <1>25, <2>1 DEF Stacked
  <2>3. FrameOK(s[i], t, nodes)
    BY <1>8, <2>2 DEF StackOK
  <2>4. Computes(n, id, t)
    BY <1>2, <2>1, <2>2, <2>3 DEF FrameOK, ComputesIn
  <2>5. PICK j \in 1 .. Len(n.attempts) : n.attempts[j].id = id
    BY <2>4 DEF Computes
  <2>6. n.attempts[j].id \in 1 .. id - 1
    BY <1>10 DEF AttemptOK
  <2> QED
    BY <1>10, <2>5, <2>6
<1>29. PICK u : Puts(u, w, b)
  BY DEF Puts
<1>30. Stacked(t, nodes', u, w, b) /\ Holds(w, u) /\ BodyOn(u, inc, id)
  <2>1. /\ Stacked(t, nodes', u, w, b) /\ Holds(w, u) /\ (b.kind = "body" => BodyOn(u, b.inc, b.attempt))
    BY <1>25, <1>26, <1>27, <1>28, <1>29, StackHigher, Zenon
  <2> QED
    BY <1>19, <2>1
<1>31. Holds(s, u) /\ LeaseOn(u, inc)
  <2>1. LeaseOn(s, inc)
    BY <1>8, <1>20 DEF LeaseOn, Stacked
  <2> QED
    BY <1>20, <1>25, <1>30, <2>1 DEF Holds
<1>32. tasks' = [tasks EXCEPT ![t].stack = u]
  <2>1. tasks' = SetStack(t, Append(Append(rest, g), b))
    BY <1>1, <1>5, <1>6, Zenon
  <2>2. u = Append(Append(rest, g), b)
    BY <1>23, <1>29, Zenon DEF Puts
  <2> QED
    BY <2>1, <2>2, Zenon DEF SetStack
<1>33. StackOK(u, t, nodes') /\ Inner(u) /\ NoJoin(u) /\ NoJoin(s)
  BY <1>8, <1>19, <1>25, <1>30 DEF Stacked, Inner, NoJoin
<1>34. Runs(t, tasks, tasks', u) /\ TaskOK(tasks'[t], t, nodes')
  BY <1>8, <1>17, <1>32, <1>33, TaskSets
<1>35. Succeeds(t, nodes[inc], n2)
  <2>1. ASSUME NEW i \in 1 .. Len(n2.attempts)
        PROVE  \/ \E j \in 1 .. Len(n.attempts) :
                    n.attempts[j].id = n2.attempts[i].id /\ n.attempts[j].waiters = n2.attempts[i].waiters
               \/ n2.attempts[i].waiters = 0 /\ n2.attempts[i].id = n.next_attempt
    <3>1. Len(n.attempts) \in Nat
      BY <1>10 DEF Sound, NodeOK, Listed
    <3>2. CASE i = Len(n.attempts) + 1
      BY <1>10, <1>11, <1>12, <3>2
    <3>3. CASE i # Len(n.attempts) + 1
      BY <1>12, <3>1, <3>3
    <3> QED
      BY <3>2, <3>3
  <2>2. \A v \in Tasks : v # t => \A k : Computes(n2, k, v) <=> Computes(n, k, v)
    BY <1>11, <1>12
  <2> QED
    BY <1>2, <1>12, <1>13, <2>1, <2>2, Zenon DEF Succeeds
<1>36. Owns(t, tasks[t].stack, u, inc, n2)
  <2>1. ASSUME NEW k, Computes(n2, k, t)
        PROVE  BodyOn(u, inc, k)
    <3>1. CASE k = id
      BY <1>30, <3>1
    <3>2. CASE k # id
      <4>1. ComputesIn(nodes, inc, k, t)
        BY <1>2, <1>9, <1>11, <1>12, <2>1, <3>2 DEF ComputesIn
      <4>2. BodyOn(s, inc, k)
        BY <1>7, <1>8, <4>1 DEF StateOK, OwnersOK
      <4> QED
        BY <1>31, <4>2 DEF Holds
    <3> QED
      BY <3>1, <3>2
  <2> QED
    BY <1>8, <1>31, <2>1 DEF Owns, Holds
<1>37. StateOK(nodes', index, tasks', host)
  BY <1>7, <1>8, <1>9, <1>14, <1>33, <1>34, <1>35, <1>36, NodeStep, Zenon
<1> QED
  BY <1>37 DEF EngineInv

\* Claiming, or joining, under the node's lock.
LEMMA ClaimStep ==
  ASSUME EngineInv, NEW t \in Tasks, Claim(t)
  PROVE  EngineInv'
<1>1. PICK s : s = Stack(t)
  OBVIOUS
<1>2. PICK f : f = Top(t)
  OBVIOUS
<1>3. PICK rest : rest = Below(t)
  OBVIOUS
<1>4. tasks[t].status = "running" /\ f.kind = "query" /\ f.pc = "claim"
  BY <1>2 DEF Claim, AtPc, At, Running
<1>5. Stands(t, s, rest, f)
  BY <1>1, <1>2, <1>3, <1>4, TaskStands, Zenon
<1>6. PICK inc : inc = f.inc
  OBVIOUS
<1>7. /\ FrameOK(f, t, nodes) /\ QueryFields \subseteq DOMAIN f /\ inc \in 1 .. Len(nodes) /\ NodesOK(nodes)
      /\ StateOK(nodes, index, tasks, host) /\ f.key \in Keys
  BY <1>4, <1>5, <1>6 DEF Stands, Stacked, FrameOK, QueryOK, EngineInv, StateOK, NodesOK, Listed
<1>8. PICK joinable : joinable = {i \in DOMAIN Attempts(inc) :
                                    Joinable(Attempts(inc)[i], tasks[t].rev, f.contended)}
  OBVIOUS
<1>9. PICK a : a = Attempts(inc)[Max(joinable)]
  OBVIOUS
<1>10. PICK g : g = [f EXCEPT !.pc = "join", !.attempt = a.id]
  OBVIOUS
<1>11. index' = index /\ host' = host
  BY DEF Claim
<1>12. CASE joinable # {} /\ nodes' = AddWaiter(inc, a.id, 1) /\ tasks' = SetStack(t, Append(rest, g))
  <2>1. a.id \in Nat /\ a.id < nodes[inc].next_attempt /\ HasAttempt(inc, a.id)
    <3>1. PICK n : n = nodes[inc]
      OBVIOUS
    <3>2. /\ Listed(n.attempts) /\ DOMAIN n.attempts = 1 .. Len(n.attempts) /\ Len(n.attempts) \in Nat
          /\ n.next_attempt \in Nat
          /\ \A i \in 1 .. Len(n.attempts) : AttemptOK(n.attempts[i], n.next_attempt)
      BY <1>7, <3>1, ListedSeq DEF NodesOK, NodeOK, Listed
    <3>3. joinable \subseteq 1 .. Len(n.attempts)
      BY <1>8, <3>1, <3>2 DEF Attempts
    <3>4. Max(joinable) \in 1 .. Len(n.attempts)
      BY <1>12, <3>2, <3>3, LargestIndex
    <3>5. a = n.attempts[Max(joinable)]
      BY <1>9, <3>1 DEF Attempts
    <3>6. HasAttempt(inc, a.id)
      BY <3>1, <3>2, <3>4, <3>5 DEF HasAttempt, Attempts
    <3> QED
      BY <3>1, <3>2, <3>4, <3>5, <3>6 DEF AttemptOK
  <2>2. /\ DOMAIN g = DOMAIN f /\ g.kind = "query" /\ g.key = f.key /\ g.obs = f.obs /\ g.inc = f.inc
        /\ g.pc = "join" /\ g.attempt = a.id
    BY <1>4, <1>7, <1>10 DEF QueryFields
  <2>3. FrameOK(g, t, nodes) /\ Replaces(f, g)
    BY <1>4, <1>6, <1>7, <2>1, <2>2 DEF FrameOK, QueryOK, Replaces
  <2>4. g.pc \notin {"enter", "return"}
    BY <2>2
  <2>5. PICK u : Turned(t, s, u, g)
    BY <1>4, <1>5, <1>12, <2>3, <2>4, TurnRuns, Zenon
  <2>6. JoinsOnly(u, TRUE, inc, a.id)
    BY <1>6, <2>2, <2>5 DEF JoinsAt, JoinsOnly, Turned
  <2>7. JoinsOnly(tasks[t].stack, FALSE, inc, a.id)
    BY <1>4, <1>5 DEF JoinsOnly, JoinsAt, Stands, Stacked
  <2>8. One(TRUE) - One(FALSE) = 1
    BY DEF One
  <2>9. CountMoves(inc, a.id, FALSE, TRUE)
    BY <1>12, <2>1, <2>8 DEF CountMoves
  <2>10. /\ Holds(tasks[t].stack, u) /\ Runs(t, tasks, tasks', u) /\ TaskOK(tasks'[t], t, nodes)
         /\ tasks[t].status = "running"
    BY <1>5, <2>5 DEF Stands, Turned
  <2> QED
    BY <1>7, <1>11, <2>6, <2>7, <2>9, <2>10, CountStep, Zenon
<1>13. PICK id : id = nodes[f.inc].next_attempt
  OBVIOUS
<1>14. CASE /\ nodes' = [nodes EXCEPT
                           ![f.inc].next_attempt = @ + 1,
                           ![f.inc].attempts = Append(@, [id |-> id, rev |-> tasks[t].rev, owner |-> t,
                                                          waiters |-> 0, terminal |-> NoTerminal])]
            /\ tasks' = SetStack(t, Append(Append(rest, [f EXCEPT !.pc = "compute", !.attempt = id]),
                                           BodyFrame(f.inc, id)))
  BY <1>4, <1>5, <1>11, <1>13, <1>14, ClaimKeeps, Zenon
<1>15. \/ /\ joinable # {} /\ nodes' = AddWaiter(inc, a.id, 1) /\ tasks' = SetStack(t, Append(rest, g))
       \/ /\ nodes' = [nodes EXCEPT
                           ![f.inc].next_attempt = @ + 1,
                           ![f.inc].attempts = Append(@, [id |-> id, rev |-> tasks[t].rev, owner |-> t,
                                                          waiters |-> 0, terminal |-> NoTerminal])]
          /\ tasks' = SetStack(t, Append(Append(rest, [f EXCEPT !.pc = "compute", !.attempt = id]),
                                         BodyFrame(f.inc, id)))
  BY <1>2, <1>3, <1>6, <1>8, <1>9, <1>10, <1>13, Zenon DEF Claim, OnTop
<1> QED
  BY <1>12, <1>14, <1>15

-----------------------------------------------------------------------------
(* Waiting *)

\* The task is answered on top of the frames below, which may have observed the answer.
AnswersOn(t, rest, g, inc) ==
  \E after, u, ret : /\ Alike(rest, after) /\ Puts(u, after, Returned(g)) /\ ret.inc = inc
                     /\ Answered(t, tasks, tasks', u, ret, g)

\* What Answer does to the task.
LEMMA AnswerGives ==
  ASSUME NEW t \in Tasks, DOMAIN tasks = Tasks, TaskFields \subseteq DOMAIN tasks[t],
         NEW rest, Listed(rest), NEW g, NEW inc, NEW id, id = g.attempt, NEW terminal, NEW execution,
         tasks' = Answer(t, rest, g, inc, id, terminal, execution)
  PROVE  AnswersOn(t, rest, g, inc)
<1>1. PICK after : after = IF g.obs THEN Observe(rest, inc, terminal.stamp, terminal.missing) ELSE rest
  OBVIOUS
<1>2. PICK u : u = Append(after, Returned(g))
  OBVIOUS
<1>3. PICK ret : ret = Result(inc, terminal, execution)
  OBVIOUS
<1>4. PICK leases : leases = IF g.obs THEN tasks[t].leases \cup {<<inc, id>>} ELSE tasks[t].leases
  OBVIOUS
<1>5. PICK hits : hits = IF g.obs THEN tasks[t].cache[g.key] \cup {[inc |-> inc, terminal |-> terminal]}
                         ELSE tasks[t].cache[g.key]
  OBVIOUS
<1>6. tasks' = [tasks EXCEPT ![t].stack = u, ![t].ret = ret, ![t].leases = leases, ![t].cache[g.key] = hits]
  BY <1>1, <1>2, <1>3, <1>4, <1>5, Zenon DEF Answer, Returned
<1>7. PICK tk : tk = tasks'[t]
  OBVIOUS
<1>10. DOMAIN tasks' = Tasks /\ \A v \in Tasks : v # t => tasks'[v] = tasks[v]
  BY <1>6
<1>11. /\ DOMAIN tk = DOMAIN tasks[t] /\ tk.stack = u /\ tk.ret = ret /\ tk.leases = leases
       /\ tk.status = tasks[t].status /\ tk.rev = tasks[t].rev
  BY <1>6, <1>7 DEF TaskFields
<1>12. ret.inc = inc
  BY <1>3 DEF Result
<1>13. Answered(t, tasks, tasks', u, ret, g)
  BY <1>4, <1>7, <1>10, <1>11, <1>12 DEF Answered, Only
<1>14. Alike(rest, after)
  BY <1>1, ObserveAlike, AlikeItself
<1> QED
  BY <1>2, <1>12, <1>13, <1>14 DEF Puts, AnswersOn

\* A task's wait ends: its attempt, if it is still there, has one waiter less.
LEMMA WaitEnds ==
  ASSUME EngineInv, NEW t \in Tasks, NEW s, NEW rest, NEW f, Stands(t, s, rest, f),
         f.kind = "query", f.pc \in {"join", "parked"},
         NEW u, Runs(t, tasks, tasks', u), TaskOK(tasks'[t], t, nodes), Holds(s, u), NoJoin(u),
         nodes' = DecrementWaiter(f.inc, f.attempt), index' = index, host' = host
  PROVE  EngineInv'
<1>1. /\ s = tasks[t].stack /\ s[Len(s)] = f /\ tasks[t].status = "running"
      /\ f.inc \in 1 .. Len(nodes)
  BY DEF Stands, Stacked, FrameOK, QueryOK, EngineInv, StateOK, NodesOK, Listed
<1>2. JoinsOnly(tasks[t].stack, TRUE, f.inc, f.attempt)
  BY <1>1 DEF JoinsOnly, JoinsAt
<1>3. JoinsOnly(u, FALSE, f.inc, f.attempt)
  BY DEF JoinsOnly, JoinsAt, NoJoin
<1>4. One(FALSE) - One(TRUE) = -1
  BY DEF One
<1>5. CountMoves(f.inc, f.attempt, TRUE, FALSE)
  BY <1>4 DEF DecrementWaiter, CountMoves
<1>6. Holds(tasks[t].stack, u)
  BY <1>1
<1> QED
  BY <1>1, <1>2, <1>3, <1>5, <1>6, CountStep, Zenon

\* A query that no longer waits is the same one.
LEMMA Unparked ==
  ASSUME NEW f, NEW t, NEW ns, FrameOK(f, t, ns), f.kind = "query", NEW g, g = Unpark(f)
  PROVE  /\ FrameOK(g, t, ns) /\ Replaces(f, g) /\ QueryFields \subseteq DOMAIN g
         /\ g.kind = "query" /\ g.key = f.key /\ g.inc = f.inc /\ g.obs = f.obs /\ g.attempt = f.attempt
         /\ g.pc = f.pc
<1>1. QueryFields \subseteq DOMAIN f
  BY DEF FrameOK, QueryOK
<1>2. QueryFields \subseteq DOMAIN g /\ \A x \in QueryFields : g[x] = f[x]
  BY <1>1 DEF Unpark, QueryFields
<1>3. /\ g.kind = "query" /\ g.key = f.key /\ g.inc = f.inc /\ g.obs = f.obs /\ g.attempt = f.attempt
      /\ g.pc = f.pc
  BY <1>2 DEF QueryFields
<1>4. "kind" \in DOMAIN g
  BY <1>2 DEF QueryFields
<1> QED
  BY <1>2, <1>3, <1>4 DEF FrameOK, QueryOK, Replaces

\* A query that looks for a candidate anew.
Again(g, h) ==
  /\ DOMAIN g \subseteq DOMAIN h /\ h.kind = "query" /\ h.key = g.key /\ h.obs = g.obs /\ h.inc = g.inc
  /\ h.pc = "find"

\* A wait ends and its query looks for a candidate anew.
LEMMA WaitRestarts ==
  ASSUME EngineInv, NEW t \in Tasks, NEW s, NEW rest, NEW f, Stands(t, s, rest, f),
         f.kind = "query", f.pc \in {"join", "parked"},
         NEW w, NEW g, Stacked(t, nodes, w, rest, g), Holds(s, w), g.kind = "query", g.inc = f.inc, g.inc # 0,
         NEW h, Again(g, h), tasks' = SetStack(t, Append(rest, h)),
         nodes' = DecrementWaiter(f.inc, f.attempt), index' = index, host' = host
  PROVE  EngineInv'
<1>1. FrameOK(g, t, nodes)
  BY DEF Stacked
<1>2. FrameOK(h, t, nodes) /\ Replaces(g, h) /\ Busy(h)
  BY <1>1, QueryMoved DEF Again, Busy
<1>3. PICK u : Puts(u, rest, h)
  BY DEF Puts
<1>4. Stacked(t, nodes, u, rest, h) /\ Holds(w, u)
  BY <1>2, <1>3, StackTurned, Zenon
<1>5. Holds(s, u) /\ tasks' = SetStack(t, u)
  BY <1>3, <1>4 DEF Holds, Puts
<1>6. Quietly(t, s, u)
  BY <1>2, <1>4, <1>5, SetQuietly, Zenon
<1>7. Runs(t, tasks, tasks', u) /\ TaskOK(tasks'[t], t, nodes) /\ Holds(s, u) /\ NoJoin(u)
  BY <1>6 DEF Quietly
<1> QED
  BY <1>7, WaitEnds, Zenon

\* A wait ends without another look at who owns the attempt.
LEMMA JoinEndedKeeps ==
  ASSUME EngineInv, NEW t \in Tasks, NEW s, NEW rest, NEW f, Stands(t, s, rest, f),
         f.kind = "query", f.pc \in {"join", "parked"}, JoinEnded(t), index' = index, host' = host
  PROVE  EngineInv'
<1>1. PICK g : g = Unpark(f)
  OBVIOUS
<1>2. FrameOK(f, t, nodes) /\ Stacked(t, nodes, s, rest, f) /\ f.inc # 0
  BY DEF Stands, Stacked, FrameOK, QueryOK
<1>3. /\ FrameOK(g, t, nodes) /\ Replaces(f, g) /\ QueryFields \subseteq DOMAIN g
      /\ g.kind = "query" /\ g.inc = f.inc /\ g.attempt = f.attempt
  BY <1>1, <1>2, Unparked
<1>4. PICK w : Puts(w, rest, g)
  BY DEF Puts
<1>5. Stacked(t, nodes, w, rest, g) /\ Holds(s, w)
  BY <1>2, <1>3, <1>4, StackTurned, Zenon
<1>6. PICK h : h = [g EXCEPT !.pc = "find", !.cursor = Infinity]
  OBVIOUS
<1>7. Again(g, h)
  BY <1>3, <1>6 DEF Again, QueryFields
<1>8. PICK terminal : terminal = AttemptOf(f.inc, f.attempt).terminal
  OBVIOUS
<1>9. \/ /\ nodes' = DecrementWaiter(f.inc, f.attempt)
         /\ tasks' = AbortQuery(t, rest, g, "canceled")
      \/ /\ ~HasAttempt(f.inc, f.attempt)
         /\ tasks' = SetStack(t, Append(rest, h))
         /\ nodes' = nodes
      \/ /\ HasAttempt(f.inc, f.attempt) /\ ~Computing(AttemptOf(f.inc, f.attempt))
         /\ nodes' = DecrementWaiter(f.inc, f.attempt)
         /\ tasks' = Answer(t, rest, g, f.inc, f.attempt, terminal, "joined")
  <2>1. f = Top(t) /\ rest = Below(t)
    BY DEF Stands
  <2>2. tasks' = SetStack(t, Restart(t, g)) => tasks' = SetStack(t, Append(rest, h))
    BY <1>6, <2>1, Zenon DEF Restart, OnTop
  <2>3. \/ /\ nodes' = DecrementWaiter(g.inc, g.attempt)
           /\ tasks' = AbortQuery(t, rest, g, "canceled")
        \/ /\ ~HasAttempt(g.inc, g.attempt)
           /\ tasks' = SetStack(t, Restart(t, g))
           /\ nodes' = nodes
        \/ /\ HasAttempt(g.inc, g.attempt) /\ ~Computing(AttemptOf(g.inc, g.attempt))
           /\ nodes' = DecrementWaiter(g.inc, g.attempt)
           /\ tasks' = Answer(t, rest, g, g.inc, g.attempt, AttemptOf(g.inc, g.attempt).terminal, "joined")
    BY <1>1, <2>1, Zenon DEF JoinEnded
  <2> QED
    BY <1>3, <1>8, <2>2, <2>3, Zenon
<1>10. CASE nodes' = DecrementWaiter(f.inc, f.attempt) /\ tasks' = AbortQuery(t, rest, g, "canceled")
  <2>1. PICK u : Quietly(t, s, u)
    BY <1>3, <1>5, <1>10, AbortQuietly, Zenon
  <2>2. Runs(t, tasks, tasks', u) /\ TaskOK(tasks'[t], t, nodes) /\ Holds(s, u) /\ NoJoin(u)
    BY <2>1 DEF Quietly
  <2> QED
    BY <1>10, <2>2, WaitEnds, Zenon
<1>11. CASE ~HasAttempt(f.inc, f.attempt) /\ tasks' = SetStack(t, Append(rest, h)) /\ nodes' = nodes
  <2>1. nodes' = DecrementWaiter(f.inc, f.attempt) /\ g.inc # 0
    BY <1>2, <1>3, <1>11 DEF DecrementWaiter
  <2> QED
    BY <1>3, <1>5, <1>7, <1>11, <2>1, WaitRestarts, Zenon
<1>12. CASE /\ HasAttempt(f.inc, f.attempt) /\ ~Computing(AttemptOf(f.inc, f.attempt))
            /\ nodes' = DecrementWaiter(f.inc, f.attempt)
            /\ tasks' = Answer(t, rest, g, f.inc, f.attempt, terminal, "joined")
  <2>1. DOMAIN tasks = Tasks /\ TaskFields \subseteq DOMAIN tasks[t] /\ Listed(rest)
        /\ tasks[t].status = "running" /\ TaskOK(tasks[t], t, nodes)
    BY DEF Stands, Stacked, TaskOK
  <2>2. f.attempt = g.attempt
    BY <1>3
  <2>3. PICK after, u, ret : /\ Alike(rest, after) /\ Puts(u, after, Returned(g)) /\ ret.inc = f.inc
                             /\ Answered(t, tasks, tasks', u, ret, g)
    <3>1. AnswersOn(t, rest, g, f.inc)
      BY <1>12, <2>1, <2>2, AnswerGives, Zenon
    <3> QED
      BY <3>1 DEF AnswersOn
  <2>4. f.inc \in 1 .. Len(nodes) /\ f.attempt \in Nat /\ Len(nodes) \in Nat /\ NodesOK(nodes)
    BY <1>2 DEF FrameOK, QueryOK, EngineInv, StateOK, NodesOK, Listed
  <2>5. RetainsIn(nodes, f.inc, f.attempt)
    <3>1. /\ Position(f.inc, f.attempt) \in 1 .. Len(nodes[f.inc].attempts)
          /\ nodes[f.inc].attempts[Position(f.inc, f.attempt)].id = f.attempt
      BY <1>12, <2>4, PositionFound
    <3>2. Ended(nodes[f.inc].attempts[Position(f.inc, f.attempt)])
      BY <1>12 DEF Ended, Computing, AttemptOf, Attempts
    <3> QED
      BY <2>4, <3>1, <3>2 DEF RetainsIn, Retains
  <2>6. StackOK(w, t, nodes) /\ ret.inc \in Nat /\ g.attempt \in Nat /\ RetainsIn(nodes, ret.inc, g.attempt)
    BY <1>5, <2>2, <2>3, <2>4, <2>5 DEF Stacked
  <2>7. Runs(t, tasks, tasks', u) /\ TaskOK(tasks'[t], t, nodes) /\ Holds(w, u) /\ NoJoin(u)
    BY <1>3, <1>4, <2>1, <2>3, <2>6, TaskAnswers, Zenon
  <2>8. Holds(s, u)
    BY <1>5, <2>7 DEF Holds
  <2> QED
    BY <1>12, <2>7, <2>8, WaitEnds, Zenon
<1> QED
  BY <1>9, <1>10, <1>11, <1>12

\* A notified task looks at the attempt again.
LEMMA WakeKeeps ==
  ASSUME EngineInv, NEW t \in Tasks, Wake(t)
  PROVE  EngineInv'
<1>1. PICK s : s = Stack(t)
  OBVIOUS
<1>2. PICK f : f = Top(t)
  OBVIOUS
<1>3. PICK rest : rest = Below(t)
  OBVIOUS
<1>4. tasks[t].status = "running" /\ f.kind = "query" /\ f.pc \in {"join", "parked"}
  BY <1>2 DEF Wake, AtPc, At, Running
<1>5. Stands(t, s, rest, f)
  BY <1>1, <1>2, <1>3, <1>4, TaskStands, Zenon
<1>6. JoinEnded(t) /\ index' = index /\ host' = host
  BY DEF Wake
<1> QED
  BY <1>4, <1>5, <1>6, JoinEndedKeeps, Zenon

\* A task parks, or declines to wait, or finds that there is nothing to wait for.
LEMMA JoinKeeps ==
  ASSUME EngineInv, NEW t \in Tasks, Join(t)
  PROVE  EngineInv'
<1>1. PICK s : s = Stack(t)
  OBVIOUS
<1>2. PICK f : f = Top(t)
  OBVIOUS
<1>3. PICK rest : rest = Below(t)
  OBVIOUS
<1>4. tasks[t].status = "running" /\ f.kind = "query" /\ f.pc = "join" /\ f.pc \in {"join", "parked"}
  BY <1>2 DEF Join, AtPc, At, Running
<1>5. Stands(t, s, rest, f)
  BY <1>1, <1>2, <1>3, <1>4, TaskStands, Zenon
<1>6. /\ FrameOK(f, t, nodes) /\ Stacked(t, nodes, s, rest, f) /\ f.inc # 0 /\ QueryFields \subseteq DOMAIN f
      /\ f.attempt \in Nat /\ f.attempt < nodes[f.inc].next_attempt /\ StateOK(nodes, index, tasks, host)
      /\ s = tasks[t].stack /\ s[Len(s)] = f
  BY <1>4, <1>5 DEF Stands, Stacked, FrameOK, QueryOK, EngineInv
<1>7. PICK owner : owner = AttemptOf(f.inc, f.attempt).owner
  OBVIOUS
<1>8. PICK h : h = [f EXCEPT !.contended = f.contended \cup {f.attempt}, !.pc = "find", !.cursor = Infinity]
  OBVIOUS
<1>9. PICK g : g = With([f EXCEPT !.pc = "parked"], "owner", owner)
  OBVIOUS
<1>10. index' = index /\ host' = host
  BY DEF Join
<1>11. \/ JoinEnded(t)
       \/ /\ nodes' = DecrementWaiter(f.inc, f.attempt)
          /\ tasks' = SetStack(t, Append(rest, h))
       \/ /\ nodes' = nodes
          /\ tasks' = SetStack(t, Append(rest, g))
  <2>1. PICK h0 : h0 = [f EXCEPT !.contended = @ \cup {f.attempt}]
    OBVIOUS
  <2>2. h = [h0 EXCEPT !.pc = "find", !.cursor = Infinity]
    BY <1>6, <1>8, <2>1 DEF QueryFields
  <2>3. \/ JoinEnded(t)
        \/ /\ nodes' = DecrementWaiter(f.inc, f.attempt)
           /\ tasks' = SetStack(t, Restart(t, h0))
        \/ /\ nodes' = nodes
           /\ tasks' = SetStack(t, OnTop(t, g))
    BY <1>2, <1>7, <1>9, <2>1, Zenon DEF Join
  <2> QED
    BY <1>3, <2>2, <2>3, Zenon DEF Restart, OnTop
<1>12. CASE JoinEnded(t)
  BY <1>4, <1>5, <1>10, <1>12, JoinEndedKeeps, Zenon
<1>13. CASE nodes' = DecrementWaiter(f.inc, f.attempt) /\ tasks' = SetStack(t, Append(rest, h))
  <2>1. Again(f, h)
    BY <1>4, <1>6, <1>8 DEF Again, QueryFields
  <2>2. Holds(s, s) /\ f.inc = f.inc
    BY DEF Holds
  <2> QED
    BY <1>4, <1>5, <1>6, <1>10, <1>13, <2>1, <2>2, WaitRestarts, Zenon
<1>14. CASE nodes' = nodes /\ tasks' = SetStack(t, Append(rest, g))
  <2>1. PICK f2 : f2 = [f EXCEPT !.pc = "parked"]
    OBVIOUS
  <2>2. /\ DOMAIN f2 = DOMAIN f /\ f2.kind = "query" /\ f2.key = f.key /\ f2.obs = f.obs /\ f2.inc = f.inc
        /\ f2.attempt = f.attempt /\ f2.pc = "parked" /\ QueryFields \subseteq DOMAIN f2
    BY <1>4, <1>6, <2>1 DEF QueryFields
  <2>3. QueryFields \subseteq DOMAIN g /\ \A x \in QueryFields : g[x] = f2[x]
    BY <1>9, <2>1, <2>2 DEF With, QueryFields
  <2>4. /\ g.kind = "query" /\ g.key = f.key /\ g.obs = f.obs /\ g.inc = f.inc
        /\ g.attempt = f.attempt /\ g.pc = "parked"
    BY <2>2, <2>3 DEF QueryFields
  <2>5. "kind" \in DOMAIN g
    BY <2>3 DEF QueryFields
  <2>6. FrameOK(g, t, nodes) /\ Replaces(f, g) /\ g.pc \notin {"enter", "return"}
    BY <1>4, <1>6, <2>3, <2>4, <2>5 DEF FrameOK, QueryOK, Replaces
  <2>7. PICK u : Turned(t, s, u, g)
    BY <1>4, <1>5, <1>14, <2>6, TurnRuns, Zenon
  <2>8. /\ Runs(t, tasks, tasks', u) /\ TaskOK(tasks'[t], t, nodes) /\ Holds(s, u)
        /\ Len(u) \in Nat \ {0} /\ u[Len(u)] = g
    BY <2>7 DEF Turned
  <2>9. Only(t, tasks, tasks') /\ tasks'[t].stack = u /\ tasks'[t].status = "running"
    BY <2>8 DEF Runs
  <2>10. \A inc, id : Joins(tasks'[t], inc, id) <=> Joins(tasks[t], inc, id)
    BY <1>4, <1>6, <2>4, <2>8, <2>9 DEF Joins, JoinsAt
  <2>11. HostOK(host) /\ Holds(tasks[t].stack, tasks'[t].stack)
    BY <1>6, <2>8, <2>9 DEF StateOK
  <2>12. StateOK(nodes, index, tasks', host)
    BY <1>6, <2>8, <2>9, <2>10, <2>11, QuietStep, Zenon
  <2> QED
    BY <1>10, <1>14, <2>12 DEF EngineInv
<1> QED
  BY <1>11, <1>12, <1>13, <1>14

-----------------------------------------------------------------------------
(* Validations that succeed *)

\* What is retained has numbers.
LEMMA RetainedNumber ==
  ASSUME NEW ns, NodesOK(ns), NEW inc, NEW id, RetainsIn(ns, inc, id)
  PROVE  inc \in Nat /\ id \in Nat
<1>1. inc \in 1 .. Len(ns) /\ Len(ns) \in Nat /\ NodeOK(ns[inc])
  BY DEF RetainsIn, NodesOK, Listed
<1>2. PICK i \in 1 .. Len(ns[inc].attempts) : ns[inc].attempts[i].id = id
  BY DEF RetainsIn, Retains
<1> QED
  BY <1>1, <1>2 DEF NodeOK, AttemptOK

\* A task that waits for nothing renews a certificate.
LEMMA RenewStep ==
  ASSUME EngineInv, NEW t \in Tasks, NEW s, s = tasks[t].stack, NoJoin(s),
         NEW u, Runs(t, tasks, tasks', u), TaskOK(tasks'[t], t, nodes), Holds(s, u), NoJoin(u),
         NEW inc \in 1 .. Len(nodes), NEW c, Writes(nodes, inc, MarkValidated(nodes[inc], c), nodes'),
         index' = index, host' = host
  PROVE  EngineInv'
<1>1. PICK n : n = nodes[inc]
  OBVIOUS
<1>2. PICK n2 : n2 = MarkValidated(n, c)
  OBVIOUS
<1>3. StateOK(nodes, index, tasks, host) /\ NodeOK(n) /\ Sound(n)
  BY <1>1 DEF EngineInv, StateOK, NodesOK, Sound
<1>4. NodeAlike(n, n2) /\ \A i \in 1 .. Len(n.attempts) : n2.attempts[i] = n.attempts[i]
  BY <1>2, <1>3, CertificateWritten
<1>5. Only(t, tasks, tasks') /\ tasks'[t].stack = u
  BY DEF Runs
<1>6. \A i, id : ~Joins(tasks[t], i, id) /\ ~Joins(tasks'[t], i, id)
  BY <1>5 DEF Joins, JoinsAt, NoJoin
<1>7. \A i \in 1 .. Len(n.attempts) : n.attempts[i].waiters \in Nat
  BY <1>3 DEF NodeOK, AttemptOK
<1>8. Weighed(t, nodes, inc, n2, tasks, tasks')
  BY <1>1, <1>4, <1>6, <1>7 DEF Weighed, Weight
<1>9. /\ Writes(nodes, inc, n2, nodes') /\ Holds(tasks[t].stack, tasks'[t].stack) /\ NodeAlike(nodes[inc], n2)
      /\ \A other, id : other # inc => (Joins(tasks'[t], other, id) <=> Joins(tasks[t], other, id))
  BY <1>1, <1>2, <1>4, <1>5, <1>6
<1>10. StateOK(nodes', index, tasks', host)
  BY <1>3, <1>5, <1>8, <1>9, AlikeStep, Zenon
<1> QED
  BY <1>10 DEF EngineInv

\* A candidate whose dependencies hold is certified, and answers or is looked at again.
LEMMA ReuseKeeps ==
  ASSUME EngineInv, NEW t \in Tasks, Reuse(t)
  PROVE  EngineInv'
<1>1. PICK s : s = Stack(t)
  OBVIOUS
<1>2. PICK f : f = Top(t)
  OBVIOUS
<1>3. PICK rest : rest = Below(t)
  OBVIOUS
<1>4. tasks[t].status = "running" /\ f.kind = "validate"
  BY <1>2 DEF Reuse, At, Running
<1>5. Stands(t, s, rest, f)
  BY <1>1, <1>2, <1>3, <1>4, TaskStands, Zenon
<1>6. PICK q : q = Last(rest)
  OBVIOUS
<1>7. PICK base : base = Front(rest)
  OBVIOUS
<1>8. /\ Stacked(t, nodes, rest, base, q) /\ Holds(s, rest)
      /\ q.kind = "query" /\ q.inc = f.inc /\ RetainsIn(nodes, q.inc, q.attempt)
  BY <1>4, <1>5, <1>6, <1>7, ValidationBelow DEF Stands
<1>9. NodesOK(nodes) /\ f.inc \in 1 .. Len(nodes) /\ FrameOK(f, t, nodes)
  BY <1>5, <1>8 DEF EngineInv, StateOK, RetainsIn, Stands, Stacked
<1>10. f.inc \in Nat /\ q.attempt \in Nat
  BY <1>8, <1>9, RetainedNumber
<1>11. NoJoin(s) /\ s = tasks[t].stack
  BY <1>4, <1>5 DEF NoJoin, Stands, Stacked
<1>12. PICK c : c = Certificate(f.terminal, tasks[t].rev)
  OBVIOUS
<1>13. PICK g : g = ValidateFrame(f.inc, f.terminal, TRUE)
  OBVIOUS
<1>14. /\ nodes' = [nodes EXCEPT ![f.inc] = MarkValidated(nodes[f.inc], c)]
       /\ \/ tasks' = SetStack(t, Append(rest, g))
          \/ tasks' = Answer(t, base, q, f.inc, q.attempt, f.terminal, "reused")
       /\ index' = index /\ host' = host
  BY <1>2, <1>3, <1>6, <1>7, <1>12, <1>13, Zenon DEF Reuse, OnTop
<1>15. Writes(nodes, f.inc, MarkValidated(nodes[f.inc], c), nodes')
  BY <1>14 DEF Writes
<1>16. ASSUME NEW u, Runs(t, tasks, tasks', u), TaskOK(tasks'[t], t, nodes), Holds(s, u), NoJoin(u)
       PROVE  EngineInv'
  BY <1>9, <1>11, <1>14, <1>15, <1>16, RenewStep, Zenon
<1>17. CASE tasks' = SetStack(t, Append(rest, g))
  <2>1. DOMAIN g = ValidateFields /\ g.kind = "validate" /\ g.inc = f.inc
    BY <1>13 DEF ValidateFrame, ValidateFields
  <2>2. FrameOK(g, t, nodes) /\ Replaces(f, g) /\ Busy(g)
    BY <1>4, <2>1 DEF FrameOK, Replaces, Busy, ValidateFields
  <2>3. PICK u : Quietly(t, s, u)
    BY <1>5, <1>17, <2>2, TurnQuietly, Zenon
  <2> QED
    BY <1>16, <2>3 DEF Quietly
<1>18. CASE tasks' = Answer(t, base, q, f.inc, q.attempt, f.terminal, "reused")
  <2>1. /\ DOMAIN tasks = Tasks /\ TaskFields \subseteq DOMAIN tasks[t] /\ TaskOK(tasks[t], t, nodes)
        /\ Listed(base) /\ Puts(rest, base, q) /\ StackOK(rest, t, nodes)
    BY <1>5, <1>8 DEF Stands, Stacked, TaskOK
  <2>2. AnswersOn(t, base, q, f.inc)
    BY <1>18, <2>1, AnswerGives, Zenon
  <2>3. PICK after, u, ret : /\ Alike(base, after) /\ Puts(u, after, Returned(q)) /\ ret.inc = f.inc
                             /\ Answered(t, tasks, tasks', u, ret, q)
    BY <2>2 DEF AnswersOn
  <2>4. ret.inc \in Nat /\ RetainsIn(nodes, ret.inc, q.attempt)
    BY <1>8, <1>10, <2>3
  <2>5. Runs(t, tasks, tasks', u) /\ TaskOK(tasks'[t], t, nodes) /\ Holds(rest, u) /\ NoJoin(u)
    BY <1>4, <1>8, <1>10, <2>1, <2>3, <2>4, TaskAnswers, Zenon
  <2>6. Holds(s, u)
    BY <1>8, <2>5 DEF Holds
  <2> QED
    BY <1>16, <2>5, <2>6
<1> QED
  BY <1>14, <1>17, <1>18

-----------------------------------------------------------------------------
(* Bodies that end *)

\* A body's stack and the stack of its query.
LEMMA BodyBelow ==
  ASSUME NEW t, NEW ns, NEW s, NEW rest, NEW f, Stacked(t, ns, s, rest, f), f.kind = "body",
         NEW q, q = Last(rest), NEW base, base = Front(rest)
  PROVE  /\ Stacked(t, ns, rest, base, q)
         /\ q.kind = "query" /\ q.pc = "compute" /\ q.inc = f.inc /\ q.attempt = f.attempt /\ q.inc # 0
         /\ \A inc, id : BodyOn(rest, inc, id) <=> BodyOn(s, inc, id) /\ ~(f.inc = inc /\ f.attempt = id)
         /\ \A inc : LeaseOn(s, inc) => LeaseOn(rest, inc)
         /\ LeaseOn(rest, f.inc) /\ ComputesIn(ns, f.inc, f.attempt, t)
<1>1. Len(rest) > 0
  BY InnerBelow
<1>2. /\ Stacked(t, ns, rest, base, q) /\ Above(q, f, ns)
      /\ \A inc, id : BodyOn(rest, inc, id) <=>
              BodyOn(s, inc, id) /\ ~(f.kind = "body" /\ f.inc = inc /\ f.attempt = id)
      /\ \A inc : LeaseOn(s, inc) => LeaseOn(rest, inc) \/ (f.kind = "query" /\ f.inc = inc)
  BY <1>1, StackBelow
<1>3. q.kind = "query" /\ q.pc = "compute" /\ q.inc = f.inc /\ q.attempt = f.attempt
  BY <1>2 DEF Above
<1>4. q.inc # 0
  BY <1>2, <1>3 DEF Stacked, FrameOK, QueryOK
<1>5. LeaseOn(rest, f.inc)
  BY <1>2, <1>3 DEF LeaseOn, Stacked
<1>6. ComputesIn(ns, f.inc, f.attempt, t)
  BY DEF Stacked, FrameOK
<1> QED
  BY <1>2, <1>3, <1>4, <1>5, <1>6

\* The written node is one in which the task's attempt has ended, or is gone.
Finishes(t, id, n, n2) ==
  /\ Succeeds(t, n, n2)
  /\ \A k : Computes(n2, k, t) <=> Computes(n, k, t) /\ k # id

\* What is left of a task when its body is gone.
Pops(t, rest, tks) ==
  /\ tks = [tasks EXCEPT ![t].stack = rest]
  /\ DOMAIN tks = Tasks /\ TaskOK(tks[t], t, nodes') /\ tks[t].status = "running"
  /\ StackOK(rest, t, nodes')

\* The task without its body, among the nodes without its attempt.
LEMMA BodyPopped ==
  ASSUME EngineInv, NEW t \in Tasks, NEW s, NEW rest, NEW f, Stands(t, s, rest, f), f.kind = "body",
         NEW n2, Finishes(t, f.attempt, nodes[f.inc], n2), Writes(nodes, f.inc, n2, nodes')
  PROVE  Written(nodes, f.inc, n2, nodes') /\ \E tks : Pops(t, rest, tks)
<1>1. PICK inc : inc = f.inc
  OBVIOUS
<1>2. PICK q : q = Last(rest)
  OBVIOUS
<1>3. PICK base : base = Front(rest)
  OBVIOUS
<1>4. /\ Stacked(t, nodes, s, rest, f) /\ tasks[t].status = "running" /\ TaskOK(tasks[t], t, nodes)
      /\ DOMAIN tasks = Tasks /\ NodesOK(nodes)
  BY DEF Stands, EngineInv, StateOK
<1>5. /\ Stacked(t, nodes, rest, base, q) /\ q.kind = "query" /\ q.pc = "compute"
      /\ \A i, id : BodyOn(rest, i, id) <=> BodyOn(s, i, id) /\ ~(f.inc = i /\ f.attempt = id)
      /\ ComputesIn(nodes, f.inc, f.attempt, t)
  BY <1>2, <1>3, <1>4, BodyBelow
<1>6. inc \in 1 .. Len(nodes) /\ Follows(nodes[inc], n2)
  BY <1>1, <1>5 DEF ComputesIn, Finishes, Succeeds
<1>7. Written(nodes, inc, n2, nodes')
  BY <1>1, <1>4, <1>6, TableWritten, Zenon
<1>8. /\ Grows(nodes, nodes') /\ Len(nodes') = Len(nodes) /\ nodes'[inc] = n2
      /\ \A i \in 1 .. Len(nodes) : i # inc => nodes'[i] = nodes[i]
  BY <1>7 DEF Written
<1>9. \A i, id : RetainsIn(nodes, i, id) => RetainsIn(nodes', i, id)
  BY <1>1, <1>8 DEF RetainsIn, Finishes, Succeeds
<1>10. \A i, id : ComputesIn(nodes, i, id, t) /\ ~(i = inc /\ id = f.attempt) => ComputesIn(nodes', i, id, t)
  BY <1>1, <1>8 DEF ComputesIn, Finishes
<1>11. StackOK(rest, t, nodes)
  BY <1>5 DEF Stacked
<1>12. \A i, id : ComputesIn(nodes, i, id, t) /\ BodyOn(rest, i, id) => ComputesIn(nodes', i, id, t)
  BY <1>1, <1>5, <1>10
<1>13. StackOK(rest, t, nodes')
  BY <1>8, <1>9, <1>11, <1>12, StackKept
<1>14. Inner(rest)
  BY <1>5 DEF Inner, Stacked
<1>15. PICK tks : tks = [tasks EXCEPT ![t].stack = rest]
  OBVIOUS
<1>16. Runs(t, tasks, tks, rest) /\ TaskOK(tks[t], t, nodes)
  BY <1>4, <1>11, <1>14, <1>15, TaskSets
<1>17. DOMAIN tks = Tasks /\ tks[t].stack = rest /\ tks[t].status = "running"
  BY <1>16 DEF Runs, Only
<1>18. TaskOK(tks[t], t, nodes')
  BY <1>9, <1>13, <1>16, <1>17 DEF TaskOK
<1> QED
  BY <1>1, <1>7, <1>13, <1>15, <1>17, <1>18 DEF Pops

\* A task goes on without its body.
LEMMA BodyStep ==
  ASSUME EngineInv, NEW t \in Tasks, NEW s, NEW rest, NEW f, Stands(t, s, rest, f), f.kind = "body",
         NEW n2, Finishes(t, f.attempt, nodes[f.inc], n2), Written(nodes, f.inc, n2, nodes'),
         NEW u, Runs(t, tasks, tasks', u), TaskOK(tasks'[t], t, nodes'), Holds(rest, u), NoJoin(u),
         index' = index, host' = host
  PROVE  EngineInv'
<1>1. PICK inc : inc = f.inc
  OBVIOUS
<1>2. /\ Stacked(t, nodes, s, rest, f) /\ s = tasks[t].stack /\ StateOK(nodes, index, tasks, host)
  BY DEF Stands, EngineInv
<1>3. /\ \A i, id : BodyOn(rest, i, id) <=> BodyOn(s, i, id) /\ ~(f.inc = i /\ f.attempt = id)
      /\ \A i : LeaseOn(s, i) => LeaseOn(rest, i)
      /\ LeaseOn(rest, inc) /\ ComputesIn(nodes, inc, f.attempt, t)
  BY <1>1, <1>2, BodyBelow
<1>4. inc \in 1 .. Len(nodes) /\ inc # 0
  BY <1>3 DEF ComputesIn
<1>5. ASSUME NEW id, Computes(n2, id, t)
      PROVE  BodyOn(u, inc, id)
  <2>1. ComputesIn(nodes, inc, id, t) /\ id # f.attempt
    BY <1>1, <1>4, <1>5 DEF ComputesIn, Finishes
  <2>2. BodyOn(s, inc, id)
    BY <1>2, <2>1 DEF StateOK, OwnersOK
  <2> QED
    BY <1>3, <2>1, <2>2 DEF Holds
<1>6. \A i, id : i # inc /\ BodyOn(s, i, id) => BodyOn(u, i, id)
  BY <1>1, <1>3 DEF Holds
<1>7. (\A i : i # 0 /\ LeaseOn(s, i) => LeaseOn(u, i)) /\ LeaseOn(u, inc)
  BY <1>3, <1>4 DEF Holds
<1>8. Owns(t, s, u, inc, n2)
  BY <1>5, <1>6, <1>7 DEF Owns
<1>9. NoJoin(s)
  BY <1>2 DEF NoJoin, Stacked
<1>10. Succeeds(t, nodes[inc], n2) /\ Written(nodes, inc, n2, nodes') /\ NoJoin(tasks[t].stack)
       /\ Owns(t, tasks[t].stack, u, inc, n2)
  BY <1>1, <1>2, <1>8, <1>9 DEF Finishes
<1>11. StateOK(nodes', index, tasks', host)
  BY <1>2, <1>4, <1>10, NodeStep, Zenon
<1> QED
  BY <1>11 DEF EngineInv

\* The attempt a body computes, by its place in the node.
Underway(t, f, n, p) ==
  /\ Sound(n) /\ p \in 1 .. Len(n.attempts) /\ n.attempts[p].id = f.attempt /\ ~Ended(n.attempts[p])
  /\ n.attempts[p].owner = t
  /\ \A id : Retains(n, id) => id # f.attempt
  /\ \A v, id : Computes(n, id, v) /\ v # t => id # f.attempt

\* Where that is.
LEMMA BodyAttempt ==
  ASSUME NodesOK(nodes), NEW t, NEW f, ComputesIn(nodes, f.inc, f.attempt, t)
  PROVE  Underway(t, f, nodes[f.inc], Position(f.inc, f.attempt))
<1>1. PICK n : n = nodes[f.inc]
  OBVIOUS
<1>2. f.inc \in 1 .. Len(nodes) /\ Computes(n, f.attempt, t) /\ Sound(n)
  BY <1>1 DEF ComputesIn, NodesOK, Sound
<1>3. PICK i \in 1 .. Len(n.attempts) : n.attempts[i].id = f.attempt /\ ~Ended(n.attempts[i]) /\ n.attempts[i].owner = t
  BY <1>2 DEF Computes
<1>4. HasAttempt(f.inc, f.attempt)
  <2>1. DOMAIN n.attempts = 1 .. Len(n.attempts)
    BY <1>2, ListedSeq DEF Sound, NodeOK
  <2> QED
    BY <1>1, <1>3, <2>1 DEF HasAttempt, Attempts
<1>5. i = Position(f.inc, f.attempt) /\ \A k \in 1 .. Len(n.attempts) : n.attempts[k].id = f.attempt => k = i
  BY <1>1, <1>2, <1>3, <1>4, PositionFound
<1>6. \A id : Retains(n, id) => id # f.attempt
  BY <1>3, <1>5 DEF Retains
<1>7. \A v, id : Computes(n, id, v) /\ v # t => id # f.attempt
  BY <1>3, <1>5 DEF Computes
<1> QED
  BY <1>1, <1>2, <1>3, <1>5, <1>6, <1>7 DEF Underway

\* A body whose attempt is gone.
LEMMA AttemptGone ==
  ASSUME NEW t, NEW f, NEW n, NEW p, Underway(t, f, n, p), NEW n2, Removed(n, p, n2)
  PROVE  Finishes(t, f.attempt, n, n2)
<1>1. Sound(n) /\ p \in 1 .. Len(n.attempts) /\ n.attempts[p].id = f.attempt /\ n.next_attempt \in Nat
      /\ Len(n.attempts) \in Nat
  BY DEF Underway, Sound, NodeOK, Listed
<1>2. Follows(n, n2)
  BY <1>1 DEF Removed, Follows
<1>3. \A id : Retains(n, id) => Retains(n2, id)
  BY <1>1 DEF Removed, Underway
<1>4. \A v \in Tasks : v # t => \A id : Computes(n2, id, v) <=> Computes(n, id, v)
  BY <1>1 DEF Removed, Underway
<1>5. ASSUME NEW i \in 1 .. Len(n2.attempts)
      PROVE  \E j \in 1 .. Len(n.attempts) :
               n.attempts[j].id = n2.attempts[i].id /\ n.attempts[j].waiters = n2.attempts[i].waiters
  <2>1. Len(n2.attempts) = Len(n.attempts) - 1 /\ n2.attempts[i] = n.attempts[IF i < p THEN i ELSE i + 1]
    BY DEF Removed
  <2>2. (IF i < p THEN i ELSE i + 1) \in 1 .. Len(n.attempts)
    BY <1>1, <2>1
  <2> QED
    BY <2>1, <2>2
<1>6. Succeeds(t, n, n2)
  BY <1>2, <1>3, <1>4, <1>5, Zenon DEF Succeeds
<1>7. \A k : Computes(n2, k, t) <=> Computes(n, k, t) /\ k # f.attempt
  BY <1>1 DEF Removed
<1> QED
  BY <1>6, <1>7 DEF Finishes

\* A body whose attempt has its terminal.
LEMMA AttemptEnded ==
  ASSUME NEW t, NEW f, NEW n, NEW p, Underway(t, f, n, p), NEW n2, Published(n, p, n2)
  PROVE  Finishes(t, f.attempt, n, n2) /\ Retains(n2, f.attempt)
<1>1. Sound(n) /\ p \in 1 .. Len(n.attempts) /\ n.attempts[p].id = f.attempt /\ n.next_attempt \in Nat
  BY DEF Underway, Sound, NodeOK
<1>2. Follows(n, n2)
  BY <1>1 DEF Published, Follows
<1>3. \A id : Retains(n, id) => Retains(n2, id)
  BY DEF Published
<1>4. \A v \in Tasks : v # t => \A id : Computes(n2, id, v) <=> Computes(n, id, v)
  BY <1>1 DEF Published, Underway
<1>5. \A i \in 1 .. Len(n2.attempts) : \E j \in 1 .. Len(n.attempts) :
         n.attempts[j].id = n2.attempts[i].id /\ n.attempts[j].waiters = n2.attempts[i].waiters
  BY DEF Published
<1>6. Succeeds(t, n, n2)
  BY <1>2, <1>3, <1>4, <1>5, Zenon DEF Succeeds
<1>7. \A k : Computes(n2, k, t) <=> Computes(n, k, t) /\ k # f.attempt
  BY <1>1 DEF Published
<1>8. Retains(n2, f.attempt)
  BY <1>1 DEF Published
<1> QED
  BY <1>6, <1>7, <1>8 DEF Finishes

\* A task's state is its own.
LEMMA OnlyTwice ==
  ASSUME NEW t, NEW tks, NEW tks2, Only(t, tasks, tks), Only(t, tks, tks2)
  PROVE  Only(t, tasks, tks2)
  BY DEF Only

\* A body that aborts takes its attempt with it.
LEMMA AbortBodyKeeps ==
  ASSUME EngineInv, NEW t \in Tasks, AbortBody(t)
  PROVE  EngineInv'
<1>1. PICK s : s = Stack(t)
  OBVIOUS
<1>2. PICK f : f = Top(t)
  OBVIOUS
<1>3. PICK rest : rest = Below(t)
  OBVIOUS
<1>4. tasks[t].status = "running" /\ f.kind = "body"
  BY <1>2 DEF AbortBody, At, Running
<1>5. Stands(t, s, rest, f)
  BY <1>1, <1>2, <1>3, <1>4, TaskStands, Zenon
<1>6. PICK q : q = Last(rest)
  OBVIOUS
<1>7. PICK base : base = Front(rest)
  OBVIOUS
<1>8. /\ Stacked(t, nodes, rest, base, q) /\ q.kind = "query" /\ ComputesIn(nodes, f.inc, f.attempt, t)
  BY <1>4, <1>5, <1>6, <1>7, BodyBelow DEF Stands
<1>9. PICK p : p = Position(f.inc, f.attempt)
  OBVIOUS
<1>10. NodesOK(nodes) /\ DOMAIN tasks = Tasks
  BY DEF EngineInv, StateOK
<1>11. PICK n : n = nodes[f.inc]
  OBVIOUS
<1>12. PICK n2 : n2 = RemoveAttempt(n, p)
  OBVIOUS
<1>13. Underway(t, f, n, p)
  BY <1>8, <1>9, <1>10, <1>11, BodyAttempt
<1>14. Removed(n, p, n2)
  BY <1>12, <1>13, AttemptRemoved DEF Underway
<1>15. Finishes(t, f.attempt, nodes[f.inc], n2)
  BY <1>11, <1>13, <1>14, AttemptGone
<1>16. PICK why : why = IF Canceled(t) THEN "canceled" ELSE f.abort
  OBVIOUS
<1>17. PICK after : after = ObserveAbortPrefix(base, f)
  OBVIOUS
<1>18. /\ nodes' = [nodes EXCEPT ![f.inc] = n2]
       /\ tasks' = AbortQuery(t, after, q, why)
       /\ index' = index /\ host' = host
  BY <1>2, <1>3, <1>6, <1>7, <1>9, <1>11, <1>12, <1>16, <1>17, Zenon DEF AbortBody
<1>19. Writes(nodes, f.inc, n2, nodes')
  BY <1>18 DEF Writes
<1>20. Written(nodes, f.inc, n2, nodes') /\ \E tks : Pops(t, rest, tks)
  BY <1>4, <1>5, <1>15, <1>19, BodyPopped, Zenon
<1>21. PICK tks : Pops(t, rest, tks)
  BY <1>20
<1>22. /\ tks = [tasks EXCEPT ![t].stack = rest] /\ DOMAIN tks = Tasks /\ TaskOK(tks[t], t, nodes')
       /\ tks[t].status = "running" /\ StackOK(rest, t, nodes')
  BY <1>21 DEF Pops
<1>23. Listed(base) /\ Puts(rest, base, q) /\ Alike(base, after) /\ Listed(after)
  BY <1>8, <1>17, PrefixAlike DEF Stacked, Alike
<1>24. PICK w : Puts(w, after, q)
  BY DEF Puts
<1>25. Alike(rest, w)
  BY <1>23, <1>24, AlikeAppended DEF Puts
<1>26. StackOK(w, t, nodes') /\ Holds(rest, w)
  BY <1>22, <1>25, StackAlike
<1>27. PICK u : Puts(u, after, Returned(q))
  BY DEF Puts
<1>28. tasks' = [tasks EXCEPT ![t].stack = u, ![t].ret = Abort(why)]
  BY <1>18, <1>27, Zenon DEF AbortQuery, Puts, Returned
<1>29. TaskFields \subseteq DOMAIN tasks[t]
  BY <1>5 DEF Stands, TaskOK
<1>30. PICK tks2 : tks2 = [tks EXCEPT ![t].stack = u, ![t].ret = Abort(why)]
  OBVIOUS
<1>31. tasks' = tks2
  <2>1. DOMAIN tasks' = Tasks /\ DOMAIN tks2 = Tasks
    BY <1>10, <1>22, <1>28, <1>30
  <2>2. ASSUME NEW v \in Tasks
        PROVE  tasks'[v] = tks2[v]
    BY <1>10, <1>22, <1>28, <1>29, <1>30 DEF TaskFields
  <2>3. tasks' = [v \in Tasks |-> tasks'[v]]
    BY <1>10, <1>28
  <2>4. tks2 = [v \in Tasks |-> tks2[v]]
    BY <1>22, <1>30
  <2> QED
    BY <2>2, <2>3, <2>4
<1>32. Aborted(t, tks, tasks', u, why)
  BY <1>30, <1>31 DEF Aborted
<1>33. /\ Runs(t, tks, tasks', u) /\ TaskOK(tasks'[t], t, nodes') /\ Ends(t, nodes', w, u, after, q)
  BY <1>8, <1>22, <1>23, <1>24, <1>26, <1>27, <1>32, TaskAborts, Zenon
<1>34. Holds(rest, u) /\ NoJoin(u)
  BY <1>26, <1>33 DEF Ends, Topped, Holds
<1>35. Runs(t, tasks, tasks', u)
  <2>1. Only(t, tasks, tks)
    BY <1>10, <1>22 DEF Only
  <2> QED
    BY <1>33, <2>1, OnlyTwice DEF Runs
<1> QED
  BY <1>4, <1>5, <1>15, <1>18, <1>20, <1>33, <1>34, <1>35, BodyStep, Zenon

\* A value with a stamp of the node's, or a new one.
LEMMA StampChosen ==
  ASSUME NEW n, Sound(n), NEW computed, computed = {i \in DOMAIN n.attempts : ~Computing(n.attempts[i])},
         computed # {}, NEW previous, previous = n.attempts[Max(computed)].terminal,
         NEW terminal, terminal.stamp = previous.stamp, terminal.value = previous.value,
         terminal.missing = previous.missing
  PROVE  Named(n, terminal)
<1>1. DOMAIN n.attempts = 1 .. Len(n.attempts) /\ Len(n.attempts) \in Nat
  BY ListedSeq DEF Sound, NodeOK, Listed
<1>2. computed \subseteq 1 .. Len(n.attempts)
  BY <1>1
<1>3. Max(computed) \in computed
  BY <1>1, <1>2, LargestIndex
<1>4. Max(computed) \in 1 .. Len(n.attempts) /\ Ended(n.attempts[Max(computed)])
  BY <1>2, <1>3 DEF Computing, Ended
<1> QED
  BY <1>4 DEF Named

\* A body that is done publishes its value.
LEMMA PublishKeeps ==
  ASSUME EngineInv, NEW t \in Tasks, Publish(t)
  PROVE  EngineInv'
<1>1. PICK s : s = Stack(t)
  OBVIOUS
<1>2. PICK f : f = Top(t)
  OBVIOUS
<1>3. PICK rest : rest = Below(t)
  OBVIOUS
<1>4. tasks[t].status = "running" /\ f.kind = "body"
  BY <1>2 DEF Publish, BodyActive, At, Running
<1>5. Stands(t, s, rest, f)
  BY <1>1, <1>2, <1>3, <1>4, TaskStands, Zenon
<1>6. PICK q : q = Last(rest)
  OBVIOUS
<1>7. PICK base : base = Front(rest)
  OBVIOUS
<1>8. /\ Stacked(t, nodes, rest, base, q) /\ q.kind = "query" /\ ComputesIn(nodes, f.inc, f.attempt, t)
      /\ q.attempt = f.attempt
  BY <1>4, <1>5, <1>6, <1>7, BodyBelow DEF Stands
<1>9. PICK p : p = Position(f.inc, f.attempt)
  OBVIOUS
<1>10. NodesOK(nodes) /\ DOMAIN tasks = Tasks
  BY DEF EngineInv, StateOK
<1>11. PICK n : n = nodes[f.inc]
  OBVIOUS
<1>12. Underway(t, f, n, p)
  BY <1>8, <1>9, <1>10, <1>11, BodyAttempt
<1>13. PICK value : value = BodyOp(t).value
  OBVIOUS
<1>14. PICK missing : missing = (f.missing \/ \E x \in DOMAIN f.inputs : f.inputs[x] = Missing)
  OBVIOUS
<1>15. PICK computed : computed = Computed(f.inc)
  OBVIOUS
<1>16. PICK previous : previous = n.attempts[Max(computed)].terminal
  OBVIOUS
<1>17. PICK red : red = (computed # {} /\ SameAnswer(previous, value, missing))
  OBVIOUS
<1>18. PICK terminal : terminal = [rev |-> tasks[t].rev, value |-> value, missing |-> missing,
                                   stamp |-> IF red THEN previous.stamp ELSE n.next_stamp,
                                   deps |-> Observations(f.deps), inputs |-> f.inputs]
  OBVIOUS
<1>19. PICK c : c = Certificate(terminal, tasks[t].rev)
  OBVIOUS
<1>20. PICK n2 : n2 = [n EXCEPT
                         !.next_stamp = IF red THEN n.next_stamp ELSE n.next_stamp + 1,
                         !.attempts = [n.attempts EXCEPT ![p] = [n.attempts[p] EXCEPT !.terminal = terminal]],
                         !.validated_at = c]
  OBVIOUS
<1>21. /\ nodes' = [nodes EXCEPT
                      ![f.inc].next_stamp = IF red THEN @ ELSE @ + 1,
                      ![f.inc].attempts[p].terminal = terminal,
                      ![f.inc].validated_at = c]
       /\ tasks' = Answer(t, base, q, f.inc, f.attempt, terminal, "computed")
       /\ index' = index /\ host' = host
  BY <1>2, <1>3, <1>6, <1>7, <1>9, <1>11, <1>13, <1>14, <1>15, <1>16, <1>17, <1>18, <1>19, Zenon
     DEF Publish, Attempts
<1>22. nodes' = [nodes EXCEPT ![f.inc] = n2]
  BY <1>11, <1>20, <1>21, Zenon
<1>23. Finishes(t, f.attempt, nodes[f.inc], n2) /\ Retains(n2, f.attempt)
  <2>1. Sound(n) /\ p \in 1 .. Len(n.attempts) /\ ~Ended(n.attempts[p])
    BY <1>12 DEF Underway
  <2>2. red \in BOOLEAN
    BY <1>17
  <2>3. terminal # NoTerminal
    BY <1>18 DEF NoTerminal
  <2>4. c.stamp = terminal.stamp /\ c.terminal_rev = terminal.rev
    BY <1>19 DEF Certificate
  <2>5. red => Named(n, terminal)
    <3>1. SUFFICES ASSUME red PROVE Named(n, terminal)
      OBVIOUS
    <3>2. computed # {} /\ previous.value = value /\ previous.missing = missing
      BY <1>17, <3>1 DEF SameAnswer
    <3>3. terminal.stamp = previous.stamp /\ terminal.value = value /\ terminal.missing = missing
      BY <1>18, <3>1
    <3>4. computed = {i \in DOMAIN n.attempts : ~Computing(n.attempts[i])}
      BY <1>11, <1>15 DEF Computed, Attempts
    <3>5. terminal.value = previous.value /\ terminal.missing = previous.missing
      BY <3>2, <3>3
    <3> QED
      BY <1>16, <2>1, <3>2, <3>3, <3>4, <3>5, StampChosen, Zenon
  <2>6. ~red => terminal.stamp = n.next_stamp
    BY <1>18
  <2>7. Publishes(n, p, terminal, c, red, n2)
    BY <1>20, Zenon DEF Publishes
  <2>8. Published(n, p, n2)
    BY <2>1, <2>2, <2>3, <2>4, <2>5, <2>6, <2>7, TerminalPublished, Zenon
  <2> QED
    BY <1>11, <1>12, <2>8, AttemptEnded
<1>24. Writes(nodes, f.inc, n2, nodes')
  BY <1>22 DEF Writes
<1>25. Written(nodes, f.inc, n2, nodes') /\ \E tks : Pops(t, rest, tks)
  BY <1>4, <1>5, <1>23, <1>24, BodyPopped, Zenon
<1>26. PICK tks : Pops(t, rest, tks)
  BY <1>25
<1>27. /\ tks = [tasks EXCEPT ![t].stack = rest] /\ DOMAIN tks = Tasks /\ TaskOK(tks[t], t, nodes')
       /\ tks[t].status = "running" /\ StackOK(rest, t, nodes')
  BY <1>26 DEF Pops
<1>28. Listed(base) /\ Puts(rest, base, q)
  BY <1>8 DEF Stacked
<1>29. TaskFields \subseteq DOMAIN tasks[t]
  BY <1>5 DEF Stands, TaskOK
<1>30. AnswersOn(t, base, q, f.inc)
  BY <1>8, <1>10, <1>21, <1>28, <1>29, AnswerGives, Zenon
<1>31. PICK after, u, ret : /\ Alike(base, after) /\ Puts(u, after, Returned(q)) /\ ret.inc = f.inc
                            /\ Answered(t, tasks, tasks', u, ret, q)
  BY <1>30 DEF AnswersOn
<1>32. /\ DOMAIN tks[t] = DOMAIN tasks[t] /\ tks[t].status = tasks[t].status /\ tks[t].rev = tasks[t].rev
       /\ tks[t].leases = tasks[t].leases /\ Only(t, tasks, tks) /\ Only(t, tks, tasks)
  BY <1>10, <1>27, <1>29 DEF TaskFields, Only
<1>33. Answered(t, tks, tasks', u, ret, q)
  BY <1>31, <1>32 DEF Answered, Only
<1>34. RetainsIn(nodes', f.inc, f.attempt) /\ NodesOK(nodes')
  BY <1>8, <1>23, <1>25 DEF RetainsIn, Written, ComputesIn
<1>35. f.inc \in Nat /\ f.attempt \in Nat
  BY <1>34, RetainedNumber
<1>36. ret.inc \in Nat /\ q.attempt \in Nat /\ RetainsIn(nodes', ret.inc, q.attempt)
  BY <1>8, <1>31, <1>34, <1>35
<1>37. Runs(t, tks, tasks', u) /\ TaskOK(tasks'[t], t, nodes') /\ Holds(rest, u) /\ NoJoin(u)
  BY <1>8, <1>27, <1>28, <1>31, <1>33, <1>36, TaskAnswers, Zenon
<1>38. Runs(t, tasks, tasks', u)
  BY <1>32, <1>37, OnlyTwice DEF Runs
<1> QED
  BY <1>4, <1>5, <1>21, <1>23, <1>25, <1>37, <1>38, BodyStep, Zenon

-----------------------------------------------------------------------------
(* Returns *)

\* Task t gives up its lease of inc, and nothing else.
Releases(t, s, inc) ==
  /\ Only(t, tasks, tasks') /\ TaskOK(tasks'[t], t, nodes)
  /\ \A i, id : BodyOn(s, i, id) => BodyOn(tasks'[t].stack, i, id)
  /\ \A i : i # 0 /\ LeaseOn(s, i) => LeaseOn(tasks'[t].stack, i) \/ i = inc
  /\ \A i, id : ~Joins(tasks'[t], i, id)

\* The memo forgets the key, or what it keeps there is still of use.
Forgets(key, inc) ==
  \/ index' = [index EXCEPT ![key] = 0]
  \/ /\ index' = index
     /\ index[key] = inc => nodes[inc].attempts # << >> \/ \E v \in Tasks : LeaseOn(tasks'[v].stack, inc)

\* A task that waits for nothing gives up one lease.
LEMMA ReleaseStep ==
  ASSUME EngineInv, NEW t \in Tasks, NEW s, s = tasks[t].stack, NoJoin(s),
         NEW inc, Releases(t, s, inc), NEW key \in Keys, inc # 0 => nodes[inc].key = key,
         inc # 0 => Forgets(key, inc), inc = 0 => index' = index,
         nodes' = nodes, host' = host
  PROVE  EngineInv'
<1>1. StateOK(nodes, index, tasks, host) /\ NodesOK(nodes) /\ IndexOK(index, nodes) /\ HostOK(host)
      /\ MemoOK(index, nodes, tasks) /\ OwnersOK(nodes, tasks)
  BY DEF EngineInv, StateOK
<1>2. Only(t, tasks, tasks') /\ TaskOK(tasks'[t], t, nodes)
  BY DEF Releases
<1>3. KeptFor(t, nodes, nodes)
  BY <1>1, KeptItself
<1>4. /\ DOMAIN index = Keys /\ DOMAIN index' = Keys
      /\ \A k \in Keys : index'[k] = index[k] \/ index'[k] = 0
  BY <1>1 DEF IndexOK, Forgets
<1>5. IndexOK(index', nodes)
  <2>1. Len(nodes) \in Nat
    BY <1>1 DEF NodesOK, Listed
  <2> QED
    BY <1>1, <1>4, <2>1 DEF IndexOK
<1>6. \A i, id : ComputesIn(nodes, i, id, t) => BodyOn(tasks'[t].stack, i, id)
  BY <1>1 DEF OwnersOK, Releases
<1>7. \A i, id : ~Joins(tasks[t], i, id) /\ ~Joins(tasks'[t], i, id)
  BY DEF Joins, JoinsAt, NoJoin, Releases
<1>8. Tally(t, nodes, nodes, tasks, tasks')
  <2>1. ASSUME NEW i \in 1 .. Len(nodes), NEW j \in 1 .. Len(nodes[i].attempts)
        PROVE  nodes[i].attempts[j].waiters = nodes[i].attempts[j].waiters
                 + Weight(tasks'[t], i, nodes[i].attempts[j].id) - Weight(tasks[t], i, nodes[i].attempts[j].id)
    <3>1. nodes[i].attempts[j].waiters \in Nat
      BY <1>1 DEF NodesOK, NodeOK, AttemptOK
    <3> QED
      BY <1>7, <3>1 DEF Weight
  <2> QED
    BY <2>1 DEF Tally
<1>9. MemoOK(index', nodes, tasks')
  <2>1. SUFFICES ASSUME NEW k \in Keys, index'[k] # 0, nodes[index'[k]].attempts = << >>
                 PROVE  \E v \in Tasks : LeaseOn(tasks'[v].stack, index'[k])
    BY DEF MemoOK
  <2>2. index'[k] = index[k] /\ nodes[index[k]].key = k
    BY <1>1, <1>4, <2>1 DEF IndexOK
  <2>3. PICK v \in Tasks : LeaseOn(tasks[v].stack, index[k])
    BY <1>1, <2>1, <2>2 DEF MemoOK
  <2>4. CASE v # t
    BY <1>2, <2>2, <2>3, <2>4 DEF Only
  <2>5. CASE v = t /\ index[k] # inc
    BY <2>1, <2>2, <2>3, <2>5 DEF Releases
  <2>6. CASE v = t /\ index[k] = inc
    <3>1. inc # 0 /\ k = key
      BY <2>1, <2>2, <2>6
    <3>2. index' # [index EXCEPT ![key] = 0]
      BY <1>4, <2>1, <3>1
    <3> QED
      BY <2>1, <2>2, <2>6, <3>1, <3>2 DEF Forgets
  <2> QED
    BY <2>4, <2>5, <2>6
<1>10. StateOK(nodes, index', tasks', host)
  BY <1>1, <1>2, <1>3, <1>5, <1>6, <1>8, <1>9, Stepped, Zenon
<1> QED
  BY <1>10 DEF EngineInv

\* The task goes on below the query that returns.
LEMMA ReleaseBelow ==
  ASSUME NEW t \in Tasks, NEW s, NEW rest, NEW f, Stands(t, s, rest, f), f.kind = "query", Len(rest) > 0,
         NEW u, Runs(t, tasks, tasks', u), TaskOK(tasks'[t], t, nodes), Holds(rest, u), NoJoin(u)
  PROVE  Releases(t, s, f.inc)
<1>1. Stacked(t, nodes, s, rest, f)
  BY DEF Stands
<1>2. /\ \A inc, id : BodyOn(rest, inc, id) <=>
             BodyOn(s, inc, id) /\ ~(f.kind = "body" /\ f.inc = inc /\ f.attempt = id)
      /\ \A inc : LeaseOn(s, inc) => LeaseOn(rest, inc) \/ (f.kind = "query" /\ f.inc = inc)
  BY <1>1, StackBelow
<1>3. Only(t, tasks, tasks') /\ tasks'[t].stack = u
  BY DEF Runs
<1>4. \A i, id : ~Joins(tasks'[t], i, id)
  BY <1>3 DEF Joins, JoinsAt, NoJoin
<1> QED
  BY <1>2, <1>3, <1>4 DEF Releases, Holds

\* The task sets its stack and takes what was returned.
LEMMA TaskContinues ==
  ASSUME NEW t \in Tasks, NEW ns, NEW tks, DOMAIN tks = Tasks, TaskOK(tks[t], t, ns),
         tks[t].status = "running", NEW s, StackOK(s, t, ns), Inner(s), NEW why,
         NEW tks2, Aborted(t, tks, tks2, s, why)
  PROVE  Runs(t, tks, tks2, s) /\ TaskOK(tks2[t], t, ns)
  BY TaskReturns DEF Aborted

\* The task goes on with that frame on top.
LEMMA ContinueReleases ==
  ASSUME NEW t \in Tasks, NEW s, NEW rest, NEW f, Stands(t, s, rest, f), f.kind = "query", Len(rest) > 0,
         NEW u, NEW below, NEW g, Stacked(t, nodes, u, below, g), Busy(g), Holds(rest, u),
         tasks' = Continue(t, u)
  PROVE  Releases(t, s, f.inc)
<1>1. /\ StackOK(u, t, nodes) /\ u[Len(u)] = g /\ Len(u) \in Nat /\ Len(u) > 0
  BY DEF Stacked
<1>2. Inner(u) /\ NoJoin(u)
  BY <1>1 DEF Inner, NoJoin, Busy, StackOK
<1>3. Aborted(t, tasks, tasks', u, "none")
  BY DEF Continue, Aborted, NoReturn
<1>4. Runs(t, tasks, tasks', u) /\ TaskOK(tasks'[t], t, nodes)
  <2>1. DOMAIN tasks = Tasks /\ TaskOK(tasks[t], t, nodes) /\ tasks[t].status = "running"
    BY DEF Stands
  <2> QED
    BY <1>1, <1>2, <1>3, <2>1, TaskContinues, Zenon
<1> QED
  BY <1>2, <1>4, ReleaseBelow, Zenon

\* The body that demanded the query goes on with the answer, or aborts.
LEMMA ReturnToBody ==
  ASSUME NEW t \in Tasks, NEW s, NEW rest, NEW f, Stands(t, s, rest, f), f.kind = "query",
         NEW base, NEW c, Stacked(t, nodes, rest, base, c), c.kind = "body", NEW ret,
         tasks' = Continue(t, Append(base, IF IsAbort(ret) THEN [c EXCEPT !.abort = ret.abort]
                                           ELSE [c EXCEPT !.log = Append(@, ret.terminal.value)]))
  PROVE  Releases(t, s, f.inc)
<1>1. PICK aborted : aborted = [c EXCEPT !.abort = ret.abort]
  OBVIOUS
<1>2. PICK logged : logged = [c EXCEPT !.log = Append(@, ret.terminal.value)]
  OBVIOUS
<1>3. PICK g : g = IF IsAbort(ret) THEN aborted ELSE logged
  OBVIOUS
<1>4. PICK u : Puts(u, base, g)
  BY DEF Puts
<1>5. tasks' = Continue(t, u)
  BY <1>1, <1>2, <1>3, <1>4, Zenon DEF Puts
<1>6. FrameOK(c, t, nodes) /\ BodyFields \subseteq DOMAIN c /\ Len(rest) > 0
  BY DEF Stacked, FrameOK
<1>7. /\ DOMAIN aborted = DOMAIN c /\ aborted.kind = "body" /\ aborted.inc = c.inc /\ aborted.attempt = c.attempt
      /\ DOMAIN logged = DOMAIN c /\ logged.kind = "body" /\ logged.inc = c.inc /\ logged.attempt = c.attempt
  BY <1>1, <1>2, <1>6 DEF BodyFields
<1>8. DOMAIN c \subseteq DOMAIN g /\ g.kind = "body" /\ g.inc = c.inc /\ g.attempt = c.attempt
  BY <1>3, <1>7
<1>9. FrameOK(g, t, nodes) /\ Replaces(c, g) /\ Busy(g)
  BY <1>6, <1>8, BodyMoved, Zenon
<1>10. Stacked(t, nodes, u, base, g) /\ Holds(rest, u)
  BY <1>4, <1>9, StackTurned, Zenon
<1> QED
  BY <1>5, <1>6, <1>9, <1>10, ContinueReleases, Zenon

\* The query of a validation lets go of its candidate.
Drops(base, g) == g = [Last(base) EXCEPT !.pinned = FALSE]

\* Marked is a stack like rest, and u is what it is when the validation on top is given up.
MarkedAs(t, ns, rest, c, marked, u, g) ==
  /\ Stacked(t, ns, marked, Front(marked), Last(marked)) /\ Holds(rest, marked)
  /\ Like(c, Last(marked))
  /\ Stacked(t, ns, u, Front(Front(marked)), g) /\ Holds(rest, u) /\ Busy(g) /\ g.kind = "query"

\* Where the query of a validation stands, in the stack or one like it.
LEMMA MarkedBelow ==
  ASSUME NEW t, NEW ns, NEW rest, NEW base, NEW c, Stacked(t, ns, rest, base, c), c.kind = "validate",
         NEW marked, Alike(rest, marked), NEW g, Drops(base, g),
         NEW u, Puts(u, Front(Front(marked)), g)
  PROVE  MarkedAs(t, ns, rest, c, marked, u, g)
<1>1. PICK m : m = Front(marked)
  OBVIOUS
<1>2. PICK k : k = Last(marked)
  OBVIOUS
<1>3. PICK q : q = Last(base)
  OBVIOUS
<1>4. g = [q EXCEPT !.pinned = FALSE] /\ Puts(u, Front(m), g)
  BY <1>1, <1>3 DEF Drops
<1>5. base = Front(rest)
  BY FrontAppend DEF Stacked, Puts
<1>6. Stacked(t, ns, base, Front(base), q) /\ q.kind = "query" /\ q.pc = "find" /\ q.inc # 0
      /\ QueryFields \subseteq DOMAIN q
  BY <1>3, ValidationBelow
<1>7. StackOK(marked, t, ns) /\ Holds(rest, marked)
  BY StackAlike DEF Stacked
<1>8. Stacked(t, ns, marked, m, k)
  BY <1>7, <1>1, <1>2, StackApart
<1>9. Like(c, k)
  BY <1>8, <1>2 DEF Alike, Stacked
<1>10. k.kind = "validate"
  BY <1>9 DEF Like, Stacked, FrameOK
<1>11. PICK l : l = Last(m)
  OBVIOUS
<1>12. Stacked(t, ns, m, Front(m), l) /\ Holds(marked, m)
  BY <1>8, <1>10, <1>11, ValidationBelow
<1>13. Like(q, l)
  <2>1. Len(m) = Len(base) /\ Len(base) \in 1 .. Len(rest) /\ marked[Len(base)] = l /\ rest[Len(base)] = q
    BY <1>6, <1>8, <1>12 DEF Stacked, Alike
  <2> QED
    BY <2>1 DEF Alike
<1>14. /\ DOMAIN g = DOMAIN q /\ g.kind = "query" /\ g.key = q.key /\ g.obs = q.obs /\ g.inc = q.inc
      /\ g.pc = "find"
  BY <1>6, <1>4 DEF QueryFields
<1>15. FrameOK(q, t, ns)
  BY <1>6 DEF Stacked
<1>16. FrameOK(g, t, ns) /\ Replaces(q, g) /\ Busy(g)
  BY <1>6, <1>14, <1>15, QueryMoved DEF Busy
<1>17. Replaces(l, g)
  <2>1. Replaces(q, l) /\ l.inc = q.inc /\ l.obs = q.obs
    BY <1>6, <1>13, <1>15, LikeFrame
  <2> QED
    BY <1>6, <1>14, <2>1 DEF Replaces
<1>18. Stacked(t, ns, u, Front(m), g) /\ Holds(m, u)
  BY <1>12, <1>16, <1>17, <1>4, StackTurned, Zenon
<1>19. Holds(rest, u)
  BY <1>7, <1>12, <1>18 DEF Holds
<1> QED
  BY <1>7, <1>8, <1>9, <1>14, <1>16, <1>18, <1>19, <1>1, <1>2 DEF MarkedAs

\* The validation that demanded the query goes on, or is given up, or aborts its query.
LEMMA ReturnToValidation ==
  ASSUME NEW t \in Tasks, NEW s, NEW rest, NEW f, Stands(t, s, rest, f), f.kind = "query",
         NEW base, base = Front(rest), NEW c, Stacked(t, nodes, rest, base, c), c.kind = "validate",
         NEW marked, marked = rest \/ marked = DeferProofs(rest),
         NEW g, g = [Last(base) EXCEPT !.pinned = FALSE], NEW why,
         \/ tasks' = AbortQuery(t, Front(base), g, why)
         \/ tasks' = Continue(t, Append(Front(marked), [Last(marked) EXCEPT !.next = @ + 1]))
         \/ tasks' = Continue(t, Append(Front(Front(marked)), g))
  PROVE  Releases(t, s, f.inc)
<1>2. Listed(rest) /\ Len(rest) > 0 /\ DOMAIN tasks = Tasks /\ TaskOK(tasks[t], t, nodes)
      /\ tasks[t].status = "running"
  BY DEF Stands, Stacked
<1>3. Alike(rest, rest) /\ Alike(rest, marked)
  BY <1>2, AlikeItself, DeferAlike
<1>4. PICK k : k = Last(marked)
  OBVIOUS
<1>5. PICK m : m = Front(marked)
  OBVIOUS
<1>6. Drops(base, g)
  BY DEF Drops
<1>7. CASE tasks' = AbortQuery(t, Front(base), g, why)
  <2>1. PICK w : Puts(w, Front(base), g)
    BY DEF Puts
  <2>2. Puts(w, Front(Front(rest)), g)
    BY <2>1
  <2>3. Stacked(t, nodes, w, Front(base), g) /\ Holds(rest, w) /\ g.kind = "query"
    <3>1. MarkedAs(t, nodes, rest, c, rest, w, g)
      BY <1>3, <1>6, <2>2, MarkedBelow, Zenon
    <3> QED
      BY <3>1 DEF MarkedAs
  <2>4. PICK u : Puts(u, Front(base), Returned(g))
    BY DEF Puts
  <2>5. Aborted(t, tasks, tasks', u, why)
    BY <1>7, <2>4, Zenon DEF AbortQuery, Puts, Returned, Aborted
  <2>6. StackOK(w, t, nodes) /\ Listed(Front(base))
    BY <2>3 DEF Stacked
  <2>7. /\ Runs(t, tasks, tasks', u) /\ TaskOK(tasks'[t], t, nodes) /\ Ends(t, nodes, w, u, Front(base), g)
    BY <1>2, <2>1, <2>3, <2>4, <2>5, <2>6, TaskAborts, Zenon
  <2>8. Holds(rest, u) /\ NoJoin(u)
    BY <2>3, <2>7 DEF Ends, Topped, Holds
  <2> QED
    BY <1>2, <2>7, <2>8, ReleaseBelow, Zenon
<1>8. PICK w : Puts(w, Front(m), g)
  BY DEF Puts
<1>9. /\ Stacked(t, nodes, marked, m, k) /\ Holds(rest, marked) /\ Like(c, k)
      /\ Stacked(t, nodes, w, Front(m), g) /\ Holds(rest, w) /\ Busy(g)
  <2>1. Puts(w, Front(Front(marked)), g)
    BY <1>5, <1>8
  <2>2. MarkedAs(t, nodes, rest, c, marked, w, g)
    BY <1>3, <1>6, <2>1, MarkedBelow, Zenon
  <2> QED
    BY <1>4, <1>5, <2>2 DEF MarkedAs
<1>10. PICK ahead : ahead = [k EXCEPT !.next = @ + 1]
  OBVIOUS
<1>11. CASE tasks' = Continue(t, Append(m, ahead))
  <2>1. FrameOK(k, t, nodes) /\ k.kind = "validate" /\ ValidateFields \subseteq DOMAIN k
    BY <1>9 DEF Stacked, FrameOK, Like
  <2>2. DOMAIN ahead = DOMAIN k /\ ahead.kind = "validate" /\ ahead.inc = k.inc
    BY <1>10, <2>1 DEF ValidateFields
  <2>3. FrameOK(ahead, t, nodes) /\ Replaces(k, ahead) /\ Busy(ahead)
    BY <2>1, <2>2, ValidateMoved
  <2>4. PICK u : Puts(u, m, ahead)
    BY DEF Puts
  <2>5. Stacked(t, nodes, u, m, ahead) /\ Holds(marked, u)
    BY <1>9, <2>3, <2>4, StackTurned, Zenon
  <2>6. Holds(rest, u) /\ tasks' = Continue(t, u)
    BY <1>9, <1>11, <2>4, <2>5 DEF Holds, Puts
  <2> QED
    BY <1>2, <2>3, <2>5, <2>6, ContinueReleases, Zenon
<1>12. CASE tasks' = Continue(t, Append(Front(m), g))
  <2>1. tasks' = Continue(t, w)
    BY <1>8, <1>12 DEF Puts
  <2> QED
    BY <1>2, <1>9, <2>1, ContinueReleases, Zenon
<1>13. \/ tasks' = AbortQuery(t, Front(base), g, why)
       \/ tasks' = Continue(t, Append(m, ahead))
       \/ tasks' = Continue(t, Append(Front(m), g))
  BY <1>4, <1>5, <1>10, Zenon
<1> QED
  BY <1>7, <1>11, <1>12, <1>13

\* The request ends: the answer keeps the lease it is made of, and the task nothing.
LEMMA EndReleases ==
  ASSUME NEW t \in Tasks, NEW s, NEW rest, NEW f, Stands(t, s, rest, f), f.kind = "query", f.pc = "return",
         Len(rest) = 0, tasks' = EndRequest(t, tasks[t].ret)
  PROVE  Releases(t, s, f.inc)
<1>1. /\ Stacked(t, nodes, s, rest, f) /\ TaskOK(tasks[t], t, nodes) /\ DOMAIN tasks = Tasks
      /\ s = tasks[t].stack /\ f = Top(t) /\ tasks[t].status = "running"
  BY DEF Stands
<1>2. Len(s) = 1 /\ s[1] = f
  BY <1>1 DEF Stacked
<1>3. PICK ret : ret = tasks[t].ret
  OBVIOUS
<1>4. PICK answer : answer = IF Canceled(t) /\ ~IsAbort(ret) THEN Abort("canceled") ELSE ret
  OBVIOUS
<1>5. PICK leases : leases = IF IsAbort(answer) THEN {} ELSE {<<answer.inc, f.attempt>>}
  OBVIOUS
<1>6. tasks' = [tasks EXCEPT ![t].stack = << >>, ![t].status = "done", ![t].ret = answer,
                             ![t].leases = leases, ![t].cache = IdleTask.cache]
  BY <1>1, <1>3, <1>4, <1>5, Zenon DEF EndRequest
<1>7. leases \subseteq tasks[t].leases
  <2>1. SUFFICES ASSUME ~IsAbort(answer)
                 PROVE  <<answer.inc, f.attempt>> \in tasks[t].leases
    BY <1>5
  <2>2. IsAbort(Abort("canceled"))
    BY DEF IsAbort, Abort
  <2>3. answer = ret /\ ~IsAbort(ret)
    BY <1>4, <2>1, <2>2
  <2> QED
    BY <1>1, <1>2, <1>3, <2>3 DEF TaskOK, BottomOK
<1>8. PICK tk : tk = tasks'[t]
  OBVIOUS
<1>9. TaskFields \subseteq DOMAIN tasks[t]
  BY <1>1 DEF TaskOK
<1>10. /\ DOMAIN tk = DOMAIN tasks[t] /\ tk.stack = << >> /\ tk.leases = leases /\ tk.status = "done"
  BY <1>1, <1>6, <1>8, <1>9 DEF TaskFields
<1>11. Only(t, tasks, tasks')
  BY <1>1, <1>6 DEF Only
<1>12. TaskOK(tk, t, nodes)
  BY <1>1, <1>7, <1>10 DEF TaskOK, BottomOK
<1>13. \A i, id : ~BodyOn(s, i, id)
  BY <1>2 DEF BodyOn
<1>14. \A i : LeaseOn(s, i) => i = f.inc
  BY <1>2 DEF LeaseOn
<1>15. \A i, id : ~Joins(tk, i, id)
  BY <1>10 DEF Joins
<1> QED
  BY <1>8, <1>11, <1>12, <1>13, <1>14, <1>15 DEF Releases

\* The engine's test for a lease.
LEMMA LeasedOn ==
  ASSUME NEW tks, NEW ns, \A v \in Tasks : TaskOK(tks[v], v, ns), NEW inc, Leased(tks, inc)
  PROVE  \E v \in Tasks : LeaseOn(tks[v].stack, inc)
<1>1. PICK v \in Tasks : \E i \in DOMAIN tks[v].stack :
        tks[v].stack[i].kind = "query" /\ tks[v].stack[i].inc = inc
  BY DEF Leased
<1>2. DOMAIN tks[v].stack = 1 .. Len(tks[v].stack)
  <2>1. TaskOK(tks[v], v, ns)
    OBVIOUS
  <2>2. Listed(tks[v].stack)
    BY <2>1, EmptyListed DEF TaskOK, StackOK
  <2> QED
    BY <2>2, ListedSeq
<1> QED
  BY <1>1, <1>2 DEF LeaseOn

\* A query that returns gives its caller the answer and gives up its lease.
LEMMA ReturnKeeps ==
  ASSUME EngineInv, NEW t \in Tasks, Return(t)
  PROVE  EngineInv'
<1>1. PICK s : s = Stack(t)
  OBVIOUS
<1>2. PICK f : f = Top(t)
  OBVIOUS
<1>3. PICK rest : rest = Below(t)
  OBVIOUS
<1>4. tasks[t].status = "running" /\ f.kind = "query" /\ f.pc = "return"
  BY <1>2 DEF Return, AtPc, At, Running
<1>5. Stands(t, s, rest, f)
  BY <1>1, <1>2, <1>3, <1>4, TaskStands, Zenon
<1>6. PICK ret : ret = tasks[t].ret
  OBVIOUS
<1>7. /\ tasks' = Deliver(t, rest, ret)
      /\ index' = IF f.inc # 0 /\ Retires(nodes[f.inc], tasks', f.inc) THEN [index EXCEPT ![f.key] = 0] ELSE index
      /\ nodes' = nodes /\ host' = host
  BY <1>2, <1>3, <1>6, Zenon DEF Return
<1>8. /\ Stacked(t, nodes, s, rest, f) /\ FrameOK(f, t, nodes) /\ s = tasks[t].stack /\ NoJoin(s)
      /\ Listed(rest) /\ Len(rest) \in Nat
  BY <1>4, <1>5 DEF Stands, Stacked, NoJoin
<1>9. f.key \in Keys /\ (f.inc # 0 => nodes[f.inc].key = f.key)
  BY <1>4, <1>8 DEF FrameOK, QueryOK
<1>10. Releases(t, s, f.inc)
  <2>1. CASE Len(rest) = 0
    <3>1. rest = << >>
      BY <1>8, <2>1, EmptyListed, ListedEqual
    <3>2. tasks' = EndRequest(t, tasks[t].ret)
      BY <1>6, <1>7, <3>1, Zenon DEF Deliver
    <3> QED
      BY <1>4, <1>5, <2>1, <3>2, EndReleases, Zenon
  <2>2. CASE Len(rest) # 0
    <3>1. rest # << >> /\ Len(rest) > 0
      BY <1>8, <2>2, EmptyListed
    <3>2. PICK c : c = Last(rest)
      OBVIOUS
    <3>3. PICK base : base = Front(rest)
      OBVIOUS
    <3>4. Stacked(t, nodes, rest, base, c) /\ Above(c, f, nodes)
      BY <1>8, <3>1, <3>2, <3>3, StackBelow
    <3>5. c.kind \in {"body", "validate"}
      BY <1>4, <3>4 DEF Above, Stacked, FrameOK
    <3>6. CASE c.kind = "body"
      <4>1. tasks' = Continue(t, Append(base, IF IsAbort(ret) THEN [c EXCEPT !.abort = ret.abort]
                                              ELSE [c EXCEPT !.log = Append(@, ret.terminal.value)]))
        BY <1>7, <3>1, <3>2, <3>3, <3>6, Zenon DEF Deliver
      <4> QED
        BY <1>4, <1>5, <3>4, <3>6, <4>1, ReturnToBody, Zenon
    <3>7. CASE c.kind = "validate"
      <4>1. PICK g : g = [Last(base) EXCEPT !.pinned = FALSE]
        OBVIOUS
      <4>2. PICK marked : marked = IF (~IsAbort(ret) /\ ret.inc = c.terminal.deps[c.next].inc)
                                      /\ ret.execution # "reused"
                                   THEN DeferProofs(rest) ELSE rest
        OBVIOUS
      <4>3. c.kind # "body"
        BY <3>7
      <4>4. \/ tasks' = AbortQuery(t, Front(base), g, ret.abort)
            \/ tasks' = Continue(t, Append(Front(marked), [Last(marked) EXCEPT !.next = @ + 1]))
            \/ tasks' = Continue(t, Append(Front(Front(marked)), g))
        BY <1>7, <3>1, <3>2, <3>3, <4>1, <4>2, <4>3, Zenon DEF Deliver, AnswersFor
      <4>5. marked = rest \/ marked = DeferProofs(rest)
        BY <4>2
      <4> QED
        BY <1>4, <1>5, <3>3, <3>4, <3>7, <4>1, <4>4, <4>5, ReturnToValidation
    <3> QED
      BY <3>5, <3>6, <3>7
  <2> QED
    BY <2>1, <2>2
<1>11. ASSUME f.inc # 0
       PROVE  Forgets(f.key, f.inc)
  <2>1. CASE Retires(nodes[f.inc], tasks', f.inc)
    BY <1>7, <1>11, <2>1 DEF Forgets
  <2>2. CASE ~Retires(nodes[f.inc], tasks', f.inc)
    <3>1. index' = index
      BY <1>7, <2>2
    <3>2. ASSUME index[f.key] = f.inc, nodes[f.inc].attempts = << >>
          PROVE  \E v \in Tasks : LeaseOn(tasks'[v].stack, f.inc)
      <4>1. Leased(tasks', f.inc)
        BY <1>9, <1>11, <2>2, <3>2 DEF Retires
      <4>2. \A v \in Tasks : TaskOK(tasks'[v], v, nodes)
        <5>1. \A v \in Tasks : TaskOK(tasks[v], v, nodes)
          BY DEF EngineInv, StateOK
        <5> QED
          BY <1>10, <5>1 DEF Releases, Only
      <4> QED
        BY <4>1, <4>2, LeasedOn, Zenon
    <3> QED
      BY <3>1, <3>2 DEF Forgets
  <2> QED
    BY <2>1, <2>2
<1>12. f.inc = 0 => index' = index
  BY <1>7
<1> QED
  BY <1>7, <1>8, <1>9, <1>10, <1>11, <1>12, ReleaseStep, Zenon

-----------------------------------------------------------------------------
(* The host and retention *)

\* A slot without a request.
LEMMA IdleOK ==
  ASSUME NEW t, NEW ns
  PROVE  /\ TaskOK(IdleTask, t, ns) /\ IdleTask.stack = << >> /\ IdleTask.status = "idle"
         /\ \A inc, id : ~Joins(IdleTask, inc, id)
<1>1. PICK tk : tk = IdleTask
  OBVIOUS
<1>2. /\ DOMAIN tk = TaskFields /\ tk.status = "idle" /\ tk.stack = << >> /\ tk.leases = {}
  BY <1>1 DEF IdleTask, TaskFields
<1>3. TaskOK(tk, t, ns)
  BY <1>2 DEF TaskOK, BottomOK
<1> QED
  BY <1>1, <1>2, <1>3 DEF Joins

\* A slot takes the host's next request.
LEMMA StartRequestKeeps ==
  ASSUME EngineInv, NEW t \in Tasks, StartRequest(t)
  PROVE  EngineInv'
<1>1. /\ StateOK(nodes, index, tasks, host) /\ HostOK(host) /\ DOMAIN tasks = Tasks
      /\ TaskOK(tasks[t], t, nodes) /\ NodesOK(nodes)
  BY DEF EngineInv, StateOK
<1>2. host.asks \in Seq(Keys \X RevIds) /\ host.asks # << >>
  BY <1>1 DEF HostOK, StartRequest
<1>3. PICK ask : ask = Head(host.asks)
  OBVIOUS
<1>4. ask[1] \in Keys /\ ask[2] \in RevIds /\ Tail(host.asks) \in Seq(Keys \X RevIds)
  BY <1>2, <1>3
<1>5. PICK f : f = QueryFrame(ask[1], TRUE)
  OBVIOUS
<1>6. /\ DOMAIN f = QueryFields /\ f.kind = "query" /\ f.key = ask[1] /\ f.inc = 0 /\ f.obs = TRUE /\ f.pc = "enter"
  BY <1>5 DEF QueryFrame, QueryFields
<1>7. FrameOK(f, t, nodes)
  BY <1>1, <1>4, <1>6 DEF FrameOK, QueryOK, QueryFields, NodesOK, Listed
<1>8. PICK s : s = <<f>>
  OBVIOUS
<1>9. Listed(s) /\ Len(s) = 1 /\ s[1] = f
  BY <1>8 DEF Listed
<1>10. StackOK(s, t, nodes)
  BY <1>6, <1>7, <1>9 DEF StackOK
<1>11. PICK tk : tk = [IdleTask EXCEPT !.status = "running", !.key = ask[1], !.rev = ask[2], !.stack = s]
  OBVIOUS
<1>12. /\ DOMAIN tk = TaskFields /\ tk.status = "running" /\ tk.rev = ask[2] /\ tk.stack = s /\ tk.leases = {}
       /\ \A key \in Keys : tk.cache[key] = {}
  BY <1>11 DEF IdleTask, TaskFields
<1>13. TaskOK(tk, t, nodes)
  BY <1>4, <1>6, <1>9, <1>10, <1>12 DEF TaskOK, BottomOK
<1>14. tasks' = [tasks EXCEPT ![t] = tk] /\ nodes' = nodes /\ index' = index
  BY <1>3, <1>5, <1>8, <1>11, Zenon DEF StartRequest
<1>15. HostOK(host')
  <2>1. host' = [host EXCEPT !.asks = Tail(host.asks)]
    BY DEF StartRequest
  <2> QED
    BY <1>1, <1>4, <2>1 DEF HostOK
<1>16. Only(t, tasks, tasks') /\ tasks'[t] = tk
  BY <1>1, <1>14 DEF Only
<1>17. tasks[t].status = "idle" /\ tasks[t].stack = << >>
  BY <1>1 DEF StartRequest, TaskOK
<1>18. Holds(tasks[t].stack, tasks'[t].stack)
  <2>1. Len(tasks[t].stack) = 0
    BY <1>17, EmptyListed
  <2> QED
    BY <2>1 DEF Holds, BodyOn, LeaseOn
<1>19. \A inc, id : Joins(tasks'[t], inc, id) <=> Joins(tasks[t], inc, id)
  BY <1>6, <1>9, <1>12, <1>16, <1>17 DEF Joins, JoinsAt
<1>20. StateOK(nodes, index, tasks', host')
  BY <1>1, <1>13, <1>15, <1>16, <1>18, <1>19, QuietStep, Zenon
<1> QED
  BY <1>14, <1>20 DEF EngineInv

\* The host drops an answer.
LEMMA FinishRequestKeeps ==
  ASSUME EngineInv, NEW t \in Tasks, FinishRequest(t)
  PROVE  EngineInv'
<1>1. /\ StateOK(nodes, index, tasks, host) /\ HostOK(host) /\ DOMAIN tasks = Tasks
      /\ TaskOK(tasks[t], t, nodes)
  BY DEF EngineInv, StateOK
<1>2. /\ tasks' = [tasks EXCEPT ![t] = IdleTask] /\ nodes' = nodes /\ index' = index /\ host' = host
      /\ tasks[t].status = "done"
  BY DEF FinishRequest
<1>3. Only(t, tasks, tasks') /\ tasks'[t] = IdleTask
  BY <1>1, <1>2 DEF Only
<1>4. tasks[t].stack = << >>
  BY <1>1, <1>2 DEF TaskOK
<1>5. Holds(tasks[t].stack, tasks'[t].stack)
  BY <1>3, <1>4, IdleOK DEF Holds
<1>6. \A inc, id : Joins(tasks'[t], inc, id) <=> Joins(tasks[t], inc, id)
  BY <1>2, <1>3, IdleOK DEF Joins
<1>7. TaskOK(tasks'[t], t, nodes)
  BY <1>3, IdleOK
<1>8. StateOK(nodes, index, tasks', host)
  BY <1>1, <1>3, <1>5, <1>6, <1>7, QuietStep, Zenon
<1> QED
  BY <1>2, <1>8 DEF EngineInv

\* The host cancels a request.
LEMMA CancelKeeps ==
  ASSUME EngineInv, NEW t \in Tasks, Cancel(t)
  PROVE  EngineInv'
<1>1. /\ StateOK(nodes, index, tasks, host) /\ HostOK(host) /\ DOMAIN tasks = Tasks
      /\ TaskOK(tasks[t], t, nodes)
  BY DEF EngineInv, StateOK
<1>2. /\ tasks' = [tasks EXCEPT ![t].canceled = TRUE] /\ nodes' = nodes /\ index' = index
      /\ host' = [host EXCEPT !.cancels = host.cancels - 1]
  BY DEF Cancel
<1>3. PICK tk : tk = tasks'[t]
  OBVIOUS
<1>4. Only(t, tasks, tasks')
  BY <1>1, <1>2 DEF Only
<1>5. TaskFields \subseteq DOMAIN tasks[t]
  BY <1>1 DEF TaskOK
<1>6. /\ DOMAIN tk = DOMAIN tasks[t] /\ tk.status = tasks[t].status /\ tk.stack = tasks[t].stack
      /\ tk.rev = tasks[t].rev /\ tk.leases = tasks[t].leases /\ tk.ret = tasks[t].ret
      /\ tk.cache = tasks[t].cache
  BY <1>1, <1>2, <1>3, <1>5 DEF TaskFields
<1>7. TaskOK(tk, t, nodes)
  BY <1>1, <1>6 DEF TaskOK, BottomOK
<1>8. Holds(tasks[t].stack, tk.stack) /\ \A inc, id : Joins(tk, inc, id) <=> Joins(tasks[t], inc, id)
  BY <1>6 DEF Holds, Joins
<1>9. HostOK(host')
  BY <1>1, <1>2 DEF HostOK
<1>10. /\ Holds(tasks[t].stack, tasks'[t].stack) /\ TaskOK(tasks'[t], t, nodes)
       /\ \A inc, id : Joins(tasks'[t], inc, id) <=> Joins(tasks[t], inc, id)
  BY <1>3, <1>7, <1>8
<1>11. StateOK(nodes, index, tasks', host')
  BY <1>1, <1>4, <1>9, <1>10, QuietStep, Zenon
<1> QED
  BY <1>2, <1>11 DEF EngineInv

\* What a task guards, retention finds pinned.
LEMMA GuardsPin ==
  ASSUME NEW v \in Tasks, TaskOK(tasks[v], v, nodes), NEW inc, NEW id, Guards(tasks[v], inc, id)
  PROVE  Pinned(inc, id)
<1>1. Listed(tasks[v].stack)
  BY EmptyListed DEF TaskOK, StackOK
<1>2. DOMAIN tasks[v].stack = 1 .. Len(tasks[v].stack)
  BY <1>1, ListedSeq
<1> QED
  BY <1>2 DEF Guards, Pinned, Stack

\* Evicting a terminal that nothing needs.
LEMMA EvictKeeps ==
  ASSUME EngineInv, NEW inc \in DOMAIN nodes, Evict(inc)
  PROVE  EngineInv'
<1>1. /\ StateOK(nodes, index, tasks, host) /\ NodesOK(nodes) /\ IndexOK(index, nodes) /\ HostOK(host)
      /\ DOMAIN tasks = Tasks /\ (\A v \in Tasks : TaskOK(tasks[v], v, nodes))
      /\ CountsOK(nodes, tasks) /\ OwnersOK(nodes, tasks) /\ MemoOK(index, nodes, tasks)
  BY DEF EngineInv, StateOK
<1>2. PICK n : n = nodes[inc]
  OBVIOUS
<1>3. inc \in 1 .. Len(nodes) /\ Len(nodes) \in Nat /\ Sound(n) /\ Listed(n.attempts)
  BY <1>1, <1>2, ListedSeq DEF NodesOK, NodeOK, Sound, Listed
<1>4. PICK p \in Computed(inc) :
        /\ Attempts(inc)[p].waiters = 0 /\ ~Pinned(inc, Attempts(inc)[p].id)
        /\ nodes' = [nodes EXCEPT ![inc] = RemoveAttempt(nodes[inc], p)]
        /\ index' = IF Retires(RemoveAttempt(nodes[inc], p), tasks, inc)
                    THEN [index EXCEPT ![nodes[inc].key] = 0] ELSE index
  BY Zenon DEF Evict
<1>5. p \in 1 .. Len(n.attempts) /\ Ended(n.attempts[p])
  BY <1>2, <1>3, <1>4, ListedSeq DEF Computed, Computing, Attempts, Ended
<1>6. PICK id : id = n.attempts[p].id
  OBVIOUS
<1>7. ~Pinned(inc, id)
  BY <1>2, <1>4, <1>6 DEF Attempts
<1>8. PICK n2 : n2 = RemoveAttempt(n, p)
  OBVIOUS
<1>9. Removed(n, p, n2)
  BY <1>3, <1>5, <1>8, AttemptRemoved
<1>10. /\ Sound(n2) /\ n2.key = n.key /\ n2.next_attempt = n.next_attempt
       /\ Len(n2.attempts) = Len(n.attempts) - 1
       /\ \A i \in 1 .. Len(n2.attempts) : n2.attempts[i] = n.attempts[IF i < p THEN i ELSE i + 1]
       /\ \A k : Retains(n2, k) <=> Retains(n, k) /\ k # id
       /\ \A k, t : Computes(n2, k, t) <=> Computes(n, k, t) /\ k # id
  BY <1>6, <1>9 DEF Removed
<1>11. Written(nodes, inc, n2, nodes')
  <2>1. Follows(nodes[inc], n2)
    BY <1>2, <1>3, <1>10 DEF Follows, Sound, NodeOK
  <2>2. Writes(nodes, inc, n2, nodes')
    BY <1>2, <1>4, <1>8 DEF Writes
  <2> QED
    BY <1>1, <1>3, <2>1, <2>2, TableWritten, Zenon
<1>12. /\ NodesOK(nodes') /\ Grows(nodes, nodes') /\ Len(nodes') = Len(nodes) /\ nodes'[inc] = n2
       /\ \A i \in 1 .. Len(nodes) : i # inc => nodes'[i] = nodes[i]
  BY <1>11 DEF Written
<1>13. \A t : Computes(n2, id, t) <=> Computes(n, id, t)
  <2>1. \A t : ~Computes(n, id, t)
    BY <1>3, <1>5, <1>6 DEF Computes, Sound, NodeOK
  <2> QED
    BY <1>10, <2>1
<1>14. \A i, k, t : ComputesIn(nodes', i, k, t) <=> ComputesIn(nodes, i, k, t)
  BY <1>2, <1>10, <1>12, <1>13 DEF ComputesIn
<1>15. \A v \in Tasks : TaskOK(tasks[v], v, nodes')
  <2>1. SUFFICES ASSUME NEW v \in Tasks PROVE TaskOK(tasks[v], v, nodes')
    OBVIOUS
  <2>2. TaskOK(tasks[v], v, nodes)
    BY <1>1
  <2>3. ASSUME NEW i, NEW k, RetainsIn(nodes, i, k), Guards(tasks[v], i, k)
        PROVE  RetainsIn(nodes', i, k)
    <3>1. Pinned(i, k)
      BY <2>2, <2>3, GuardsPin
    <3>2. ~(i = inc /\ k = id)
      BY <1>7, <3>1
    <3> QED
      BY <1>2, <1>10, <1>12, <2>3, <3>2 DEF RetainsIn
  <2>4. \A i, k : ComputesIn(nodes, i, k, v) => ComputesIn(nodes', i, k, v)
    BY <1>14
  <2> QED
    BY <1>12, <2>2, <2>3, <2>4, TaskKept
<1>16. CountsOK(nodes', tasks)
  <2>1. SUFFICES ASSUME NEW i \in 1 .. Len(nodes), NEW j \in 1 .. Len(nodes'[i].attempts)
                 PROVE  nodes'[i].attempts[j].waiters = Cardinality(Joiners(tasks, i, nodes'[i].attempts[j].id))
    BY <1>12 DEF CountsOK
  <2>2. CASE i # inc
    <3>1. nodes'[i] = nodes[i]
      BY <1>12, <2>2
    <3> QED
      BY <1>1, <2>1, <3>1 DEF CountsOK
  <2>3. CASE i = inc
    <3>1. PICK l : l = IF j < p THEN j ELSE j + 1
      OBVIOUS
    <3>2. nodes'[i].attempts[j] = n.attempts[l] /\ l \in 1 .. Len(n.attempts)
      BY <1>3, <1>5, <1>10, <1>12, <2>1, <2>3, <3>1 DEF Listed
    <3> QED
      BY <1>1, <1>2, <2>1, <2>3, <3>2 DEF CountsOK
  <2> QED
    BY <2>2, <2>3
<1>17. OwnersOK(nodes', tasks)
  BY <1>1, <1>14 DEF OwnersOK
<1>18. /\ DOMAIN index = Keys /\ DOMAIN index' = Keys
       /\ \A k \in Keys : index'[k] = index[k] \/ index'[k] = 0
  BY <1>1, <1>4 DEF IndexOK
<1>19. IndexOK(index', nodes')
  <2>1. SUFFICES ASSUME NEW k \in Keys
                 PROVE  index'[k] \in 0 .. Len(nodes') /\ (index'[k] # 0 => nodes'[index'[k]].key = k)
    BY <1>18 DEF IndexOK
  <2>2. CASE index'[k] = 0
    BY <1>3, <1>12, <2>2
  <2>3. CASE index'[k] # 0
    BY <1>1, <1>2, <1>10, <1>12, <1>18, <2>3 DEF IndexOK
  <2> QED
    BY <2>2, <2>3
<1>20. MemoOK(index', nodes', tasks)
  <2>1. SUFFICES ASSUME NEW k \in Keys, index'[k] # 0, nodes'[index'[k]].attempts = << >>
                 PROVE  \E v \in Tasks : LeaseOn(tasks[v].stack, index'[k])
    BY DEF MemoOK
  <2>2. index'[k] = index[k] /\ index[k] \in 1 .. Len(nodes) /\ nodes[index[k]].key = k
    BY <1>1, <1>18, <2>1 DEF IndexOK
  <2>3. CASE index[k] # inc
    BY <1>1, <1>12, <2>1, <2>2, <2>3 DEF MemoOK
  <2>4. CASE index[k] = inc
    <3>1. n2.attempts = << >> /\ n2.key = k
      BY <1>2, <1>10, <1>12, <2>1, <2>2, <2>4
    <3>2. ~Retires(n2, tasks, inc)
      <4>1. SUFFICES ASSUME Retires(n2, tasks, inc) PROVE FALSE
        OBVIOUS
      <4>2. index' = [index EXCEPT ![k] = 0]
        BY <1>2, <1>4, <1>8, <2>2, <2>4, <4>1
      <4> QED
        BY <1>18, <2>1, <4>2
    <3>3. Leased(tasks, inc)
      BY <2>4, <3>1, <3>2 DEF Retires
    <3> QED
      BY <1>1, <2>2, <2>4, <3>3, LeasedOn
  <2> QED
    BY <2>3, <2>4
<1>21. HostOK(host') /\ tasks' = tasks
  <2>1. host' = [host EXCEPT !.evictions = host.evictions - 1] /\ tasks' = tasks
    BY DEF Evict
  <2> QED
    BY <1>1, <2>1 DEF HostOK
<1>22. StateOK(nodes', index', tasks, host')
  BY <1>1, <1>12, <1>15, <1>16, <1>17, <1>19, <1>20, <1>21 DEF StateOK
<1> QED
  BY <1>21, <1>22 DEF EngineInv

-----------------------------------------------------------------------------
(* The engine *)

\* It starts without nodes and requests.
LEMMA EngineStarts ==
  ASSUME Init
  PROVE  EngineInv
<1>1. /\ nodes = << >> /\ index = [key \in Keys |-> 0] /\ tasks = [t \in Tasks |-> IdleTask]
      /\ host \in Scenarios
  BY DEF Init
<1>2. Listed(nodes) /\ Len(nodes) = 0
  BY <1>1, EmptyListed
<1>3. NodesOK(nodes) /\ IndexOK(index, nodes) /\ MemoOK(index, nodes, tasks)
  BY <1>1, <1>2 DEF NodesOK, IndexOK, MemoOK
<1>4. HostOK(host)
  BY <1>1, EngineAssumption DEF HostOK
<1>5. DOMAIN tasks = Tasks /\ \A t \in Tasks : TaskOK(tasks[t], t, nodes)
  BY <1>1, IdleOK
<1>6. CountsOK(nodes, tasks) /\ OwnersOK(nodes, tasks)
  BY <1>2 DEF CountsOK, OwnersOK, ComputesIn
<1> QED
  BY <1>3, <1>4, <1>5, <1>6 DEF EngineInv, StateOK

\* Every operation keeps what it keeps.
LEMMA EngineKeeps ==
  ASSUME EngineInv, [Next]_vars
  PROVE  EngineInv'
<1>1. CASE UNCHANGED vars
  BY <1>1 DEF vars, EngineInv
<1>2. CASE \E inc \in DOMAIN nodes : Evict(inc)
  BY <1>2, EvictKeeps
<1>3. ASSUME NEW t \in Tasks, TaskStep(t) \/ StartRequest(t) \/ FinishRequest(t) \/ Cancel(t)
      PROVE  EngineInv'
  <2>1. CASE EnterCached(t)
    BY <2>1, EnterCachedKeeps
  <2>2. CASE EnterNode(t)
    BY <2>2, EnterNodeKeeps
  <2>3. CASE Find(t)
    BY <2>3, FindKeeps
  <2>4. CASE Claim(t)
    BY <2>4, ClaimStep
  <2>5. CASE Join(t)
    BY <2>5, JoinKeeps
  <2>6. CASE Wake(t)
    BY <2>6, WakeKeeps
  <2>7. CASE ValidateDependency(t)
    BY <2>7, ValidateDependencyKeeps
  <2>8. CASE Reuse(t)
    BY <2>8, ReuseKeeps
  <2>9. CASE ReadInput(t)
    BY <2>9, ReadInputKeeps
  <2>10. CASE Publish(t)
    BY <2>10, PublishKeeps
  <2>11. CASE AbortBody(t)
    BY <2>11, AbortBodyKeeps
  <2>12. CASE Return(t)
    BY <2>12, ReturnKeeps
  <2>13. CASE StartRequest(t)
    BY <2>13, StartRequestKeeps
  <2>14. CASE FinishRequest(t)
    BY <2>14, FinishRequestKeeps
  <2>15. CASE Cancel(t)
    BY <2>15, CancelKeeps
  <2> QED
    BY <1>3, <2>1, <2>2, <2>3, <2>4, <2>5, <2>6, <2>7, <2>8, <2>9, <2>10, <2>11, <2>12, <2>13, <2>14, <2>15
       DEF TaskStep
<1> QED
  BY <1>1, <1>2, <1>3 DEF Next

\* The inductive invariant: of the nodes and their attempts, the tasks' stacks and
\* leases, the counts of waiters, the owners of computations and the memo.
THEOREM EngineKeepsInv == Spec => []EngineInv
<1>1. Init => EngineInv
  BY EngineStarts
<1>2. EngineInv /\ [Next]_vars => EngineInv'
  BY EngineKeeps
<1> QED
  BY <1>1, <1>2, PTL DEF Spec

-----------------------------------------------------------------------------
(* What follows from it *)

\* The domains of the engine's sequences.
LEMMA EngineDomains ==
  ASSUME EngineInv
  PROVE  /\ DOMAIN nodes = 1 .. Len(nodes) /\ Len(nodes) \in Nat
         /\ \A inc \in 1 .. Len(nodes) : /\ DOMAIN Attempts(inc) = 1 .. Len(nodes[inc].attempts)
                                         /\ NodeOK(nodes[inc]) /\ StampsOK(nodes[inc]) /\ CertificateOK(nodes[inc])
         /\ \A t \in Tasks : DOMAIN Stack(t) = 1 .. Len(tasks[t].stack) /\ TaskOK(tasks[t], t, nodes)
<1>1. NodesOK(nodes) /\ Listed(nodes) /\ \A t \in Tasks : TaskOK(tasks[t], t, nodes)
  BY DEF EngineInv, StateOK, NodesOK
<1>2. DOMAIN nodes = 1 .. Len(nodes) /\ Len(nodes) \in Nat
  BY <1>1, ListedSeq DEF Listed
<1>3. ASSUME NEW inc \in 1 .. Len(nodes)
      PROVE  /\ DOMAIN Attempts(inc) = 1 .. Len(nodes[inc].attempts)
             /\ NodeOK(nodes[inc]) /\ StampsOK(nodes[inc]) /\ CertificateOK(nodes[inc])
  <2>1. NodeOK(nodes[inc]) /\ StampsOK(nodes[inc]) /\ CertificateOK(nodes[inc]) /\ Listed(nodes[inc].attempts)
    BY <1>1 DEF NodesOK, NodeOK
  <2> QED
    BY <2>1, ListedSeq DEF Attempts
<1>4. ASSUME NEW t \in Tasks
      PROVE  DOMAIN Stack(t) = 1 .. Len(tasks[t].stack)
  <2>1. Listed(tasks[t].stack)
    BY <1>1, EmptyListed DEF TaskOK, StackOK
  <2> QED
    BY <2>1, ListedSeq DEF Stack
<1> QED
  BY <1>1, <1>2, <1>3, <1>4

\* An attempt's waiters are the tasks that join it.
LEMMA InvCounts ==
  ASSUME EngineInv
  PROVE  WaitersCounted
<1>1. TypeOK
  <2>1. \A key \in Keys : index[key] \in 0 .. Len(nodes)
    BY DEF EngineInv, StateOK, IndexOK
  <2>2. ASSUME NEW inc \in DOMAIN nodes
        PROVE  /\ nodes[inc].key \in Keys
               /\ \A i \in DOMAIN Attempts(inc) :
                    /\ Attempts(inc)[i].id \in 1 .. nodes[inc].next_attempt - 1
                    /\ Attempts(inc)[i].rev \in RevIds
                    /\ Attempts(inc)[i].owner \in Tasks
                    /\ Attempts(inc)[i].waiters \in Nat
    BY <2>2, EngineDomains DEF NodeOK, AttemptOK, Attempts
  <2>3. \A t \in Tasks : tasks[t].status \in {"idle", "running", "done"}
    BY EngineDomains DEF TaskOK
  <2> QED
    BY <2>1, <2>2, <2>3 DEF TypeOK
<1>2. ASSUME NEW inc \in DOMAIN nodes, NEW i \in DOMAIN Attempts(inc)
      PROVE  Attempts(inc)[i].waiters =
               Cardinality({t \in Tasks : /\ Running(t) /\ Top(t).kind = "query"
                                          /\ Top(t).pc \in {"join", "parked"}
                                          /\ Top(t).inc = inc /\ Top(t).attempt = Attempts(inc)[i].id})
  <2>1. PICK id : id = Attempts(inc)[i].id
    OBVIOUS
  <2>2. PICK joiners : joiners = {t \in Tasks : /\ Running(t) /\ Top(t).kind = "query"
                                                /\ Top(t).pc \in {"join", "parked"}
                                                /\ Top(t).inc = inc /\ Top(t).attempt = id}
    OBVIOUS
  <2>3. ASSUME NEW t \in Tasks
        PROVE  t \in joiners <=> t \in Joiners(tasks, inc, id)
    <3>1. CASE tasks[t].status = "running"
      <4>1. Stands(t, Stack(t), Below(t), Top(t))
        BY <3>1, TaskStands, Zenon
      <4>2. Top(t) = tasks[t].stack[Len(tasks[t].stack)]
        BY <4>1 DEF Stands, Stacked
      <4> QED
        BY <2>2, <3>1, <4>2 DEF Joiners, Joins, JoinsAt, Running
    <3>2. CASE tasks[t].status # "running"
      BY <2>2, <3>2 DEF Joiners, Joins, Running
    <3> QED
      BY <3>1, <3>2
  <2>4. joiners = Joiners(tasks, inc, id)
    BY <2>2, <2>3 DEF Joiners
  <2>5. inc \in 1 .. Len(nodes) /\ i \in 1 .. Len(nodes[inc].attempts)
    BY <1>2, EngineDomains
  <2>6. nodes[inc].attempts[i].waiters = Cardinality(Joiners(tasks, inc, nodes[inc].attempts[i].id))
    BY <2>5 DEF EngineInv, StateOK, CountsOK
  <2>7. Attempts(inc)[i].waiters = Cardinality(joiners)
    BY <2>1, <2>4, <2>6 DEF Attempts
  <2> QED
    BY <2>1, <2>2, <2>7, Zenon
<1> QED
  BY <1>1, <1>2, Zenon DEF WaitersCounted

\* Computations have a body, and the memo keeps what is in use.
LEMMA InvOwners ==
  ASSUME EngineInv
  PROVE  NoOrphans
<1>1. ASSUME NEW inc \in DOMAIN nodes, NEW i \in DOMAIN Attempts(inc), Computing(Attempts(inc)[i])
      PROVE  \E j \in DOMAIN Stack(Attempts(inc)[i].owner) :
               LET f == Stack(Attempts(inc)[i].owner)[j]
               IN f.kind = "body" /\ f.inc = inc /\ f.attempt = Attempts(inc)[i].id
  <2>1. PICK a : a = nodes[inc].attempts[i]
    OBVIOUS
  <2>2. a = Attempts(inc)[i]
    BY <2>1 DEF Attempts
  <2>3. inc \in 1 .. Len(nodes) /\ i \in 1 .. Len(nodes[inc].attempts) /\ a.owner \in Tasks
    BY <1>1, <2>1, EngineDomains DEF NodeOK, AttemptOK
  <2>4. ComputesIn(nodes, inc, a.id, a.owner)
    BY <1>1, <2>1, <2>2, <2>3 DEF ComputesIn, Computes, Ended, Computing
  <2>5. BodyOn(tasks[a.owner].stack, inc, a.id)
    BY <2>3, <2>4 DEF EngineInv, StateOK, OwnersOK
  <2>6. DOMAIN Stack(a.owner) = 1 .. Len(tasks[a.owner].stack)
    BY <2>3, EngineDomains
  <2> QED
    BY <2>2, <2>5, <2>6 DEF BodyOn, Stack
<1>2. ASSUME NEW key \in Keys, index[key] # 0
      PROVE  Attempts(index[key]) # << >> \/ Leased(tasks, index[key])
  <2>1. CASE Attempts(index[key]) # << >>
    BY <2>1
  <2>2. CASE \E t \in Tasks : LeaseOn(tasks[t].stack, index[key])
    <3>1. PICK t \in Tasks : LeaseOn(tasks[t].stack, index[key])
      BY <2>2
    <3>2. DOMAIN tasks[t].stack = 1 .. Len(tasks[t].stack)
      BY EngineDomains DEF Stack
    <3> QED
      BY <3>1, <3>2 DEF LeaseOn, Leased
  <2> QED
    BY <1>2, <2>1, <2>2 DEF EngineInv, StateOK, MemoOK, Attempts
<1> QED
  BY <1>1, <1>2, Zenon DEF NoOrphans

\* What is leased, or under validation, is retained.
LEMMA InvProtects ==
  ASSUME EngineInv
  PROVE  ProtectedStayRetained
<1>1. ASSUME NEW inc, NEW id, RetainsIn(nodes, inc, id)
      PROVE  HasAttempt(inc, id)
  <2>1. inc \in 1 .. Len(nodes) /\ Retains(nodes[inc], id)
    BY <1>1 DEF RetainsIn
  <2>2. DOMAIN Attempts(inc) = 1 .. Len(nodes[inc].attempts)
    BY <2>1, EngineDomains
  <2> QED
    BY <2>1, <2>2 DEF Retains, HasAttempt, Attempts
<1>2. ASSUME NEW t \in Tasks, NEW lease \in tasks[t].leases
      PROVE  HasAttempt(lease[1], lease[2])
  <2>1. RetainsIn(nodes, lease[1], lease[2])
    BY <1>2, EngineDomains DEF TaskOK
  <2> QED
    BY <1>1, <2>1
<1>3. ASSUME NEW t \in Tasks, NEW i \in DOMAIN Stack(t), Stack(t)[i].kind = "validate"
      PROVE  HasAttempt(Stack(t)[i].inc, Stack(t)[i - 1].attempt)
  <2>1. PICK s : s = tasks[t].stack
    OBVIOUS
  <2>2. i \in 1 .. Len(s) /\ s = Stack(t) /\ TaskOK(tasks[t], t, nodes)
    BY <1>3, <2>1, EngineDomains DEF Stack
  <2>3. tasks[t].status = "running"
    <3>1. s # << >>
      BY <2>2, EmptyListed
    <3> QED
      BY <2>1, <2>2, <3>1 DEF TaskOK
  <2>4. StackOK(s, t, nodes) /\ Len(s) \in Nat
    BY <2>1, <2>2, <2>3 DEF TaskOK, StackOK, Listed
  <2>5. i # 1
    BY <1>3, <2>2, <2>4 DEF StackOK
  <2>6. i - 1 \in 1 .. Len(s) - 1 /\ (i - 1) + 1 = i
    BY <2>2, <2>4, <2>5
  <2>7. Above(s[i - 1], s[i], nodes)
    BY <2>4, <2>6 DEF StackOK
  <2>8. s[i].inc = s[i - 1].inc /\ RetainsIn(nodes, s[i - 1].inc, s[i - 1].attempt)
    BY <1>3, <2>2, <2>7 DEF Above
  <2> QED
    BY <1>1, <2>2, <2>8
<1> QED
  BY <1>2, <1>3, Zenon DEF ProtectedStayRetained

\* Stamps name values.
LEMMA InvStamps ==
  ASSUME EngineInv
  PROVE  StampsNameValues
<1>1. SUFFICES ASSUME NEW inc \in DOMAIN nodes, NEW i \in Computed(inc), NEW j \in Computed(inc),
                      Attempts(inc)[i].terminal.stamp = Attempts(inc)[j].terminal.stamp
               PROVE  /\ Attempts(inc)[i].terminal.value = Attempts(inc)[j].terminal.value
                      /\ Attempts(inc)[i].terminal.missing = Attempts(inc)[j].terminal.missing
  BY Zenon DEF StampsNameValues
<1>2. inc \in 1 .. Len(nodes) /\ StampsOK(nodes[inc]) /\ DOMAIN Attempts(inc) = 1 .. Len(nodes[inc].attempts)
  BY EngineDomains
<1>3. /\ i \in 1 .. Len(nodes[inc].attempts) /\ Ended(nodes[inc].attempts[i])
      /\ j \in 1 .. Len(nodes[inc].attempts) /\ Ended(nodes[inc].attempts[j])
  BY <1>2 DEF Computed, Computing, Attempts, Ended
<1> QED
  BY <1>1, <1>2, <1>3 DEF StampsOK, Attempts

\* An attempt counts exactly the tasks that join it: decrement_waiter's assertion
\* never fails, and retention waits for nobody who has left.
THEOREM EngineCountsWaiters == Spec => []WaitersCounted
<1>1. EngineInv => WaitersCounted
  BY InvCounts
<1> QED
  BY <1>1, EngineKeepsInv, PTL

\* Every computation has a body that ends it, and every node of the memo is in use.
THEOREM EngineLeavesNoOrphans == Spec => []NoOrphans
<1>1. EngineInv => NoOrphans
  BY InvOwners
<1> QED
  BY <1>1, EngineKeepsInv, PTL

\* What a request observed, and what a validation works on, is not evicted.
THEOREM EngineProtects == Spec => []ProtectedStayRetained
<1>1. EngineInv => ProtectedStayRetained
  BY InvProtects
<1> QED
  BY <1>1, EngineKeepsInv, PTL

\* A stamp of an incarnation names one value and one purity.
THEOREM EngineStamps == Spec => []StampsNameValues
<1>1. EngineInv => StampsNameValues
  BY InvStamps
<1> QED
  BY <1>1, EngineKeepsInv, PTL

\* remove_attempt and mark_validated: a certificate is of a terminal that the node
\* retains, so what it lets a request reuse is there.
CertificatesBacked ==
  \A inc \in DOMAIN nodes : nodes[inc].validated_at # NoCertificate =>
    \E i \in Computed(inc) :
      /\ Attempts(inc)[i].terminal.stamp = nodes[inc].validated_at.stamp
      /\ Attempts(inc)[i].terminal.rev = nodes[inc].validated_at.terminal_rev

\* No certificate outlives the terminals it was given for.
THEOREM EngineBacksCertificates == Spec => []CertificatesBacked
<1>1. ASSUME EngineInv
      PROVE  CertificatesBacked
  <2>1. SUFFICES ASSUME NEW inc \in DOMAIN nodes, nodes[inc].validated_at # NoCertificate
                 PROVE  \E i \in Computed(inc) :
                          /\ Attempts(inc)[i].terminal.stamp = nodes[inc].validated_at.stamp
                          /\ Attempts(inc)[i].terminal.rev = nodes[inc].validated_at.terminal_rev
    BY Zenon DEF CertificatesBacked
  <2>2. CertificateOK(nodes[inc]) /\ DOMAIN Attempts(inc) = 1 .. Len(nodes[inc].attempts)
    BY <1>1, EngineDomains
  <2> QED
    BY <2>1, <2>2 DEF CertificateOK, Backs, Computed, Computing, Ended, Attempts
<1>2. EngineInv => CertificatesBacked
  BY <1>1
<1> QED
  BY <1>2, EngineKeepsInv, PTL
=============================================================================
