---------------------------- MODULE BatchesProofs ----------------------------
(* Permits, slots and batches are exact, batches are scopes and answers are
   complete, for any number of requests, queries, items and permits. *)
EXTENDS Batches, FiniteSetTheorems, SequenceTheorems, WellFoundedInduction, TLAPS

\* Every leaf may take its time.
USE SMTT(120), ZenonT(120)

\* A height of each query above the queries it demands.
Rank == CHOOSE rank \in [Queries -> 0 .. Cardinality(Queries)] :
          \A q \in Queries : \A i \in DOMAIN Demands[q] : rank[Demands[q][i]] < rank[q]

Hows == {"ok", "aborted", "panic", "retry"}
FrameRec == [q : Queries, task : Tasks \cup {<<>>}, token : Roots, pc : PCs, acquired : BOOLEAN,
             donated : BOOLEAN, next : Nat, claim : Nat, how : Hows]
BatchRec == [queue : Seq(Nat), out : Int, worst : {"ok", "aborted", "panic"}]

\* The frame has claimed its query; it is past acquire_permit; its batch may have
\* anything running; it has slots.
OwnPCs == {"acquire", "body", "sequence", "donate", "dispatch", "lane", "join_jobs", "reacquire", "absorb", "end"}
PermitPCs == OwnPCs \ {"acquire"}
ScopePCs == {"dispatch", "lane", "join_jobs"}
ClaimPCs == {"donate", "dispatch", "lane", "join_jobs", "reacquire", "absorb"}
BatchPCs == ClaimPCs \ {"donate"}

Shapes ==
  /\ maximum \in Budgets
  /\ node \in [Queries -> {"none", "computing", "terminal"}]
  /\ owner \in [Queries -> Tasks \cup {<<>>}]
  /\ attempt \in [Queries -> Nat]
  /\ stack \in [Threads -> Seq(FrameRec)]
  /\ owns \subseteq Tasks /\ used \in Int /\ slots \in Int
  /\ batch \in [Queries -> BatchRec]
  /\ jobs \in Seq(FrameRec)
  /\ born \subseteq Workers /\ gone \subseteq born /\ open \in BOOLEAN
  /\ waits \subseteq Tasks \X Tasks
  /\ canceled \subseteq Roots
  /\ result \in [Roots -> {"none", "ok", "aborted", "panic"}]

\* A lane as a worker runs it.
Lane0(f) == f.pc = "lane" /\ f.task = <<>> /\ f.claim = 0 /\ f.acquired = FALSE

\* Frame g runs on top of frame f.
Above(f, g) ==
  \/ /\ f.pc = "sequence" /\ f.next \in DOMAIN Demands[f.q]
     /\ g.task = f.task /\ g.q = Demands[f.q][f.next]
  \/ /\ f.pc = "lane"
     /\ \E k \in DOMAIN Demands[f.q] : g.task = <<f.q, k>> /\ g.q = Demands[f.q][k]

\* What a frame's own fields say.
Local(f) ==
  /\ f.pc \in {"look", "acquire", "body", "donate"} => f.next = 1
  /\ f.pc = "sequence" => f.next # 0
  /\ f.pc \notin ClaimPCs => f.claim = 0
  /\ f.pc # "rejoin" => f.how # "retry"
  /\ f.pc = "dispatch" => f.next \in 1 .. f.claim + 1

\* One thread's stack.
Stacked(th, s) ==
  /\ \A i \in 1 .. Len(s) : Local(s[i])
  /\ s # <<>> => IF th \in Workers THEN Lane0(s[1]) ELSE s[1].task = <<th>>
  /\ \A i \in 2 .. Len(s) : s[i].task # <<>> /\ Above(s[i - 1], s[i])
  /\ \A i \in 2 .. Len(s) : s[i - 1].pc = "lane" => \A j \in 1 .. i - 1 : s[j].task # s[i].task
  /\ \A i \in 1 .. Len(s) : \A p \in Queries : \A k \in Nat :
       s[i].task = <<p, k>> => \E j \in 1 .. i - 1 : s[j].pc = "lane" /\ s[j].q = p
  /\ \A i \in 1 .. Len(s) : \A j \in 1 .. i - 1 : Rank[s[i].q] < Rank[s[j].q]

Stacks == \A th \in Threads : Stacked(th, stack[th])

Owner(f) == f.task # <<>> /\ f.pc \in OwnPCs

\* A query is computed by one frame.
Owned ==
  /\ \A t, u \in Threads : \A i \in 1 .. Len(stack[t]) : \A j \in 1 .. Len(stack[u]) :
       Owner(stack[t][i]) /\ Owner(stack[u][j]) /\ stack[t][i].q = stack[u][j].q => t = u /\ i = j
  /\ \A t \in Threads : \A i \in 1 .. Len(stack[t]) : Owner(stack[t][i]) => node[stack[t][i].q] = "computing"
  /\ \A q \in Queries : node[q] = "computing" => owner[q] \in Tasks

\* Different items of q's batch.
Indices(q, s) ==
  /\ \A n \in 1 .. Len(s) : s[n] \in DOMAIN Demands[q]
  /\ \A m, n \in 1 .. Len(s) : s[m] = s[n] => m = n

\* A task runs on one thread, and an item that is queued does not run.
Single ==
  /\ \A t, u \in Threads : \A i \in 1 .. Len(stack[t]) : \A j \in 1 .. Len(stack[u]) :
       stack[t][i].task = stack[u][j].task /\ stack[t][i].task # <<>> => t = u
  /\ \A t \in Threads : \A i \in 1 .. Len(stack[t]) : \A p \in Queries : \A k \in Nat :
       stack[t][i].task = <<p, k>> => \A n \in 1 .. Len(batch[p].queue) : batch[p].queue[n] # k
  /\ \A p \in Queries : Indices(p, batch[p].queue)

First(s, i) == \A j \in 1 .. i - 1 : s[j].task # s[i].task
Last(s, i) == \A j \in i + 1 .. Len(s) : s[j].task # s[i].task

\* Whether the innermost frame of a task has a permit.
Permit(f, first, own) ==
  /\ f.pc \in {"body", "sequence", "donate", "absorb", "end"} => f.task \in own
  /\ f.pc \in {"look", "acquire"} => (f.task \in own <=> ~first)
  /\ f.pc \in {"join", "rejoin"} => f.task \notin own /\ (f.donated <=> ~first)
  /\ f.pc \in {"dispatch", "lane", "join_jobs", "reacquire"} => f.task \notin own /\ f.donated

\* A frame has a permit of its own when it is the outermost one of its task.
Permitted(s, i, own) ==
  s[i].task # <<>> =>
    /\ s[i].acquired <=> First(s, i) /\ s[i].pc \in PermitPCs
    /\ Last(s, i) => Permit(s[i], First(s, i), own)

Permits ==
  /\ IsFiniteSet(owns) /\ used = Cardinality(owns) /\ used <= maximum
  /\ \A t \in Threads : \A i \in 1 .. Len(stack[t]) : Permitted(stack[t], i, owns)
  /\ \A task \in owns : \E t \in Threads : \E i \in 1 .. Len(stack[t]) :
       stack[t][i].task = task /\ stack[t][i].acquired

LanesOf(q) == {w \in Workers : stack[w] # <<>> /\ stack[w][1].q = q}
JobsOf(q) == {i \in 1 .. Len(jobs) : jobs[i].q = q}

\* No more jobs are out than were dispatched.
Within(f, out) ==
  f.task # <<>> =>
    /\ f.pc = "dispatch" => out <= f.next - 1
    /\ f.pc \in {"lane", "join_jobs"} => out <= f.claim

\* A batch's jobs are counted and have a parent that waits for them.
Outs ==
  /\ \A i \in 1 .. Len(jobs) : Lane0(jobs[i]) /\ Local(jobs[i])
  /\ \A q \in Queries : batch[q].out = Cardinality(LanesOf(q)) + Cardinality(JobsOf(q))
  /\ \A q \in Queries : batch[q].out > 0 =>
       \E t \in Threads : \E i \in 1 .. Len(stack[t]) :
         stack[t][i].q = q /\ stack[t][i].task # <<>> /\ stack[t][i].pc \in ScopePCs
  /\ \A t \in Threads : \A i \in 1 .. Len(stack[t]) : Within(stack[t][i], batch[stack[t][i].q].out)

Busy == {w \in Workers : stack[w] # <<>>}

\* The slots claimed by the frames of these stacks, and those among them that jobs
\* of these batches use.
ClaimsOf(st) == {c \in (Threads \X Nat) \X Nat :
                   /\ c[1][2] \in 1 .. Len(st[c[1][1]])
                   /\ c[2] \in 1 .. st[c[1][1]][c[1][2]].claim}
SpentOf(st, bt) == {c \in ClaimsOf(st) : c[2] <= bt[st[c[1][1]][c[1][2]].q].out}

\* Every job under way has a slot, and a thread.
Slotted ==
  /\ IsFiniteSet(ClaimsOf(stack)) /\ slots = Cardinality(ClaimsOf(stack)) /\ slots <= maximum - 1
  /\ Cardinality(SpentOf(stack, batch)) = Len(jobs) + Cardinality(Busy)
Manned ==
  /\ born = 1 .. Cardinality(born) /\ IsFiniteSet(born) /\ Cardinality(born) <= maximum - 1
  /\ Busy \subseteq born \ gone
  /\ gone # {} => ~open /\ jobs = <<>>
  /\ gone = {} => Len(jobs) + Cardinality(Busy) <= Cardinality(born)

\* Item k of q's batch is being evaluated in a lane.
Flying(st, q, k) ==
  \E t \in Threads : \E j \in 1 .. Len(st[t]) - 1 :
    st[t][j].pc = "lane" /\ st[t][j].q = q /\ st[t][j + 1].task = <<q, k>>

\* The answer to item k of q is there, or somebody sees to it.
Cared(q, k, st, nd, bt) ==
  \/ nd[Demands[q][k]] = "terminal"
  \/ \E n \in 1 .. Len(bt[q].queue) : bt[q].queue[n] = k
  \/ Flying(st, q, k)

\* What a frame's position says about the answers to its demands.
Answered(f, st, nd, bt) ==
  /\ f.pc = "sequence" => \A k \in DOMAIN Demands[f.q] : k < f.next => nd[Demands[f.q][k]] = "terminal"
  /\ f.pc = "end" /\ f.how = "ok" => \A k \in DOMAIN Demands[f.q] : nd[Demands[f.q][k]] = "terminal"
  /\ f.pc = "rejoin" /\ f.how = "ok" => nd[f.q] = "terminal"
  /\ f.task # <<>> /\ f.pc \in BatchPCs /\ bt[f.q].worst = "ok" =>
       /\ \A k \in DOMAIN Demands[f.q] : Cared(f.q, k, st, nd, bt)
       /\ f.pc # "dispatch" /\ f.pc # "lane" => bt[f.q].queue = <<>>

Answers ==
  /\ AnswersAreComplete
  /\ \A t \in Threads : \A i \in 1 .. Len(stack[t]) : Answered(stack[t][i], stack, node, batch)

BatchInv == Shapes /\ Stacks /\ Owned /\ Single /\ Permits /\ Outs /\ Slotted /\ Manned /\ Answers


-----------------------------------------------------------------------------
(* Constants and names *)

\* What holds of the constants.
LEMMA Constants ==
  /\ Roots \subseteq Queries
  /\ Demands \in [Queries -> Seq(Queries)]
  /\ \A q \in Queries : \A i \in DOMAIN Demands[q] : i \in Nat \ {0} /\ Demands[q][i] \in Queries
  /\ \A q \in Queries : DOMAIN Demands[q] = 1 .. Len(Demands[q]) /\ Len(Demands[q]) \in Nat
  /\ Roots \cap Workers = {} /\ Threads = Roots \cup Workers
  /\ \A m \in Budgets : m \in Nat \ {0} /\ 1 .. m - 1 \subseteq Workers
  /\ MaxFaults \in Nat
<1>1. /\ Roots \subseteq Queries /\ Demands \in [Queries -> Seq(Queries)] /\ MaxFaults \in Nat
      /\ Budgets \subseteq Nat \ {0} /\ \A m \in Budgets : Roots \cap (1 .. m) = {}
  BY BatchAssumption
<1>2. \A q \in Queries : DOMAIN Demands[q] = 1 .. Len(Demands[q]) /\ Len(Demands[q]) \in Nat
  BY <1>1
<1>3. \A q \in Queries : \A i \in DOMAIN Demands[q] : i \in Nat \ {0} /\ Demands[q][i] \in Queries
  BY <1>1
<1>4. ASSUME NEW x \in Roots, NEW m \in Budgets, x \in 1 .. (m - 1)
      PROVE  FALSE
  BY <1>1, <1>4
<1>5. Roots \cap Workers = {}
  BY <1>4 DEF Workers
<1>6. \A m \in Budgets : 1 .. m - 1 \subseteq Workers
  BY DEF Workers
<1> QED BY <1>1, <1>2, <1>3, <1>5, <1>6 DEF Threads

\* Demands go down in rank.
LEMMA RankFalls ==
  /\ Rank \in [Queries -> Nat]
  /\ \A q \in Queries : \A i \in DOMAIN Demands[q] : Rank[Demands[q][i]] < Rank[q]
<1> DEFINE P(r) == \A q \in Queries : \A i \in DOMAIN Demands[q] : r[Demands[q][i]] < r[q]
           S == [Queries -> 0 .. Cardinality(Queries)]
<1>1. \E r \in S : P(r)
  BY BatchAssumption
<1>2. Rank = CHOOSE r \in S : P(r)
  BY DEF Rank
<1>3. Rank \in S /\ P(Rank)
  <2> HIDE DEF S, P
  <2> QED BY <1>1, <1>2
<1> QED BY <1>3

\* The names of tasks tell them apart.
LEMMA Names ==
  /\ \A x, p, k : <<x>> # <<p, k>> /\ <<x>> # <<>> /\ <<p, k>> # <<>>
  /\ \A x, y : <<x>> = <<y>> => x = y
  /\ \A p, k, q, l : <<p, k>> = <<q, l>> => p = q /\ k = l
<1>1. ASSUME NEW x, NEW p, NEW k
      PROVE  <<x>> # <<p, k>> /\ <<x>> # <<>> /\ <<p, k>> # <<>>
  <2>1. Len(<<x>>) = 1 /\ Len(<<p, k>>) = 2 /\ Len(<<>>) = 0
    OBVIOUS
  <2> QED BY <2>1
<1>2. ASSUME NEW x, NEW y, <<x>> = <<y>> PROVE x = y
  BY <1>2
<1>3. ASSUME NEW p, NEW k, NEW q, NEW l, <<p, k>> = <<q, l>> PROVE p = q /\ k = l
  BY <1>3
<1> QED BY <1>1, <1>2, <1>3

\* Which names are tasks.
LEMMA TaskNames ==
  /\ <<>> \notin Tasks
  /\ \A r \in Roots : <<r>> \in Tasks
  /\ \A q \in Queries : \A k \in DOMAIN Demands[q] : <<q, k>> \in Tasks
  /\ \A q \in Queries : Items(q) \subseteq Tasks
<1>1. \A q \in Queries : Items(q) \subseteq Tasks
  BY DEF Tasks
<1>2. \A q \in Queries : \A k \in DOMAIN Demands[q] : <<q, k>> \in Items(q)
  BY DEF Items
<1>3. ASSUME <<>> \in Tasks PROVE FALSE
  <2>1. CASE <<>> \in {<<r>> : r \in Roots}
    BY <2>1, Names
  <2>2. CASE \E q \in Queries : <<>> \in Items(q)
    BY <2>2, Names DEF Items
  <2> QED BY <1>3, <2>1, <2>2 DEF Tasks
<1>4. \A r \in Roots : <<r>> \in Tasks
  BY DEF Tasks
<1> QED BY <1>1, <1>2, <1>3, <1>4


-----------------------------------------------------------------------------
(* A stack whose innermost frames go, and one that grows *)

\* Frames above m are gone; frame m goes on, perhaps in another state.
CutTo(s, t, m) ==
  /\ m \in 0 .. Len(s) /\ Len(t) = m
  /\ \A i \in 1 .. m - 1 : t[i] = s[i]
  /\ \A i \in 1 .. m : t[i].q = s[i].q /\ t[i].task = s[i].task

PushedOn(s, t, g) ==
  /\ Len(t) = Len(s) + 1 /\ t[Len(s) + 1] = g
  /\ \A i \in 1 .. Len(s) : t[i] = s[i]

\* A stack that is cut is a stack.
LEMMA StackedCut ==
  ASSUME NEW th \in Threads, NEW s \in Seq(FrameRec), NEW t \in Seq(FrameRec), NEW m,
         Stacked(th, s), CutTo(s, t, m), m > 0 => Local(t[m]),
         m = 1 /\ th \in Workers => Lane0(t[1])
  PROVE  Stacked(th, t)
<1>1. /\ m \in Nat /\ m <= Len(s) /\ Len(s) \in Nat /\ Len(t) = m
      /\ \A i \in 1 .. m - 1 : t[i] = s[i]
      /\ \A i \in 1 .. m : t[i].q = s[i].q /\ t[i].task = s[i].task
  BY DEF CutTo
<1>2. \A i \in 1 .. m : i \in 1 .. Len(s) /\ t[i].q = s[i].q /\ t[i].task = s[i].task
  BY <1>1
<1>3. \A i \in 1 .. m : Local(t[i])
  <2> TAKE i \in 1 .. m
  <2>1. CASE i = m
    BY <1>1, <2>1
  <2>2. CASE i # m
    <3>1. i \in 1 .. m - 1 /\ i \in 1 .. Len(s)
      BY <1>1, <2>2
    <3> QED BY <1>1, <3>1 DEF Stacked
  <2> QED BY <2>1, <2>2
<1>4. t # <<>> => m > 0 /\ s # <<>> /\ 1 \in 1 .. m
  BY <1>1
<1>5. t # <<>> => IF th \in Workers THEN Lane0(t[1]) ELSE t[1].task = <<th>>
  <2> SUFFICES ASSUME t # <<>> PROVE IF th \in Workers THEN Lane0(t[1]) ELSE t[1].task = <<th>>
    OBVIOUS
  <2>1. CASE m = 1
    BY <1>1, <1>2, <1>4, <2>1 DEF Stacked
  <2>2. CASE m # 1
    <3>1. t[1] = s[1]
      BY <1>1, <1>4, <2>2
    <3> QED BY <1>4, <3>1 DEF Stacked
  <2> QED BY <2>1, <2>2
<1>6. ASSUME NEW i \in 2 .. m
      PROVE  /\ t[i].task # <<>> /\ Above(t[i - 1], t[i])
             /\ t[i - 1].pc = "lane" => \A j \in 1 .. i - 1 : t[j].task # t[i].task
  <2>1. i - 1 \in 1 .. m - 1 /\ i \in 2 .. Len(s) /\ i \in 1 .. m
    BY <1>1
  <2>2. t[i - 1] = s[i - 1] /\ t[i].q = s[i].q /\ t[i].task = s[i].task
    BY <1>1, <1>2, <2>1
  <2>3. s[i].task # <<>> /\ Above(s[i - 1], s[i])
    BY <2>1 DEF Stacked
  <2>4. s[i - 1].pc = "lane" => \A j \in 1 .. i - 1 : s[j].task # s[i].task
    BY <2>1 DEF Stacked
  <2>5. \A j \in 1 .. i - 1 : j \in 1 .. m
    BY <1>1, <2>1
  <2> QED BY <1>2, <2>2, <2>3, <2>4, <2>5 DEF Above
<1>7. ASSUME NEW i \in 1 .. m, NEW p \in Queries, NEW k \in Nat, t[i].task = <<p, k>>
      PROVE  \E j \in 1 .. i - 1 : t[j].pc = "lane" /\ t[j].q = p
  <2>1. i \in 1 .. Len(s) /\ s[i].task = <<p, k>>
    BY <1>2, <1>7
  <2>2. PICK j \in 1 .. i - 1 : s[j].pc = "lane" /\ s[j].q = p
    BY <2>1 DEF Stacked
  <2>3. j \in 1 .. m - 1
    BY <1>1
  <2> QED BY <1>1, <2>2, <2>3
<1>8. ASSUME NEW i \in 1 .. m, NEW j \in 1 .. i - 1
      PROVE  Rank[t[i].q] < Rank[t[j].q]
  <2>1. j \in 1 .. m /\ i \in 1 .. Len(s)
    BY <1>1
  <2> QED BY <1>2, <2>1 DEF Stacked
<1> QED BY <1>1, <1>3, <1>5, <1>6, <1>7, <1>8 DEF Stacked

\* A stack on which a frame is pushed is a stack.
LEMMA StackedPush ==
  ASSUME NEW th \in Threads, NEW s \in Seq(FrameRec), NEW t \in Seq(FrameRec), NEW g,
         Stacked(th, s), s # <<>>, PushedOn(s, t, g), Local(g), g.q \in Queries,
         Above(s[Len(s)], g), s[Len(s)].task = <<>> => s[Len(s)].pc = "lane",
         s[Len(s)].pc = "lane" => \A j \in 1 .. Len(s) : s[j].task # g.task
  PROVE  Stacked(th, t)
<1> DEFINE n == Len(s)
           f == s[n]
<1>0. n \in Nat /\ n # 0
  OBVIOUS
<1>1. n \in Nat \ {0} /\ f \in FrameRec /\ f.q \in Queries /\ \A i \in 1 .. n : s[i].q \in Queries
  <2>1. n \in 1 .. n
    BY <1>0
  <2>2. \A i \in 1 .. n : s[i] \in FrameRec
    OBVIOUS
  <2> HIDE DEF n
  <2> QED BY <1>0, <2>1, <2>2 DEF FrameRec
<1>2. Len(t) = n + 1 /\ t[n + 1] = g /\ \A i \in 1 .. n : t[i] = s[i]
  BY DEF PushedOn
<1> HIDE DEF n
<1>3. \A i \in 1 .. n + 1 : i = n + 1 \/ i \in 1 .. n
  BY <1>1
<1>4. \A i \in 1 .. n + 1 : Local(t[i])
  BY <1>2, <1>3 DEF Stacked, n
<1>5. t[1] = s[1] /\ t # <<>>
  BY <1>1, <1>2
<1>6. IF th \in Workers THEN Lane0(t[1]) ELSE t[1].task = <<th>>
  BY <1>5 DEF Stacked
<1>7. g.task # <<>>
  <2>1. CASE f.pc = "sequence"
    BY <2>1 DEF Above, n
  <2>2. CASE f.pc = "lane"
    BY <2>2, Names DEF Above, n
  <2> QED BY <2>1, <2>2 DEF Above, n
<1>8. ASSUME NEW i \in 2 .. n + 1
      PROVE  /\ t[i].task # <<>> /\ Above(t[i - 1], t[i])
             /\ t[i - 1].pc = "lane" => \A j \in 1 .. i - 1 : t[j].task # t[i].task
  <2>1. CASE i = n + 1
    <3>1. t[i] = g /\ t[i - 1] = f /\ i - 1 = n
      BY <1>1, <1>2, <2>1
    <3> QED BY <1>2, <1>7, <3>1 DEF n
  <2>2. CASE i # n + 1
    <3>1. i \in 2 .. n /\ i - 1 \in 1 .. n /\ i \in 1 .. n /\ 1 .. i - 1 \subseteq 1 .. n
      BY <1>1, <2>2
    <3>2. t[i] = s[i] /\ t[i - 1] = s[i - 1] /\ \A j \in 1 .. i - 1 : t[j] = s[j]
      BY <1>2, <3>1
    <3>3. i \in 2 .. Len(s)
      BY <3>1 DEF n
    <3>4. /\ s[i].task # <<>> /\ Above(s[i - 1], s[i])
          /\ s[i - 1].pc = "lane" => \A j \in 1 .. i - 1 : s[j].task # s[i].task
      BY <3>3 DEF Stacked
    <3> QED BY <3>2, <3>4
  <2> QED BY <2>1, <2>2
<1>9. ASSUME NEW i \in 1 .. n + 1, NEW p \in Queries, NEW k \in Nat, t[i].task = <<p, k>>
      PROVE  \E j \in 1 .. i - 1 : t[j].pc = "lane" /\ t[j].q = p
  <2>1. CASE i = n + 1
    <3>1. g.task = <<p, k>> /\ i - 1 = n
      BY <1>1, <1>2, <1>9, <2>1
    <3>2. CASE f.pc = "sequence"
      <4>1. f.task = <<p, k>>
        BY <3>1, <3>2 DEF Above, n
      <4>0. n \in 1 .. Len(s) /\ s[n].task = <<p, k>>
        BY <1>1, <4>1 DEF n
      <4>1a. \A i1 \in 1 .. Len(s) : \A p1 \in Queries : \A k1 \in Nat :
               s[i1].task = <<p1, k1>> => \E j \in 1 .. i1 - 1 : s[j].pc = "lane" /\ s[j].q = p1
        BY DEF Stacked
      <4>2. PICK j \in 1 .. n - 1 : s[j].pc = "lane" /\ s[j].q = p
        BY <4>0, <4>1a, ZenonT(120)
      <4>3. j \in 1 .. n
        BY <1>1
      <4> QED BY <1>2, <3>1, <4>2, <4>3
    <3>3. CASE f.pc = "lane"
      <4>1. p = f.q
        BY <3>1, <3>3, Names DEF Above, n
      <4>2. n \in 1 .. n
        BY <1>1
      <4> QED BY <1>2, <3>1, <3>3, <4>1, <4>2
    <3> QED BY <3>2, <3>3 DEF Above, n
  <2>2. CASE i # n + 1
    <3>1. i \in 1 .. n
      BY <1>3, <2>2
    <3>2. s[i].task = <<p, k>>
      BY <1>2, <1>9, <3>1
    <3>3. PICK j \in 1 .. i - 1 : s[j].pc = "lane" /\ s[j].q = p
      BY <3>1, <3>2 DEF Stacked, n
    <3>4. j \in 1 .. n
      BY <1>1, <3>1
    <3> QED BY <1>2, <3>3, <3>4
  <2> QED BY <2>1, <2>2
<1>10. ASSUME NEW i \in 1 .. n + 1, NEW j \in 1 .. i - 1
       PROVE  Rank[t[i].q] < Rank[t[j].q]
  <2>1. CASE i = n + 1
    <3>1. j \in 1 .. n /\ t[i] = g /\ t[j] = s[j]
      BY <1>1, <1>2, <2>1
    <3>2. Rank[g.q] < Rank[f.q]
      BY <1>1, RankFalls DEF Above, n
    <3>3. CASE j = n
      BY <3>1, <3>2, <3>3
    <3>4. CASE j # n
      <4>1. j \in 1 .. n - 1 /\ n \in 1 .. n
        BY <1>1, <3>1, <3>4
      <4>2. Rank[f.q] < Rank[s[j].q]
        BY <4>1 DEF Stacked, n
      <4>3. Rank[g.q] \in Nat /\ Rank[f.q] \in Nat /\ Rank[s[j].q] \in Nat
        BY <1>1, <3>1, RankFalls
      <4> QED BY <3>1, <3>2, <4>2, <4>3
    <3> QED BY <3>3, <3>4
  <2>2. CASE i # n + 1
    <3>1. i \in 1 .. n /\ j \in 1 .. n
      BY <1>1, <1>3, <2>2
    <3> QED BY <1>2, <3>1 DEF Stacked, n
  <2> QED BY <2>1, <2>2
<1> QED BY <1>2, <1>4, <1>6, <1>8, <1>9, <1>10 DEF Stacked

-----------------------------------------------------------------------------
(* Steps of one thread *)

\* The thread's innermost frames go.
Moved(th, m) ==
  /\ stack' \in [Threads -> Seq(FrameRec)]
  /\ \A u \in Threads : u # th => stack'[u] = stack[u]
  /\ CutTo(stack[th], stack'[th], m)

\* The thread gets a frame.
Pushed(th, g) ==
  /\ stack' \in [Threads -> Seq(FrameRec)]
  /\ \A u \in Threads : u # th => stack'[u] = stack[u]
  /\ PushedOn(stack[th], stack'[th], g)

Size(th) == Len(stack[th])

\* Stacks have lengths and consist of frames.
LEMMA Sizes ==
  ASSUME Shapes, NEW th \in Threads
  PROVE  /\ stack[th] \in Seq(FrameRec) /\ Size(th) \in Nat /\ Size(th) = Len(stack[th])
         /\ \A i \in 1 .. Size(th) : stack[th][i] \in FrameRec
         /\ stack[th] # <<>> <=> Size(th) > 0
<1>1. stack[th] \in Seq(FrameRec)
  BY DEF Shapes
<1> QED BY <1>1 DEF Size

\* What a frame has.
LEMMA Fields ==
  ASSUME NEW f \in FrameRec
  PROVE  /\ f.q \in Queries /\ f.task \in Tasks \cup {<<>>} /\ f.token \in Roots /\ f.pc \in PCs
         /\ f.acquired \in BOOLEAN /\ f.donated \in BOOLEAN
         /\ f.next \in Nat /\ f.claim \in Nat /\ f.how \in Hows
         /\ f.task # <<>> => f.task \in Tasks
BY DEF FrameRec

\* The frames that are left are frames that were there.
LEMMA KeptFrames ==
  ASSUME Shapes, NEW th \in Threads, NEW m, Moved(th, m), NEW u \in Threads,
         NEW i \in 1 .. Len(stack'[u])
  PROVE  /\ i \in 1 .. Len(stack[u])
         /\ stack'[u][i].q = stack[u][i].q /\ stack'[u][i].task = stack[u][i].task
         /\ (u = th /\ i = m /\ m > 0) \/ stack'[u][i] = stack[u][i]
         /\ stack'[u][i] \in FrameRec /\ stack[u][i] \in FrameRec
<1>0. stack[u] \in Seq(FrameRec) /\ stack'[u] \in Seq(FrameRec) /\ Len(stack[u]) \in Nat /\ Len(stack'[u]) \in Nat
  BY DEF Shapes, Moved
<1>1. CASE u # th
  <2>1. stack'[u] = stack[u]
    BY <1>1 DEF Moved
  <2> QED BY <1>0, <2>1
<1>2. CASE u = th
  <2>1. /\ m \in 0 .. Len(stack[u]) /\ Len(stack'[u]) = m
        /\ \A j \in 1 .. m - 1 : stack'[u][j] = stack[u][j]
        /\ \A j \in 1 .. m : stack'[u][j].q = stack[u][j].q /\ stack'[u][j].task = stack[u][j].task
    BY <1>2 DEF Moved, CutTo
  <2>2. i \in 1 .. m /\ i \in 1 .. Len(stack[u]) /\ (i = m \/ i \in 1 .. m - 1)
    BY <1>0, <2>1
  <2> QED BY <1>0, <1>2, <2>1, <2>2
<1> QED BY <1>1, <1>2

\* A cut keeps stacks well formed if it does so at the cut.
LEMMA StacksMoved ==
  ASSUME Shapes, Stacks, NEW th \in Threads, NEW m, Moved(th, m),
         m > 0 => Local(stack'[th][m]),
         m = 1 /\ th \in Workers => Lane0(stack'[th][1])
  PROVE  Stacks'
<1>1. ASSUME NEW u \in Threads PROVE Stacked(u, stack'[u])
  <2>1. CASE u # th
    BY <2>1 DEF Moved, Stacks
  <2>2. CASE u = th
    <3>1. stack[th] \in Seq(FrameRec) /\ stack'[th] \in Seq(FrameRec) /\ Stacked(th, stack[th])
      BY DEF Moved, Stacks, Shapes
    <3>2. CutTo(stack[th], stack'[th], m)
      BY DEF Moved
    <3> QED BY <2>2, <3>1, <3>2, StackedCut
  <2> QED BY <2>1, <2>2
<1> QED BY <1>1 DEF Stacks

\* A query is given up by its owner only.
LEMMA OwnedMoved ==
  ASSUME Shapes, Owned, NEW th \in Threads, NEW m, Moved(th, m),
         m > 0 /\ Owner(stack'[th][m]) => Owner(stack[th][m]),
         \A q \in Queries : \/ node'[q] = node[q]
                            \/ /\ m < Size(th) /\ Owner(stack[th][Size(th)]) /\ stack[th][Size(th)].q = q
                               /\ node'[q] # "computing",
         owner' = owner
  PROVE  Owned'
<1>1. ASSUME NEW t \in Threads, NEW i \in 1 .. Len(stack'[t]), Owner(stack'[t][i])
      PROVE  /\ i \in 1 .. Len(stack[t]) /\ Owner(stack[t][i]) /\ stack'[t][i].q = stack[t][i].q
             /\ stack[t][i].q \in Queries
  BY <1>1, KeptFrames, Fields
<1>2. \A t, u \in Threads : \A i \in 1 .. Len(stack'[t]) : \A j \in 1 .. Len(stack'[u]) :
       Owner(stack'[t][i]) /\ Owner(stack'[u][j]) /\ stack'[t][i].q = stack'[u][j].q => t = u /\ i = j
  BY <1>1 DEF Owned
<1>3. ASSUME NEW t \in Threads, NEW i \in 1 .. Len(stack'[t]), Owner(stack'[t][i])
      PROVE  node'[stack'[t][i].q] = "computing"
  <2> DEFINE q == stack[t][i].q
  <2>1. node[q] = "computing" /\ stack'[t][i].q = q /\ q \in Queries /\ Owner(stack[t][i]) /\ i \in 1 .. Len(stack[t])
    BY <1>1, <1>3 DEF Owned
  <2>2. CASE node'[q] # node[q]
    <3>1. m < Size(th) /\ Owner(stack[th][Size(th)]) /\ stack[th][Size(th)].q = q
      BY <2>1, <2>2
    <3>2. Size(th) \in Nat /\ m \in Nat /\ Size(th) = Len(stack[th]) /\ Len(stack'[th]) = m
      BY Sizes DEF Moved, CutTo
    <3>3. Size(th) \in 1 .. Len(stack[th])
      BY <3>1, <3>2
    <3>4. t = th /\ i = Size(th)
      BY <2>1, <3>1, <3>3 DEF Owned
    <3> QED BY <3>1, <3>2, <3>4
  <2> QED BY <2>1, <2>2
<1>4. \A q \in Queries : node'[q] = "computing" => node[q] = "computing"
  OBVIOUS
<1> QED BY <1>2, <1>3, <1>4 DEF Owned

\* Frames that go leave every task on its thread.
LEMMA SingleMoved ==
  ASSUME Shapes, Single, NEW th \in Threads, NEW m, Moved(th, m),
         \A p \in Queries : batch'[p].queue = batch[p].queue
  PROVE  Single'
<1>1. ASSUME NEW t \in Threads, NEW i \in 1 .. Len(stack'[t])
      PROVE  i \in 1 .. Len(stack[t]) /\ stack'[t][i].task = stack[t][i].task
  BY <1>1, KeptFrames
<1>2. \A t, u \in Threads : \A i \in 1 .. Len(stack'[t]) : \A j \in 1 .. Len(stack'[u]) :
       stack'[t][i].task = stack'[u][j].task /\ stack'[t][i].task # <<>> => t = u
  BY <1>1 DEF Single
<1>3. ASSUME NEW t \in Threads, NEW i \in 1 .. Len(stack'[t]), NEW p \in Queries, NEW k \in Nat,
             stack'[t][i].task = <<p, k>>
      PROVE  \A n \in 1 .. Len(batch'[p].queue) : batch'[p].queue[n] # k
  <2>1. i \in 1 .. Len(stack[t]) /\ stack[t][i].task = <<p, k>>
    BY <1>1, <1>3
  <2>2. \A n \in 1 .. Len(batch[p].queue) : batch[p].queue[n] # k
    <3>1. \A t1 \in Threads : \A i1 \in 1 .. Len(stack[t1]) : \A p1 \in Queries : \A k1 \in Nat :
            stack[t1][i1].task = <<p1, k1>> =>
              \A n \in 1 .. Len(batch[p1].queue) : batch[p1].queue[n] # k1
      BY Zenon DEF Single
    <3> QED BY <2>1, <3>1, ZenonT(120)
  <2> QED BY <2>2
<1> QED BY <1>2, <1>3 DEF Single

-----------------------------------------------------------------------------
(* What the steps do to a stack *)

\* The innermost frame of a thread.
LEMMA Tops ==
  ASSUME Shapes, NEW th \in Threads, stack[th] # <<>>
  PROVE  /\ Size(th) \in Nat \ {0} /\ Size(th) \in 1 .. Len(stack[th]) /\ Size(th) = Len(stack[th])
         /\ Top(th) = stack[th][Size(th)] /\ Top(th) \in FrameRec
<1>1. Size(th) \in Nat /\ Size(th) = Len(stack[th]) /\ Size(th) > 0
  BY Sizes
<1>2. Size(th) \in 1 .. Size(th)
  BY <1>1
<1> QED BY <1>1, <1>2, Sizes DEF Top, Size

\* SetTop replaces it.
LEMMA SetTopMoves ==
  ASSUME Shapes, NEW th \in Threads, stack[th] # <<>>, NEW g \in FrameRec,
         g.q = Top(th).q, g.task = Top(th).task, SetTop(th, g)
  PROVE  Moved(th, Size(th)) /\ stack'[th] \in Seq(FrameRec) /\ stack'[th][Size(th)] = g
<1> DEFINE s == stack[th]
           n == Len(s)
           b == SubSeq(s, 1, n - 1)
           t == Append(b, g)
<1>1. s \in Seq(FrameRec) /\ n \in Nat \ {0} /\ stack \in [Threads -> Seq(FrameRec)] /\ n = Size(th)
  BY Tops DEF Shapes
<1>2. b \in Seq(FrameRec) /\ Len(b) = n - 1 /\ \A i \in 1 .. n - 1 : b[i] = s[i]
  <2> HIDE DEF s
  <2> QED BY <1>1
<1>3. t \in Seq(FrameRec) /\ Len(t) = n /\ t[n] = g /\ \A i \in 1 .. n - 1 : t[i] = s[i]
  <2> HIDE DEF s, n, b
  <2> QED BY <1>1, <1>2
<1>4. g.q = s[n].q /\ g.task = s[n].task
  BY DEF Top
<1>5. stack' = [stack EXCEPT ![th] = t]
  BY DEF SetTop, Below
<1> HIDE DEF t
<1>6. stack' \in [Threads -> Seq(FrameRec)] /\ stack'[th] = t /\ \A u \in Threads : u # th => stack'[u] = stack[u]
  BY <1>1, <1>3, <1>5
<1>7. CutTo(s, t, n)
  <2>1. \A i \in 1 .. n : i = n \/ i \in 1 .. n - 1
    BY <1>1
  <2> HIDE DEF s, n
  <2> QED BY <1>1, <1>3, <1>4, <2>1 DEF CutTo, n
<1> QED BY <1>1, <1>3, <1>6, <1>7 DEF Moved

\* Push adds one.
LEMMA PushPushes ==
  ASSUME Shapes, NEW th \in Threads, NEW g \in FrameRec, Push(th, g)
  PROVE  Pushed(th, g)
<1> DEFINE s == stack[th]
           t == Append(s, g)
<1>1. s \in Seq(FrameRec) /\ stack \in [Threads -> Seq(FrameRec)]
  BY DEF Shapes
<1>2. t \in Seq(FrameRec) /\ Len(t) = Len(s) + 1 /\ t[Len(s) + 1] = g /\ \A i \in 1 .. Len(s) : t[i] = s[i]
  <2> HIDE DEF s
  <2> QED BY <1>1
<1>3. stack' = [stack EXCEPT ![th] = t]
  BY DEF Push
<1> HIDE DEF t
<1>4. stack' \in [Threads -> Seq(FrameRec)] /\ stack'[th] = t /\ \A u \in Threads : u # th => stack'[u] = stack[u]
  BY <1>1, <1>2, <1>3
<1> QED BY <1>2, <1>4 DEF Pushed, PushedOn

\* A stack may be emptied.
LEMMA EmptyMoves ==
  ASSUME Shapes, NEW th \in Threads, stack' = [stack EXCEPT ![th] = <<>>]
  PROVE  Moved(th, 0) /\ stack'[th] = <<>>
<1>1. stack[th] \in Seq(FrameRec) /\ stack \in [Threads -> Seq(FrameRec)] /\ <<>> \in Seq(FrameRec) /\ Len(stack[th]) \in Nat
  BY DEF Shapes
<1>2. stack' \in [Threads -> Seq(FrameRec)] /\ stack'[th] = <<>> /\ \A u \in Threads : u # th => stack'[u] = stack[u]
  BY <1>1
<1>3. CutTo(stack[th], <<>>, 0)
  BY <1>1 DEF CutTo
<1> QED BY <1>2, <1>3 DEF Moved

\* The frame of a query that is looked up.
Fresh(g, q, task, token) ==
  /\ g \in FrameRec /\ g.q = q /\ g.task = task /\ g.token = token /\ g.pc = "look" /\ g.acquired = FALSE
  /\ g.next = 1 /\ g.claim = 0 /\ g.how = "ok" /\ Local(g) /\ ~Owner(g)

\* It is a frame that has nothing.
LEMMA NewFrame ==
  ASSUME NEW q \in Queries, NEW task \in Tasks, NEW token \in Roots
  PROVE  Fresh(Frame(q, task, token), q, task, token)
<1> DEFINE g == Frame(q, task, token)
<1>1. g \in FrameRec
  BY DEF Frame, FrameRec, PCs, Hows
<1>2. /\ g.q = q /\ g.task = task /\ g.token = token /\ g.pc = "look" /\ g.acquired = FALSE
      /\ g.next = 1 /\ g.claim = 0 /\ g.how = "ok"
  BY DEF Frame
<1> HIDE DEF g
<1>3. Local(g) /\ ~Owner(g)
  BY <1>2 DEF Local, Owner, ClaimPCs, OwnPCs
<1>4. Fresh(g, q, task, token)
  BY <1>1, <1>2, <1>3 DEF Fresh
<1> QED BY <1>4 DEF g

\* What a step may change of its frame.
Edited(f, g, pc, acquired, donated, next, claim, how) ==
  /\ g \in FrameRec /\ g.q = f.q /\ g.task = f.task /\ g.token = f.token
  /\ g.pc = pc /\ g.acquired = acquired /\ g.donated = donated
  /\ g.next = next /\ g.claim = claim /\ g.how = how

\* A frame that goes on at another label.
LEMMA EditPc ==
  ASSUME NEW f \in FrameRec, NEW l \in PCs
  PROVE  Edited(f, [f EXCEPT !.pc = l], l, f.acquired, f.donated, f.next, f.claim, f.how)
BY DEF Edited, FrameRec

\* A frame that begins to wait for an attempt.
LEMMA EditJoin ==
  ASSUME NEW f \in FrameRec, NEW l \in PCs, NEW b \in BOOLEAN, NEW k \in Nat
  PROVE  Edited(f, [f EXCEPT !.pc = l, !.next = k, !.donated = b], l, f.acquired, b, k, f.claim, f.how)
BY DEF Edited, FrameRec

\* A frame that goes on with an outcome.
LEMMA EditHow ==
  ASSUME NEW f \in FrameRec, NEW l \in PCs, NEW h \in Hows
  PROVE  Edited(f, [f EXCEPT !.pc = l, !.how = h], l, f.acquired, f.donated, f.next, f.claim, h)
BY DEF Edited, FrameRec

\* A frame that has got its permit.
LEMMA EditAcquired ==
  ASSUME NEW f \in FrameRec, NEW l \in PCs, NEW b \in BOOLEAN
  PROVE  Edited(f, [f EXCEPT !.pc = l, !.acquired = b], l, b, f.donated, f.next, f.claim, f.how)
BY DEF Edited, FrameRec

\* A frame that has claimed slots.
LEMMA EditClaim ==
  ASSUME NEW f \in FrameRec, NEW l \in PCs, NEW k \in Nat
  PROVE  Edited(f, [f EXCEPT !.pc = l, !.claim = k], l, f.acquired, f.donated, f.next, k, f.how)
BY DEF Edited, FrameRec

\* A frame that has donated its permit.
LEMMA EditDonated ==
  ASSUME NEW f \in FrameRec, NEW l \in PCs, NEW b \in BOOLEAN
  PROVE  Edited(f, [f EXCEPT !.pc = l, !.donated = b], l, f.acquired, b, f.next, f.claim, f.how)
BY DEF Edited, FrameRec

\* A frame that goes on to its next demand or job.
LEMMA EditNext ==
  ASSUME NEW f \in FrameRec
  PROVE  Edited(f, [f EXCEPT !.next = @ + 1], f.pc, f.acquired, f.donated, f.next + 1, f.claim, f.how)
<1>1. f.next + 1 \in Nat
  BY DEF FrameRec
<1> QED BY <1>1 DEF Edited, FrameRec

\* A frame that leaves its batch.
LEMMA EditAbsorb ==
  ASSUME NEW f \in FrameRec, NEW l \in PCs, NEW h \in Hows, NEW k \in Nat
  PROVE  Edited(f, [f EXCEPT !.pc = l, !.how = h, !.claim = k], l, f.acquired, f.donated, f.next, k, h)
BY DEF Edited, FrameRec

\* What the beginning and the end of a job do to a batch.
LEMMA OutEdits ==
  ASSUME batch \in [Queries -> BatchRec], NEW q \in Queries, NEW o \in Int
  PROVE  LET c == [batch EXCEPT ![q].out = o] IN
           /\ c \in [Queries -> BatchRec]
           /\ c[q].worst = batch[q].worst /\ c[q].out = o /\ c[q].queue = batch[q].queue
           /\ \A p \in Queries : p # q => c[p] = batch[p]
<1>1. batch[q] \in BatchRec
  OBVIOUS
<1> QED BY <1>1 DEF BatchRec

\* What the steps do to its queue.
LEMMA QueueEdits ==
  ASSUME batch \in [Queries -> BatchRec], NEW q \in Queries, NEW s \in Seq(Nat)
  PROVE  /\ LET c == [batch EXCEPT ![q].queue = s] IN
              /\ c \in [Queries -> BatchRec]
              /\ c[q].worst = batch[q].worst /\ c[q].out = batch[q].out /\ c[q].queue = s
              /\ \A p \in Queries : p # q => c[p] = batch[p]
         /\ LET c == [batch EXCEPT ![q] = [NoBatch EXCEPT !.queue = s]] IN
              /\ c \in [Queries -> BatchRec]
              /\ c[q].worst = "ok" /\ c[q].out = 0 /\ c[q].queue = s
              /\ \A p \in Queries : p # q => c[p] = batch[p]
         /\ LET c == [batch EXCEPT ![q] = NoBatch] IN
              /\ c \in [Queries -> BatchRec]
              /\ c[q].worst = "ok" /\ c[q].out = 0 /\ c[q].queue = <<>>
              /\ \A p \in Queries : p # q => c[p] = batch[p]
<1>1. NoBatch \in BatchRec /\ NoBatch.worst = "ok" /\ NoBatch.out = 0 /\ NoBatch.queue = <<>>
  BY DEF NoBatch, BatchRec
<1>2. LET x == [NoBatch EXCEPT !.queue = s] IN x \in BatchRec /\ x.worst = "ok" /\ x.out = 0 /\ x.queue = s
  BY DEF NoBatch, BatchRec
<1>3. batch[q] \in BatchRec
  OBVIOUS
<1>4. LET c == [batch EXCEPT ![q].queue = s] IN
              /\ c \in [Queries -> BatchRec]
              /\ c[q].worst = batch[q].worst /\ c[q].out = batch[q].out /\ c[q].queue = s
              /\ \A p \in Queries : p # q => c[p] = batch[p]
  BY <1>3 DEF BatchRec
<1> HIDE DEF NoBatch
<1> QED BY <1>1, <1>2, <1>4

\* What lies directly under the innermost frame.
LEMMA Beneath ==
  ASSUME Shapes, Stacks, NEW th \in Threads, Size(th) > 1
  PROVE  LET n == Size(th)
             f == stack[th][n - 1]
             g == stack[th][n]
         IN /\ n - 1 \in 1 .. Len(stack[th]) /\ n \in 2 .. Len(stack[th]) /\ n \in Nat
            /\ f \in FrameRec /\ g \in FrameRec /\ g.task # <<>> /\ Above(f, g)
            /\ f.pc \in {"sequence", "lane"}
            /\ f.pc = "sequence" => g.task = f.task /\ f.next \in DOMAIN Demands[f.q] /\ g.q = Demands[f.q][f.next]
            /\ f.pc = "lane" =>
                 /\ \A j \in 1 .. n - 1 : stack[th][j].task # g.task
                 /\ \E k \in DOMAIN Demands[f.q] : g.task = <<f.q, k>> /\ g.q = Demands[f.q][k]
<1> DEFINE n == Size(th)
           s == stack[th]
<1>1. n \in Nat /\ n = Len(s) /\ \A i \in 1 .. n : s[i] \in FrameRec
  BY Sizes
<1>2. Stacked(th, s) /\ n > 1
  BY DEF Stacks
<1> HIDE DEF n, s
<1>3. n - 1 \in 1 .. Len(s) /\ n \in 2 .. Len(s) /\ n - 1 \in 1 .. n /\ n \in 1 .. n
  BY <1>1, <1>2
<1>4. s[n].task # <<>> /\ Above(s[n - 1], s[n]) /\ s[n - 1] \in FrameRec /\ s[n] \in FrameRec
  BY <1>1, <1>2, <1>3 DEF Stacked
<1>5. s[n - 1].pc = "lane" => \A j \in 1 .. n - 1 : s[j].task # s[n].task
  BY <1>2, <1>3 DEF Stacked
<1>6. s[n - 1].pc = "sequence" \/ s[n - 1].pc = "lane"
  BY <1>4 DEF Above
<1>7. s[n - 1].pc = "sequence" =>
        /\ s[n].task = s[n - 1].task /\ s[n - 1].next \in DOMAIN Demands[s[n - 1].q]
        /\ s[n].q = Demands[s[n - 1].q][s[n - 1].next]
  BY <1>4 DEF Above
<1>8. s[n - 1].pc = "lane" =>
        \E k \in DOMAIN Demands[s[n - 1].q] : s[n].task = <<s[n - 1].q, k>> /\ s[n].q = Demands[s[n - 1].q][k]
  BY <1>4 DEF Above
<1> QED BY <1>1, <1>3, <1>4, <1>5, <1>6, <1>7, <1>8, Zenon DEF n, s

\* What Deliver does.
Delivered(th, how) ==
  LET n == Size(th)
      f == stack[th][n - 1]
      g == stack'[th][n - 1]
  IN /\ n = 1 => Moved(th, 0) /\ batch' = batch /\ result' = [result EXCEPT ![th] = how]
     /\ n > 1 => result' = result
     /\ n > 1 /\ f.pc = "sequence" =>
          /\ Moved(th, n - 1) /\ batch' = batch
          /\ how = "ok" => Edited(f, g, "sequence", f.acquired, f.donated, f.next + 1, f.claim, f.how)
          /\ how # "ok" => Edited(f, g, "end", f.acquired, f.donated, f.next, f.claim, how)
     /\ n > 1 /\ f.pc = "lane" =>
          /\ batch' \in [Queries -> BatchRec]
          /\ \A p \in Queries : p # f.q => batch'[p] = batch[p]
          /\ batch'[f.q].queue = batch[f.q].queue /\ batch'[f.q].worst = Worst(batch[f.q].worst, how)
          /\ how = "panic" /\ th \in Workers /\ n = 2 =>
               Moved(th, 0) /\ batch'[f.q].out = batch[f.q].out - 1
          /\ ~(how = "panic" /\ th \in Workers /\ n = 2) =>
               /\ Moved(th, n - 1) /\ batch'[f.q].out = batch[f.q].out
               /\ Edited(f, g, IF how = "panic" THEN "join_jobs" ELSE "lane",
                         f.acquired, f.donated, f.next, f.claim, f.how)

\* Deliver pops the frame and changes the one below.
LEMMA DeliverPops ==
  ASSUME Shapes, Stacks, NEW th \in Threads, stack[th] # <<>>, NEW how \in {"ok", "aborted", "panic"},
         Deliver(th, how)
  PROVE  Delivered(th, how)
<1> DEFINE s == stack[th]
           n == Len(s)
           rest == SubSeq(s, 1, n - 1)
<1>1. s \in Seq(FrameRec) /\ n \in Nat \ {0} /\ stack \in [Threads -> Seq(FrameRec)] /\ n = Size(th)
  BY Tops DEF Shapes
<1>2. /\ rest \in Seq(FrameRec) /\ Len(rest) = n - 1 /\ \A i \in 1 .. n - 1 : rest[i] = s[i]
      /\ rest = <<>> <=> n = 1
  <2>1. rest \in Seq(FrameRec) /\ Len(rest) = n - 1 /\ \A i \in 1 .. n - 1 : rest[i] = s[i]
    <3> HIDE DEF s
    <3> QED BY <1>1
  <2> HIDE DEF s, n, rest
  <2> QED BY <1>1, <2>1
<1>d. /\ result' = IF rest = <<>> THEN [result EXCEPT ![th] = how] ELSE result
      /\ batch' = IF rest # <<>> /\ rest[Len(rest)].pc = "lane"
                    THEN [batch EXCEPT ![rest[Len(rest)].q].worst = Worst(@, how),
                                       ![rest[Len(rest)].q].out =
                                         IF (rest # <<>> /\ rest[Len(rest)].pc = "lane") /\ how = "panic" /\ th \in Workers /\ Len(rest) = 1 THEN @ - 1 ELSE @]
                    ELSE batch
      /\ stack' = [stack EXCEPT ![th] =
           IF rest = <<>> \/ ((rest # <<>> /\ rest[Len(rest)].pc = "lane") /\ how = "panic" /\ th \in Workers /\ Len(rest) = 1) THEN <<>>
           ELSE [rest EXCEPT ![Len(rest)] =
             IF rest # <<>> /\ rest[Len(rest)].pc = "lane"
               THEN [rest[Len(rest)] EXCEPT !.pc = IF (rest # <<>> /\ rest[Len(rest)].pc = "lane") /\ how = "panic" THEN "join_jobs" ELSE "lane"]
             ELSE IF how = "ok" THEN [rest[Len(rest)] EXCEPT !.next = @ + 1]
             ELSE [rest[Len(rest)] EXCEPT !.pc = "end", !.how = how]]]
  BY Zenon DEF Deliver, Below
<1> HIDE DEF rest, s, n
<1>3. CASE n = 1
  <2>1. rest = <<>>
    BY <1>2, <1>3
  <2>2. ~(rest # <<>> /\ rest[Len(rest)].pc = "lane")
    BY <2>1
  <2>3. result' = [result EXCEPT ![th] = how] /\ batch' = batch /\ stack' = [stack EXCEPT ![th] = <<>>]
    BY <1>d, <2>1, <2>2
  <2>4. Moved(th, 0)
    BY <2>3, EmptyMoves
  <2> QED BY <1>1, <1>3, <2>3, <2>4 DEF Delivered
<1>4. CASE n # 1
  <2> DEFINE f == s[n - 1]
             lane == f.pc = "lane"
             gone2 == lane /\ how = "panic" /\ th \in Workers /\ n = 2
             g == IF lane THEN [f EXCEPT !.pc = IF how = "panic" THEN "join_jobs" ELSE "lane"]
                  ELSE IF how = "ok" THEN [f EXCEPT !.next = @ + 1]
                  ELSE [f EXCEPT !.pc = "end", !.how = how]
             t == [rest EXCEPT ![n - 1] = g]
  <2>1. /\ n - 1 \in 1 .. n - 1 /\ n > 1 /\ n - 1 \in 1 .. n /\ n \in Nat /\ rest # <<>> /\ rest[n - 1] = f
        /\ Len(rest) = n - 1 /\ (n - 1 = 1 <=> n = 2)
    BY <1>1, <1>2, <1>4
  <2>2. f \in FrameRec /\ f.pc \in {"sequence", "lane"} /\ f.q \in Queries
    <3>1. stack[th][Size(th) - 1] \in FrameRec /\ stack[th][Size(th) - 1].pc \in {"sequence", "lane"}
      BY <1>1, <2>1, Beneath
    <3>2. f = stack[th][Size(th) - 1]
      BY <1>1 DEF s
    <3> QED BY <3>1, <3>2, Fields
  <2>3. result' = result
    BY <1>d, <2>1
  <2>4. batch' = IF lane THEN [batch EXCEPT ![f.q].worst = Worst(@, how),
                                            ![f.q].out = IF gone2 THEN @ - 1 ELSE @]
                 ELSE batch
    BY <1>d, <2>1
  <2>5. stack' = [stack EXCEPT ![th] = IF gone2 THEN <<>> ELSE t]
    BY <1>d, <2>1
  <2>6. /\ f.pc = "sequence" /\ how = "ok" =>
             Edited(f, g, "sequence", f.acquired, f.donated, f.next + 1, f.claim, f.how)
        /\ f.pc = "sequence" /\ how # "ok" =>
             Edited(f, g, "end", f.acquired, f.donated, f.next, f.claim, how)
        /\ f.pc = "lane" =>
             Edited(f, g, IF how = "panic" THEN "join_jobs" ELSE "lane",
                    f.acquired, f.donated, f.next, f.claim, f.how)
    <3>1. "sequence" \in PCs /\ "end" \in PCs /\ "lane" \in PCs /\ "join_jobs" \in PCs /\ how \in Hows
      BY DEF PCs, Hows
    <3> HIDE DEF f
    <3>2. CASE f.pc = "sequence" /\ how = "ok"
      <4>1. g = [f EXCEPT !.next = @ + 1]
        BY <3>2
      <4>2. Edited(f, [f EXCEPT !.next = @ + 1], f.pc, f.acquired, f.donated, f.next + 1, f.claim, f.how)
        BY <2>2, EditNext
      <4> QED BY <3>2, <4>1, <4>2
    <3>3. CASE f.pc = "sequence" /\ how # "ok"
      <4>1. g = [f EXCEPT !.pc = "end", !.how = how]
        BY <3>3
      <4>2. Edited(f, [f EXCEPT !.pc = "end", !.how = how], "end", f.acquired, f.donated, f.next, f.claim, how)
        BY <2>2, <3>1, EditHow, Zenon
      <4> HIDE DEF g
      <4> QED BY <3>3, <4>1, <4>2
    <3>4. CASE f.pc = "lane"
      <4>1. g = [f EXCEPT !.pc = IF how = "panic" THEN "join_jobs" ELSE "lane"]
        BY <3>4
      <4>2. (IF how = "panic" THEN "join_jobs" ELSE "lane") \in PCs
        BY <3>1
      <4> QED BY <2>2, <3>1, <3>4, <4>1, <4>2, EditPc
    <3> QED BY <3>2, <3>3, <3>4
  <2> HIDE DEF g
  <2>7. g \in FrameRec /\ g.q = f.q /\ g.task = f.task
    BY <2>2, <2>6 DEF Edited
  <2>8. t \in Seq(FrameRec) /\ Len(t) = n - 1 /\ t[n - 1] = g /\ \A i \in 1 .. n - 2 : t[i] = s[i]
    <3>0. \A i \in 1 .. n - 2 : i \in 1 .. n - 1 /\ i # n - 1
      BY <2>1
    <3> HIDE DEF s, n, rest
    <3> QED BY <1>2, <2>1, <2>7, <3>0
  <2>9. CutTo(s, t, n - 1)
    <3>1. \A i \in 1 .. n - 1 : i = n - 1 \/ i \in 1 .. n - 2
      BY <2>1
    <3>2. n - 1 \in 0 .. Len(s) /\ (n - 1) - 1 = n - 2
      BY <2>1 DEF n
    <3> HIDE DEF s, n, t
    <3> QED BY <2>7, <2>8, <3>1, <3>2 DEF CutTo, f
  <2> HIDE DEF t, f
  <2>10. f.pc = "lane" =>
          /\ batch' \in [Queries -> BatchRec]
          /\ \A p \in Queries : p # f.q => batch'[p] = batch[p]
          /\ batch'[f.q].queue = batch[f.q].queue /\ batch'[f.q].worst = Worst(batch[f.q].worst, how)
          /\ gone2 => batch'[f.q].out = batch[f.q].out - 1
          /\ ~gone2 => batch'[f.q].out = batch[f.q].out
    <3> SUFFICES ASSUME lane PROVE
          /\ batch' \in [Queries -> BatchRec]
          /\ \A p \in Queries : p # f.q => batch'[p] = batch[p]
          /\ batch'[f.q].queue = batch[f.q].queue /\ batch'[f.q].worst = Worst(batch[f.q].worst, how)
          /\ gone2 => batch'[f.q].out = batch[f.q].out - 1
          /\ ~gone2 => batch'[f.q].out = batch[f.q].out
      OBVIOUS
    <3> DEFINE w == Worst(batch[f.q].worst, how)
               o == IF gone2 THEN batch[f.q].out - 1 ELSE batch[f.q].out
    <3>1. batch \in [Queries -> BatchRec] /\ batch[f.q] \in BatchRec
      BY <2>2 DEF Shapes
    <3>2. w \in {"ok", "aborted", "panic"}
      BY DEF Worst
    <3>3. o \in Int
      BY <3>1 DEF BatchRec
    <3>4. batch' = [batch EXCEPT ![f.q].worst = w, ![f.q].out = o]
      BY <2>2, <2>4, <3>1
    <3> HIDE DEF w, o
    <3>5. /\ batch' \in [Queries -> BatchRec]
          /\ \A p \in Queries : p # f.q => batch'[p] = batch[p]
          /\ batch'[f.q].queue = batch[f.q].queue /\ batch'[f.q].worst = w /\ batch'[f.q].out = o
      <4>1. LET c == [batch EXCEPT ![f.q].worst = w, ![f.q].out = o] IN
             /\ c \in [Queries -> BatchRec]
             /\ c[f.q].worst = w /\ c[f.q].out = o /\ c[f.q].queue = batch[f.q].queue
             /\ \A p \in Queries : p # f.q => c[p] = batch[p]
        BY <2>2, <3>1, <3>2, <3>3 DEF BatchRec
      <4> QED BY <3>4, <4>1
    <3> QED BY <3>5 DEF w, o
  <2>11. ~lane => batch' = batch
    BY <2>4
  <2>f. f = stack[th][Size(th) - 1] /\ n = Size(th)
    BY <1>1 DEF f, s
  <2>12. CASE gone2
    <3>1. stack' = [stack EXCEPT ![th] = <<>>]
      BY <2>5, <2>12
    <3>2. Moved(th, 0)
      BY <3>1, EmptyMoves, ZenonT(120)
    <3> HIDE DEF g
    <3> QED BY <2>1, <2>2, <2>3, <2>10, <2>12, <2>f, <3>2 DEF Delivered
  <2>13. CASE ~gone2
    <3>1. stack' = [stack EXCEPT ![th] = t]
      BY <2>5, <2>13
    <3>2. Moved(th, n - 1) /\ stack'[th][n - 1] = g
      <4>1. /\ stack' \in [Threads -> Seq(FrameRec)] /\ stack'[th] = t
            /\ \A u \in Threads : u # th => stack'[u] = stack[u]
        BY <1>1, <2>8, <3>1
      <4> QED BY <2>8, <2>9, <4>1 DEF Moved, s
    <3> HIDE DEF g
    <3> QED BY <2>1, <2>2, <2>3, <2>6, <2>10, <2>11, <2>13, <2>f, <3>2 DEF Delivered
  <2> QED BY <2>12, <2>13
<1> QED BY <1>3, <1>4

-----------------------------------------------------------------------------
(* Permits *)

\* The outermost frame of a frame's task.
LEMMA FirstFrame ==
  ASSUME NEW s, NEW n \in Nat, NEW i \in 1 .. n
  PROVE  \E j \in 1 .. i : First(s, j) /\ s[j].task = s[i].task
<1> DEFINE R == {ss \in Nat \X Nat : ss[1] < ss[2]}
           S == {j \in 1 .. i : s[j].task = s[i].task}
<1>1. IsWellFoundedOn(R, Nat)
  BY NatLessThanWellFounded, Zenon DEF OpToRel
<1>2. \A x, y \in Nat : x < y => <<x, y>> \in R
  OBVIOUS
<1>3. S \in SUBSET Nat /\ i \in S
  OBVIOUS
<1> HIDE DEF R, S
<1>4. PICK j \in S : \A y \in S : ~(<<y, j>> \in R)
  <2>1. S # {}
    BY <1>3
  <2> QED BY <1>1, <1>3, <2>1, WFMin
<1>5. j \in 1 .. i /\ s[j].task = s[i].task
  BY <1>4 DEF S
<1>6. ASSUME NEW k \in 1 .. j - 1, s[k].task = s[j].task PROVE FALSE
  <2>1. k \in 1 .. i /\ k < j /\ k \in Nat /\ j \in Nat
    BY <1>5
  <2>2. k \in S
    BY <1>5, <1>6, <2>1 DEF S
  <2> QED BY <1>2, <1>4, <2>1, <2>2
<1> QED BY <1>5, <1>6 DEF First

\* A task that has got beyond its first permit has a frame that took it.
LEMMA TookPermit ==
  ASSUME Shapes, Stacks, Permits, NEW th \in Threads, NEW i \in 1 .. Size(th),
         stack[th][i].task # <<>>, i < Size(th) \/ stack[th][i].pc \in PermitPCs
  PROVE  \E j \in 1 .. i : stack[th][j].task = stack[th][i].task /\ stack[th][j].acquired
<1>1. Size(th) \in Nat /\ Size(th) = Len(stack[th])
  BY Sizes
<1>2. PICK j \in 1 .. i : First(stack[th], j) /\ stack[th][j].task = stack[th][i].task
  BY <1>1, FirstFrame
<1>3. j \in 1 .. Len(stack[th])
  BY <1>1
<1>4. stack[th][j].pc \in PermitPCs
  <2>1. CASE j < Size(th)
    <3>1. j + 1 \in 2 .. Len(stack[th]) /\ (j + 1) - 1 = j
      BY <1>1, <2>1
    <3>2. Above(stack[th][j], stack[th][j + 1])
      BY <3>1 DEF Stacks, Stacked
    <3> QED BY <3>2 DEF Above, PermitPCs, OwnPCs
  <2>2. CASE ~(j < Size(th))
    <3>1. j = i /\ ~(i < Size(th))
      BY <1>1, <2>2
    <3> QED BY <3>1
  <2> QED BY <2>1, <2>2
<1>5. Permitted(stack[th], j, owns)
  BY <1>3 DEF Permits
<1> QED BY <1>2, <1>4, <1>5 DEF Permitted

\* What a task's permit depends on.
LEMMA PermitFrame ==
  ASSUME NEW f, NEW b, NEW own, NEW own2, f.task \in own <=> f.task \in own2, Permit(f, b, own)
  PROVE  Permit(f, b, own2)
BY DEF Permit

\* A step of a thread that takes or gives a permit of its innermost task only.
LEMMA PermitsMoved ==
  ASSUME Shapes, Stacks, Single, Permits, NEW th \in Threads, stack[th] # <<>>, NEW m, Moved(th, m),
         m = Size(th) \/ m = Size(th) - 1 \/ (m = 0 /\ Size(th) = 2 /\ ~stack[th][1].acquired),
         \A x : x # Top(th).task => (x \in owns' <=> x \in owns),
         IsFiniteSet(owns'), used' = Cardinality(owns'), used' <= maximum', 
         m > 0 => Permitted(stack'[th], m, owns'),
         m > 0 /\ m < Size(th) => stack'[th][m].acquired = stack[th][m].acquired,
         Top(th).task \in owns' =>
           \E i \in 1 .. m : stack'[th][i].task = Top(th).task /\ stack'[th][i].acquired
  PROVE  Permits'
<1> DEFINE n == Size(th)
           s == stack[th]
           t == stack'[th]
           T == Top(th).task
<1>1. n \in Nat \ {0} /\ n = Len(s) /\ n \in 1 .. Len(s) /\ T = s[n].task
  BY Tops
<1>2. /\ m \in 0 .. n /\ Len(t) = m /\ \A i \in 1 .. m - 1 : t[i] = s[i]
      /\ \A i \in 1 .. m : t[i].task = s[i].task
  BY <1>1 DEF Moved, CutTo
<1>3. m = n \/ m = n - 1 \/ (m = 0 /\ n = 2 /\ ~s[1].acquired)
  OBVIOUS
<1>4. m = n - 1 /\ m > 0 => \/ s[m].task = T
                            \/ \A j \in 1 .. m : s[j].task # T
  <2> SUFFICES ASSUME m = n - 1, m > 0 PROVE s[m].task = T \/ \A j \in 1 .. m : s[j].task # T
    OBVIOUS
  <2>1. Size(th) > 1
    BY <1>1
  <2>2. \/ stack[th][Size(th)].task = stack[th][Size(th) - 1].task
        \/ \A j \in 1 .. Size(th) - 1 : stack[th][j].task # stack[th][Size(th)].task
    BY <2>1, Beneath
  <2> QED BY <1>1, <2>2
<1>5. \A u \in Threads : u # th => stack'[u] = stack[u]
  BY DEF Moved
<1>6. \A u \in Threads : \A i \in 1 .. Len(stack[u]) : stack[u][i].task = T /\ T # <<>> => u = th
  BY <1>1 DEF Single
<1>7. \A x : x # T => (x \in owns' <=> x \in owns)
  OBVIOUS
<1>8. /\ \A u \in Threads : \A i \in 1 .. Len(stack[u]) : Permitted(stack[u], i, owns)
      /\ \A task \in owns : \E u \in Threads : \E i \in 1 .. Len(stack[u]) :
           stack[u][i].task = task /\ stack[u][i].acquired
  BY DEF Permits
<1> HIDE DEF T, s, t, n
<1>9. ASSUME NEW u \in Threads, NEW i \in 1 .. Len(stack'[u]) PROVE Permitted(stack'[u], i, owns')
  <2>1. CASE u # th
    <3>1. stack'[u] = stack[u] /\ i \in 1 .. Len(stack[u])
      BY <1>5, <2>1
    <3>2. Permitted(stack[u], i, owns)
      BY <1>8, <3>1
    <3>3. stack[u][i].task # <<>> => stack[u][i].task # T
      BY <1>6, <2>1, <3>1
    <3> QED BY <1>7, <3>1, <3>2, <3>3, PermitFrame DEF Permitted
  <2>2. CASE u = th /\ i = m
    <3>1. m > 0
      BY <1>2, <2>2
    <3> QED BY <2>2, <3>1
  <2>3. CASE u = th /\ i # m
    <3>1. i \in 1 .. m - 1 /\ i \in 1 .. m /\ i \in 1 .. Len(s) /\ m > 0 /\ i < m /\ m \in Nat
      BY <1>1, <1>2, <2>3 DEF t
    <3>2. t[i] = s[i] /\ t[i].task = s[i].task
      BY <1>2, <3>1
    <3>3. First(t, i) <=> First(s, i)
      <4>1. \A j \in 1 .. i - 1 : j \in 1 .. m
        BY <1>2, <3>1
      <4> QED BY <1>2, <3>2, <4>1 DEF First
    <3>4. Permitted(s, i, owns)
      BY <1>8, <3>1 DEF s
    <3>5. ASSUME Last(t, i) PROVE Last(s, i) /\ s[i].task # T
      <4>1. m \in i + 1 .. m /\ t[m].task # t[i].task
        BY <1>2, <3>1, <3>5 DEF Last
      <4>2. s[m].task # s[i].task
        BY <1>2, <3>1, <3>2, <4>1
      <4>3. s[i].task # T
        BY <1>1, <1>2, <1>3, <1>4, <3>1, <4>2
      <4>4. \A j \in i + 1 .. m : s[j].task # s[i].task
        <5> TAKE j \in i + 1 .. m
        <5>1. j \in 1 .. m
          BY <3>1
        <5> QED BY <1>2, <3>2, <3>5, <5>1 DEF Last
      <4>5. \A j \in i + 1 .. Len(s) : j = n \/ j \in i + 1 .. m
        BY <1>1, <1>2, <1>3, <3>1
      <4> QED BY <1>1, <4>3, <4>4, <4>5 DEF Last
    <3>6. Permitted(t, i, owns')
      <4>1. s[i].task # <<>> => (t[i].acquired <=> First(t, i) /\ t[i].pc \in PermitPCs)
        BY <3>2, <3>3, <3>4 DEF Permitted
      <4>2. ASSUME s[i].task # <<>>, Last(t, i) PROVE Permit(t[i], First(t, i), owns')
        <5>1. Permit(s[i], First(s, i), owns) /\ s[i].task # T
          BY <3>4, <3>5, <4>2 DEF Permitted
        <5> QED BY <1>7, <3>2, <3>3, <5>1 DEF Permit
      <4> QED BY <3>2, <4>1, <4>2 DEF Permitted
    <3> QED BY <2>3, <3>6 DEF t
  <2> QED BY <2>1, <2>2, <2>3
<1>10. ASSUME NEW task \in owns'
       PROVE  \E u \in Threads : \E i \in 1 .. Len(stack'[u]) : stack'[u][i].task = task /\ stack'[u][i].acquired
  <2>1. CASE task = T
    BY <1>2, <2>1 DEF T, t
  <2>2. CASE task # T
    <3>1. task \in owns
      BY <1>7, <2>2
    <3>2. PICK u \in Threads : \E i \in 1 .. Len(stack[u]) : stack[u][i].task = task /\ stack[u][i].acquired
      BY <1>8, <3>1
    <3>3. PICK i \in 1 .. Len(stack[u]) : stack[u][i].task = task /\ stack[u][i].acquired
      BY <3>2
    <3>4. CASE u # th
      BY <1>5, <3>3, <3>4
    <3>5. CASE u = th
      <4>1. i \in 1 .. n /\ s[i].task = task /\ s[i].acquired /\ i # n
        BY <1>1, <2>2, <3>3, <3>5 DEF s, n
      <4>2. i \in 1 .. m /\ (i = m \/ i \in 1 .. m - 1)
        BY <1>1, <1>2, <1>3, <4>1
      <4>3. t[i].task = task
        BY <1>2, <4>1, <4>2
      <4>4. t[i].acquired
        <5>1. CASE i \in 1 .. m - 1
          BY <1>2, <4>1, <5>1
        <5>2. CASE i = m
          <6>1. m > 0 /\ m < n
            BY <1>1, <4>1, <4>2, <5>2
          <6>2. t[m].acquired = s[m].acquired
            BY <6>1 DEF t, s, n
          <6> QED BY <4>1, <5>2, <6>2
        <5> QED BY <4>2, <5>1, <5>2
      <4> QED BY <1>2, <4>2, <4>3, <4>4 DEF t
    <3> QED BY <3>4, <3>5
  <2> QED BY <2>1, <2>2
<1> QED BY <1>9, <1>10 DEF Permits

-----------------------------------------------------------------------------
(* A frame that is pushed *)

\* The frames are the ones that were there, and the new one.
LEMMA OldFrames ==
  ASSUME Shapes, NEW th \in Threads, NEW g, Pushed(th, g), NEW u \in Threads,
         NEW i \in 1 .. Len(stack'[u])
  PROVE  \/ i \in 1 .. Len(stack[u]) /\ stack'[u][i] = stack[u][i]
         \/ u = th /\ i = Size(th) + 1 /\ stack'[u][i] = g
<1>0. Size(u) \in Nat /\ Size(u) = Len(stack[u])
  BY Sizes
<1>1. CASE u # th
  BY <1>1 DEF Pushed
<1>2. CASE u = th
  <2>1. Len(stack'[u]) = Size(u) + 1 /\ stack'[u][Size(u) + 1] = g /\ \A j \in 1 .. Size(u) : stack'[u][j] = stack[u][j]
    BY <1>2 DEF Pushed, PushedOn, Size
  <2>2. i \in 1 .. Size(u) \/ i = Size(u) + 1
    BY <1>0, <2>1
  <2> QED BY <1>0, <1>2, <2>1, <2>2
<1> QED BY <1>1, <1>2

\* A task runs on one thread.
LEMMA OneThread ==
  ASSUME Single, NEW t \in Threads, NEW u \in Threads, NEW i \in 1 .. Len(stack[t]), NEW j \in 1 .. Len(stack[u]),
         stack[t][i].task = stack[u][j].task, stack[t][i].task # <<>>
  PROVE  t = u
BY DEF Single

\* An item that runs is not queued.
LEMMA NotQueued ==
  ASSUME Single, NEW t \in Threads, NEW i \in 1 .. Len(stack[t]), NEW p \in Queries, NEW k \in Nat,
         stack[t][i].task = <<p, k>>
  PROVE  \A n \in 1 .. Len(batch[p].queue) : batch[p].queue[n] # k
<1>1. \A t1 \in Threads : \A i1 \in 1 .. Len(stack[t1]) : \A p1 \in Queries : \A k1 \in Nat :
        stack[t1][i1].task = <<p1, k1>> =>
          \A n1 \in 1 .. Len(batch[p1].queue) : batch[p1].queue[n1] # k1
  BY Zenon DEF Single
<1> QED BY <1>1, Zenon

\* A frame pushed where it belongs leaves stacks well formed.
LEMMA StacksPushed ==
  ASSUME Shapes, Stacks, NEW th \in Threads, stack[th] # <<>>, NEW g \in FrameRec, Pushed(th, g),
         Local(g), Above(Top(th), g), Top(th).task = <<>> => Top(th).pc = "lane",
         Top(th).pc = "lane" => \A j \in 1 .. Len(stack[th]) : stack[th][j].task # g.task
  PROVE  Stacks'
<1>1. ASSUME NEW u \in Threads PROVE Stacked(u, stack'[u])
  <2>1. CASE u # th
    BY <2>1 DEF Pushed, Stacks
  <2>2. CASE u = th
    <3>1. stack[th] \in Seq(FrameRec) /\ stack'[th] \in Seq(FrameRec) /\ Stacked(th, stack[th])
      BY DEF Pushed, Stacks, Shapes
    <3>2. PushedOn(stack[th], stack'[th], g) /\ Top(th) = stack[th][Len(stack[th])] /\ g.q \in Queries
      BY Fields DEF Pushed, Top
    <3> QED BY <2>2, <3>1, <3>2, StackedPush
  <2> QED BY <2>1, <2>2
<1> QED BY <1>1 DEF Stacks

\* A frame that has not claimed its query changes no ownership.
LEMMA OwnedPushed ==
  ASSUME Shapes, Owned, NEW th \in Threads, NEW g, Pushed(th, g), ~Owner(g), node' = node, owner' = owner
  PROVE  Owned'
<1>1. ASSUME NEW t \in Threads, NEW i \in 1 .. Len(stack'[t]), Owner(stack'[t][i])
      PROVE  i \in 1 .. Len(stack[t]) /\ stack'[t][i] = stack[t][i]
  BY <1>1, OldFrames
<1>2. \A t, u \in Threads : \A i \in 1 .. Len(stack'[t]) : \A j \in 1 .. Len(stack'[u]) :
       Owner(stack'[t][i]) /\ Owner(stack'[u][j]) /\ stack'[t][i].q = stack'[u][j].q => t = u /\ i = j
  <2> SUFFICES ASSUME NEW t \in Threads, NEW u \in Threads, NEW i \in 1 .. Len(stack'[t]), NEW j \in 1 .. Len(stack'[u]),
                      Owner(stack'[t][i]), Owner(stack'[u][j]), stack'[t][i].q = stack'[u][j].q
               PROVE  t = u /\ i = j
    OBVIOUS
  <2>1. i \in 1 .. Len(stack[t]) /\ stack'[t][i] = stack[t][i]
    BY <1>1
  <2>2. j \in 1 .. Len(stack[u]) /\ stack'[u][j] = stack[u][j]
    BY <1>1
  <2> QED BY <2>1, <2>2 DEF Owned
<1>3. \A t \in Threads : \A i \in 1 .. Len(stack'[t]) : Owner(stack'[t][i]) => node[stack'[t][i].q] = "computing"
  BY <1>1 DEF Owned
<1> QED BY <1>2, <1>3 DEF Owned

\* Queues may lose items, and this task is not queued.
Dequeued(task) ==
  /\ \A p \in Queries : \A k \in Nat : task = <<p, k>> =>
       \A n \in 1 .. Len(batch'[p].queue) : batch'[p].queue[n] # k
  /\ \A p \in Queries : \A n \in 1 .. Len(batch'[p].queue) :
       \E o \in 1 .. Len(batch[p].queue) : batch'[p].queue[n] = batch[p].queue[o]
  /\ \A p \in Queries : Indices(p, batch'[p].queue)

\* A task that is pushed runs on its thread only, and is no longer queued.
LEMMA SinglePushed ==
  ASSUME Shapes, Single, NEW th \in Threads, NEW g, Pushed(th, g),
         \A u \in Threads : \A i \in 1 .. Len(stack[u]) : stack[u][i].task = g.task => u = th,
         Dequeued(g.task)
  PROVE  Single'
<1>1. ASSUME NEW t \in Threads, NEW i \in 1 .. Len(stack'[t])
      PROVE  \/ i \in 1 .. Len(stack[t]) /\ stack'[t][i] = stack[t][i]
             \/ t = th /\ stack'[t][i] = g
  BY <1>1, OldFrames
<1>2. ASSUME NEW t \in Threads, NEW u \in Threads, NEW i \in 1 .. Len(stack'[t]), NEW j \in 1 .. Len(stack'[u]),
             stack'[t][i].task = stack'[u][j].task, stack'[t][i].task # <<>>
      PROVE  t = u
  <2>1. \/ i \in 1 .. Len(stack[t]) /\ stack'[t][i] = stack[t][i]
        \/ t = th /\ stack'[t][i] = g
    BY <1>1
  <2>2. \/ j \in 1 .. Len(stack[u]) /\ stack'[u][j] = stack[u][j]
        \/ u = th /\ stack'[u][j] = g
    BY <1>1
  <2>3. CASE i \in 1 .. Len(stack[t]) /\ stack'[t][i] = stack[t][i] /\ j \in 1 .. Len(stack[u]) /\ stack'[u][j] = stack[u][j]
    <3>1. stack[t][i].task = stack[u][j].task /\ stack[t][i].task # <<>>
      BY <1>2, <2>3
    <3> QED BY <2>3, <3>1, OneThread
  <2>4. CASE stack'[t][i] = g /\ t = th
    BY <1>2, <2>2, <2>4
  <2>5. CASE stack'[u][j] = g /\ u = th
    BY <1>2, <2>1, <2>5
  <2> QED BY <2>1, <2>2, <2>3, <2>4, <2>5
<1>3. ASSUME NEW t \in Threads, NEW i \in 1 .. Len(stack'[t]), NEW p \in Queries, NEW k \in Nat,
             stack'[t][i].task = <<p, k>>, NEW n \in 1 .. Len(batch'[p].queue)
      PROVE  batch'[p].queue[n] # k
  <2>1. CASE i \in 1 .. Len(stack[t]) /\ stack'[t][i] = stack[t][i]
    <3>1. i \in 1 .. Len(stack[t]) /\ stack[t][i].task = <<p, k>>
      BY <1>3, <2>1
    <3>3. \A n1 \in 1 .. Len(batch[p].queue) : batch[p].queue[n1] # k
      BY <3>1, NotQueued
    <3>4. PICK o \in 1 .. Len(batch[p].queue) : batch'[p].queue[n] = batch[p].queue[o]
      BY DEF Dequeued
    <3> QED BY <3>3, <3>4
  <2>2. CASE stack'[t][i] = g
    BY <1>3, <2>2, ZenonT(120) DEF Dequeued
  <2> QED BY <1>1, <2>1, <2>2
<1>4. \A p \in Queries : Indices(p, batch'[p].queue)
  BY DEF Dequeued
<1> QED BY <1>2, <1>3, <1>4, ZenonT(120) DEF Single

\* A task that continues has its permit, a task that begins has none.
LEMMA PermitsPushed ==
  ASSUME Shapes, Permits, NEW th \in Threads, stack[th] # <<>>, NEW g \in FrameRec, Pushed(th, g),
         g.pc = "look", ~g.acquired, g.task # <<>>,
         \/ g.task = Top(th).task /\ Top(th).pc = "sequence"
         \/ \A u \in Threads : \A i \in 1 .. Len(stack[u]) : stack[u][i].task # g.task,
         owns' = owns, used' = used, maximum' = maximum
  PROVE  Permits'
<1> DEFINE n == Size(th)
           s == stack[th]
           t == stack'[th]
<1>1. n \in Nat \ {0} /\ n = Len(s) /\ n \in 1 .. Len(s) /\ Top(th) = s[n]
  BY Tops
<1>2. Len(t) = n + 1 /\ t[n + 1] = g /\ \A i \in 1 .. n : t[i] = s[i]
  BY <1>1 DEF Pushed, PushedOn
<1>3. /\ \A u \in Threads : \A i \in 1 .. Len(stack[u]) : Permitted(stack[u], i, owns)
      /\ \A task \in owns : \E u \in Threads : \E i \in 1 .. Len(stack[u]) :
           stack[u][i].task = task /\ stack[u][i].acquired
  BY DEF Permits
<1>4. \A u \in Threads : u # th => stack'[u] = stack[u]
  BY DEF Pushed
<1>h. \/ g.task = s[n].task /\ s[n].pc = "sequence"
      \/ \A u \in Threads : \A i \in 1 .. Len(stack[u]) : stack[u][i].task # g.task
  BY <1>1
<1> HIDE DEF n, s, t
<1>5. ASSUME NEW i \in 1 .. n PROVE Permitted(t, i, owns)
  <2>1. t[i] = s[i] /\ \A j \in 1 .. i - 1 : t[j] = s[j]
    BY <1>1, <1>2
  <2>2. Permitted(s, i, owns)
    BY <1>1, <1>3 DEF s
  <2>3. First(t, i) <=> First(s, i)
    BY <2>1 DEF First
  <2>4. Last(t, i) => Last(s, i)
    <3> SUFFICES ASSUME Last(t, i), NEW j \in i + 1 .. Len(s) PROVE s[j].task # s[i].task
      BY DEF Last
    <3>1. j \in 1 .. n /\ j \in i + 1 .. Len(t)
      BY <1>1, <1>2
    <3> QED BY <1>2, <2>1, <3>1 DEF Last
  <2> QED BY <2>1, <2>2, <2>3, <2>4 DEF Permitted, Permit
<1>6. Permitted(t, n + 1, owns)
  <2>1. First(t, n + 1) <=> g.task \notin owns
    <3>1. CASE g.task = s[n].task /\ s[n].pc = "sequence"
      <4>1. n \in 1 .. (n + 1) - 1 /\ t[n].task = g.task
        BY <1>1, <1>2, <3>1
      <4>2. ~First(t, n + 1)
        BY <1>2, <4>1 DEF First
      <4>3. Permitted(s, n, owns) /\ Last(s, n)
        BY <1>1, <1>3 DEF s, Last
      <4>4. s[n].task \in owns \/ s[n].task = <<>>
        BY <3>1, <4>3 DEF Permitted, Permit
      <4> QED BY <3>1, <4>2, <4>4
    <3>2. CASE \A u \in Threads : \A i \in 1 .. Len(stack[u]) : stack[u][i].task # g.task
      <4>1. \A j \in 1 .. (n + 1) - 1 : t[j].task # t[n + 1].task
        <5> TAKE j \in 1 .. (n + 1) - 1
        <5>1. j \in 1 .. n /\ j \in 1 .. Len(s)
          BY <1>1
        <5> QED BY <1>2, <3>2, <5>1 DEF s
      <4> QED BY <1>3, <3>2, <4>1 DEF First
    <3> QED BY <1>h, <3>1, <3>2
  <2> QED BY <1>2, <2>1 DEF Permitted, Permit, PermitPCs, OwnPCs
<1>7. ASSUME NEW u \in Threads, NEW i \in 1 .. Len(stack'[u]) PROVE Permitted(stack'[u], i, owns)
  <2>1. CASE u # th
    BY <1>3, <1>4, <2>1
  <2>2. CASE u = th
    <3>1. i \in 1 .. n \/ i = n + 1
      BY <1>1, <1>2, <2>2 DEF t
    <3> QED BY <1>5, <1>6, <2>2, <3>1 DEF t
  <2> QED BY <2>1, <2>2
<1>8. ASSUME NEW task \in owns
      PROVE  \E u \in Threads : \E i \in 1 .. Len(stack'[u]) : stack'[u][i].task = task /\ stack'[u][i].acquired
  <2>1. PICK u \in Threads : \E i \in 1 .. Len(stack[u]) : stack[u][i].task = task /\ stack[u][i].acquired
    BY <1>3
  <2>2. PICK i \in 1 .. Len(stack[u]) : stack[u][i].task = task /\ stack[u][i].acquired
    BY <2>1
  <2>3. i \in 1 .. Len(stack'[u]) /\ stack'[u][i] = stack[u][i]
    <3>1. CASE u # th
      BY <1>4, <3>1
    <3>2. CASE u = th
      <4>1. i \in 1 .. n /\ i \in 1 .. n + 1
        BY <1>1, <3>2 DEF s
      <4> QED BY <1>2, <3>2, <4>1 DEF t, s
    <3> QED BY <3>1, <3>2
  <2> QED BY <2>2, <2>3
<1> QED BY <1>7, <1>8 DEF Permits

-----------------------------------------------------------------------------
(* Jobs and slots in steps that change neither *)

\* The bottom of a worker's stack stays.
LEMMA LanesMoved ==
  ASSUME Shapes, NEW th \in Threads, NEW m, Moved(th, m), stack[th] # <<>>, th \in Workers => m > 0
  PROVE  /\ \A w \in Workers : stack'[w] # <<>> <=> stack[w] # <<>>
         /\ \A w \in Workers : stack[w] # <<>> => stack'[w][1].q = stack[w][1].q
         /\ Busy' = Busy /\ \A q \in Queries : LanesOf(q)' = LanesOf(q)
<1>1. ASSUME NEW w \in Workers
      PROVE  /\ stack'[w] # <<>> <=> stack[w] # <<>>
             /\ stack[w] # <<>> => stack'[w][1].q = stack[w][1].q
  <2>0. w \in Threads
    BY DEF Threads
  <2>1. CASE w # th
    BY <2>0, <2>1 DEF Moved
  <2>2. CASE w = th
    <3>1. stack'[th] \in Seq(FrameRec) /\ Len(stack'[th]) = m /\ m > 0 /\ m \in Nat
      BY <2>2, Sizes DEF Moved, CutTo
    <3>2. stack'[th] # <<>> /\ 1 \in 1 .. m
      BY <3>1
    <3>3. stack'[th][1].q = stack[th][1].q
      BY <3>2 DEF Moved, CutTo
    <3> QED BY <2>2, <3>2, <3>3
  <2> QED BY <2>1, <2>2
<1> QED BY <1>1 DEF Busy, LanesOf

\* Jobs stay counted while their parent stays.
LEMMA OutsMoved ==
  ASSUME Shapes, Outs, NEW th \in Threads, NEW m, Moved(th, m), stack[th] # <<>>, th \in Workers => m > 0,
         jobs' = jobs, \A p \in Queries : batch'[p].out = batch[p].out,
         \A i \in 1 .. Size(th) : stack[th][i].task # <<>> /\ stack[th][i].pc \in ScopePCs =>
           i < m \/ (i = m /\ stack'[th][m].pc \in ScopePCs) \/ batch[stack[th][i].q].out = 0,
         m > 0 => Within(stack'[th][m], batch[stack'[th][m].q].out)
  PROVE  Outs'
<1>1. \A q \in Queries : LanesOf(q)' = LanesOf(q) /\ JobsOf(q)' = JobsOf(q)
  BY LanesMoved DEF JobsOf
<1>2. \A q \in Queries : batch'[q].out = Cardinality(LanesOf(q)') + Cardinality(JobsOf(q)')
  BY <1>1 DEF Outs
<1>3. ASSUME NEW q \in Queries, batch'[q].out > 0
      PROVE  \E t \in Threads : \E i \in 1 .. Len(stack'[t]) :
               stack'[t][i].q = q /\ stack'[t][i].task # <<>> /\ stack'[t][i].pc \in ScopePCs
  <2>1. batch[q].out > 0 /\ batch[q].out # 0
    BY <1>3
  <2>2. PICK t \in Threads : \E i \in 1 .. Len(stack[t]) :
               stack[t][i].q = q /\ stack[t][i].task # <<>> /\ stack[t][i].pc \in ScopePCs
    BY <2>1 DEF Outs
  <2>3. PICK i \in 1 .. Len(stack[t]) : stack[t][i].q = q /\ stack[t][i].task # <<>> /\ stack[t][i].pc \in ScopePCs
    BY <2>2
  <2>4. CASE t # th
    <3>1. stack'[t] = stack[t]
      BY <2>4 DEF Moved
    <3> QED BY <2>3, <3>1
  <2>5. CASE t = th
    <3>1. i < m \/ (i = m /\ stack'[th][m].pc \in ScopePCs)
      BY <2>1, <2>3, <2>5 DEF Size
    <3>2. /\ m \in 0 .. Len(stack[th]) /\ Len(stack'[th]) = m /\ Len(stack[th]) \in Nat
          /\ \A j \in 1 .. m - 1 : stack'[th][j] = stack[th][j]
          /\ \A j \in 1 .. m : stack'[th][j].q = stack[th][j].q /\ stack'[th][j].task = stack[th][j].task
      BY Sizes DEF Moved, CutTo, Size
    <3>3. i \in 1 .. m /\ (i \in 1 .. m - 1 \/ i = m)
      BY <2>5, <3>1, <3>2
    <3>4. stack'[th][i].pc \in ScopePCs
      BY <2>3, <2>5, <3>1, <3>2, <3>3
    <3> QED BY <2>3, <2>5, <3>2, <3>3, <3>4
  <2> QED BY <2>4, <2>5
<1>4. ASSUME NEW t \in Threads, NEW i \in 1 .. Len(stack'[t])
      PROVE  Within(stack'[t][i], batch'[stack'[t][i].q].out)
  <2>1. /\ i \in 1 .. Len(stack[t]) /\ stack'[t][i].q = stack[t][i].q
        /\ (t = th /\ i = m /\ m > 0) \/ stack'[t][i] = stack[t][i]
        /\ stack[t][i] \in FrameRec
    BY KeptFrames
  <2>2. batch'[stack'[t][i].q].out = batch[stack[t][i].q].out
    BY <2>1, Fields
  <2>3. CASE t = th /\ i = m /\ m > 0
    BY <2>1, <2>2, <2>3
  <2>4. CASE stack'[t][i] = stack[t][i]
    BY <2>1, <2>2, <2>4 DEF Outs
  <2> QED BY <2>1, <2>3, <2>4
<1>5. \A i \in 1 .. Len(jobs') : Lane0(jobs'[i]) /\ Local(jobs'[i])
  BY DEF Outs
<1> QED BY <1>2, <1>3, <1>4, <1>5 DEF Outs

\* A slot is the number of a frame and one of the slots it claimed.
LEMMA ClaimParts ==
  ASSUME NEW st, NEW t \in Threads, NEW i \in Nat, NEW k \in Nat
  PROVE  /\ <<<<t, i>>, k>> \in ClaimsOf(st) <=> i \in 1 .. Len(st[t]) /\ k \in 1 .. st[t][i].claim
         /\ \A bt : <<<<t, i>>, k>> \in SpentOf(st, bt) <=>
              i \in 1 .. Len(st[t]) /\ k \in 1 .. st[t][i].claim /\ k <= bt[st[t][i].q].out
BY DEF ClaimsOf, SpentOf

\* Sets of slots are equal when they have the same parts.
LEMMA ClaimsEqual ==
  ASSUME NEW S \in SUBSET ((Threads \X Nat) \X Nat), NEW R \in SUBSET ((Threads \X Nat) \X Nat),
         \A t \in Threads : \A i \in Nat : \A k \in Nat : <<<<t, i>>, k>> \in S <=> <<<<t, i>>, k>> \in R
  PROVE  S = R
<1>1. ASSUME NEW c \in (Threads \X Nat) \X Nat PROVE c \in S <=> c \in R
  <2>1. c = <<<<c[1][1], c[1][2]>>, c[2]>> /\ c[1][1] \in Threads /\ c[1][2] \in Nat /\ c[2] \in Nat
    OBVIOUS
  <2> QED BY <2>1
<1> QED BY <1>1

\* Slots and the jobs that use them stay when claims do.
LEMMA SlottedMoved ==
  ASSUME Shapes, Slotted, NEW th \in Threads, NEW m, Moved(th, m), stack[th] # <<>>, th \in Workers => m > 0,
         jobs' = jobs, slots' = slots, maximum' = maximum,
         \A p \in Queries : batch'[p].out = batch[p].out,
         m > 0 => stack'[th][m].claim = stack[th][m].claim,
         \A i \in 1 .. Size(th) : i > m => stack[th][i].claim = 0
  PROVE  Slotted'
<1>1. ASSUME NEW t \in Threads, NEW i \in Nat, NEW k \in Nat
      PROVE  /\ <<<<t, i>>, k>> \in ClaimsOf(stack') <=> <<<<t, i>>, k>> \in ClaimsOf(stack)
             /\ <<<<t, i>>, k>> \in SpentOf(stack', batch') <=> <<<<t, i>>, k>> \in SpentOf(stack, batch)
  <2>1. i \in 1 .. Len(stack'[t]) =>
          /\ i \in 1 .. Len(stack[t]) /\ stack'[t][i].q = stack[t][i].q /\ stack'[t][i].claim = stack[t][i].claim
          /\ batch'[stack'[t][i].q].out = batch[stack[t][i].q].out
    <3> SUFFICES ASSUME i \in 1 .. Len(stack'[t])
                 PROVE  /\ i \in 1 .. Len(stack[t]) /\ stack'[t][i].q = stack[t][i].q
                        /\ stack'[t][i].claim = stack[t][i].claim
                        /\ batch'[stack'[t][i].q].out = batch[stack[t][i].q].out
      OBVIOUS
    <3>1. /\ i \in 1 .. Len(stack[t]) /\ stack'[t][i].q = stack[t][i].q
          /\ (t = th /\ i = m /\ m > 0) \/ stack'[t][i] = stack[t][i]
          /\ stack[t][i] \in FrameRec
      BY KeptFrames
    <3>2. stack'[t][i].claim = stack[t][i].claim
      BY <3>1
    <3> QED BY <3>1, <3>2, Fields
  <2>2. i \in 1 .. Len(stack[t]) /\ i \notin 1 .. Len(stack'[t]) => stack[t][i].claim = 0
    <3> SUFFICES ASSUME i \in 1 .. Len(stack[t]), i \notin 1 .. Len(stack'[t]) PROVE stack[t][i].claim = 0
      OBVIOUS
    <3>1. t = th
      BY DEF Moved
    <3>2. Len(stack'[th]) = m /\ m \in Nat /\ Size(th) = Len(stack[th]) /\ Size(th) \in Nat
      BY Sizes DEF Moved, CutTo
    <3>3. i > m /\ i \in 1 .. Size(th)
      BY <3>1, <3>2
    <3> QED BY <3>1, <3>3
  <2>3. /\ <<<<t, i>>, k>> \in ClaimsOf(stack) <=> i \in 1 .. Len(stack[t]) /\ k \in 1 .. stack[t][i].claim
        /\ <<<<t, i>>, k>> \in SpentOf(stack, batch) <=>
             i \in 1 .. Len(stack[t]) /\ k \in 1 .. stack[t][i].claim /\ k <= batch[stack[t][i].q].out
    BY ClaimParts
  <2>4. /\ <<<<t, i>>, k>> \in ClaimsOf(stack') <=> i \in 1 .. Len(stack'[t]) /\ k \in 1 .. stack'[t][i].claim
        /\ <<<<t, i>>, k>> \in SpentOf(stack', batch') <=>
             i \in 1 .. Len(stack'[t]) /\ k \in 1 .. stack'[t][i].claim /\ k <= batch'[stack'[t][i].q].out
    BY ClaimParts
  <2>5. CASE i \in 1 .. Len(stack'[t])
    BY <2>1, <2>3, <2>4, <2>5
  <2>6. CASE i \notin 1 .. Len(stack'[t])
    BY <2>2, <2>3, <2>4, <2>6
  <2> QED BY <2>5, <2>6
<1>2. ClaimsOf(stack') = ClaimsOf(stack) /\ SpentOf(stack', batch') = SpentOf(stack, batch)
  <2>1. /\ ClaimsOf(stack') \in SUBSET ((Threads \X Nat) \X Nat) /\ ClaimsOf(stack) \in SUBSET ((Threads \X Nat) \X Nat)
        /\ SpentOf(stack', batch') \in SUBSET ((Threads \X Nat) \X Nat) /\ SpentOf(stack, batch) \in SUBSET ((Threads \X Nat) \X Nat)
    BY DEF ClaimsOf, SpentOf
  <2>2. ClaimsOf(stack') = ClaimsOf(stack)
    <3>1. \A t \in Threads : \A i \in Nat : \A k \in Nat :
            <<<<t, i>>, k>> \in ClaimsOf(stack') <=> <<<<t, i>>, k>> \in ClaimsOf(stack)
      BY <1>1, Zenon
    <3> QED BY <2>1, <3>1, ClaimsEqual, ZenonT(120)
  <2>3. SpentOf(stack', batch') = SpentOf(stack, batch)
    <3>1. \A t \in Threads : \A i \in Nat : \A k \in Nat :
            <<<<t, i>>, k>> \in SpentOf(stack', batch') <=> <<<<t, i>>, k>> \in SpentOf(stack, batch)
      BY <1>1, Zenon
    <3> QED BY <2>1, <3>1, ClaimsEqual, ZenonT(120)
  <2> QED BY <2>2, <2>3
<1>3. Busy' = Busy
  BY LanesMoved
<1> QED BY <1>2, <1>3 DEF Slotted

\* So do the executor's threads.
LEMMA MannedMoved ==
  ASSUME Shapes, Manned, NEW th \in Threads, NEW m, Moved(th, m), stack[th] # <<>>, th \in Workers => m > 0,
         maximum' = maximum, UNCHANGED executorVars
  PROVE  Manned'
<1>1. Busy' = Busy
  BY LanesMoved
<1> QED BY <1>1 DEF Manned, executorVars

\* A frame that is pushed changes no job.
LEMMA LanesPushed ==
  ASSUME Shapes, NEW th \in Threads, NEW g, Pushed(th, g), stack[th] # <<>>
  PROVE  Busy' = Busy /\ \A q \in Queries : LanesOf(q)' = LanesOf(q)
<1>1. ASSUME NEW w \in Workers
      PROVE  /\ stack'[w] # <<>> <=> stack[w] # <<>>
             /\ stack[w] # <<>> => stack'[w][1].q = stack[w][1].q
  <2>0. w \in Threads
    BY DEF Threads
  <2>1. CASE w # th
    BY <2>0, <2>1 DEF Pushed
  <2>2. CASE w = th
    <3>1. stack'[th] \in Seq(FrameRec) /\ Len(stack'[th]) = Size(th) + 1 /\ Size(th) \in Nat \ {0} /\ Size(th) = Len(stack[th])
      BY Tops DEF Pushed, PushedOn
    <3>2. stack'[th] # <<>> /\ 1 \in 1 .. Len(stack[th])
      BY <3>1
    <3>3. stack'[th][1] = stack[th][1]
      BY <3>2 DEF Pushed, PushedOn
    <3> QED BY <2>2, <3>2, <3>3
  <2> QED BY <2>1, <2>2
<1> QED BY <1>1 DEF Busy, LanesOf

\* Nor their counters.
LEMMA OutsPushed ==
  ASSUME Shapes, Outs, NEW th \in Threads, NEW g \in FrameRec, Pushed(th, g), stack[th] # <<>>, g.pc = "look",
         jobs' = jobs, \A p \in Queries : batch'[p].out = batch[p].out
  PROVE  Outs'
<1>1. \A q \in Queries : LanesOf(q)' = LanesOf(q) /\ JobsOf(q)' = JobsOf(q)
  BY LanesPushed DEF JobsOf
<1>2. \A q \in Queries : batch'[q].out = Cardinality(LanesOf(q)') + Cardinality(JobsOf(q)')
  BY <1>1 DEF Outs
<1>3. ASSUME NEW q \in Queries, batch'[q].out > 0
      PROVE  \E t \in Threads : \E i \in 1 .. Len(stack'[t]) :
               stack'[t][i].q = q /\ stack'[t][i].task # <<>> /\ stack'[t][i].pc \in ScopePCs
  <2>1. batch[q].out > 0
    BY <1>3
  <2>2. PICK t \in Threads : \E i \in 1 .. Len(stack[t]) :
               stack[t][i].q = q /\ stack[t][i].task # <<>> /\ stack[t][i].pc \in ScopePCs
    BY <2>1 DEF Outs
  <2>3. PICK i \in 1 .. Len(stack[t]) : stack[t][i].q = q /\ stack[t][i].task # <<>> /\ stack[t][i].pc \in ScopePCs
    BY <2>2
  <2>4. i \in 1 .. Len(stack'[t]) /\ stack'[t][i] = stack[t][i]
    <3>1. CASE t # th
      BY <3>1 DEF Pushed
    <3>2. CASE t = th
      <4>1. Len(stack[th]) \in Nat /\ Len(stack'[th]) = Len(stack[th]) + 1 /\ \A j \in 1 .. Len(stack[th]) : stack'[th][j] = stack[th][j]
        BY Sizes DEF Pushed, PushedOn, Size
      <4> QED BY <3>2, <4>1
    <3> QED BY <3>1, <3>2
  <2> QED BY <2>3, <2>4
<1>4. ASSUME NEW t \in Threads, NEW i \in 1 .. Len(stack'[t])
      PROVE  Within(stack'[t][i], batch'[stack'[t][i].q].out)
  <2>1. CASE i \in 1 .. Len(stack[t]) /\ stack'[t][i] = stack[t][i]
    <3>1. stack[t][i].q \in Queries
      BY <2>1, Sizes, Fields DEF Size
    <3> QED BY <2>1, <3>1 DEF Outs
  <2>2. CASE stack'[t][i] = g
    BY <2>2 DEF Within
  <2> QED BY <2>1, <2>2, OldFrames
<1>5. \A i \in 1 .. Len(jobs') : Lane0(jobs'[i]) /\ Local(jobs'[i])
  BY DEF Outs
<1> QED BY <1>2, <1>3, <1>4, <1>5 DEF Outs

\* Nor the slots.
LEMMA ClaimsPushed ==
  ASSUME Shapes, NEW th \in Threads, NEW g \in FrameRec, Pushed(th, g), g.claim = 0,
         \A p \in Queries : batch'[p].out = batch[p].out
  PROVE  ClaimsOf(stack') = ClaimsOf(stack) /\ SpentOf(stack', batch') = SpentOf(stack, batch)
<1>1. ASSUME NEW t \in Threads, NEW i \in Nat, NEW k \in Nat
      PROVE  /\ <<<<t, i>>, k>> \in ClaimsOf(stack') <=> <<<<t, i>>, k>> \in ClaimsOf(stack)
             /\ <<<<t, i>>, k>> \in SpentOf(stack', batch') <=> <<<<t, i>>, k>> \in SpentOf(stack, batch)
  <2>0. \A u \in Threads : Len(stack[u]) \in Nat
    BY Sizes DEF Size
  <2>1. i \in 1 .. Len(stack[t]) =>
          /\ i \in 1 .. Len(stack'[t]) /\ stack'[t][i] = stack[t][i]
          /\ batch'[stack'[t][i].q].out = batch[stack[t][i].q].out
    <3> SUFFICES ASSUME i \in 1 .. Len(stack[t])
                 PROVE  /\ i \in 1 .. Len(stack'[t]) /\ stack'[t][i] = stack[t][i]
                        /\ batch'[stack'[t][i].q].out = batch[stack[t][i].q].out
      OBVIOUS
    <3>1. i \in 1 .. Len(stack'[t]) /\ stack'[t][i] = stack[t][i]
      <4>1. CASE t # th
        BY <4>1 DEF Pushed
      <4>2. CASE t = th
        <5>1. Len(stack'[th]) = Len(stack[th]) + 1 /\ \A j \in 1 .. Len(stack[th]) : stack'[th][j] = stack[th][j]
          BY DEF Pushed, PushedOn
        <5> QED BY <2>0, <4>2, <5>1
      <4> QED BY <4>1, <4>2
    <3>2. stack[t][i].q \in Queries
      BY Sizes, Fields DEF Size
    <3> QED BY <3>1, <3>2
  <2>2. i \notin 1 .. Len(stack[t]) /\ i \in 1 .. Len(stack'[t]) => stack'[t][i].claim = 0
    BY OldFrames
  <2>3. /\ <<<<t, i>>, k>> \in ClaimsOf(stack) <=> i \in 1 .. Len(stack[t]) /\ k \in 1 .. stack[t][i].claim
        /\ <<<<t, i>>, k>> \in SpentOf(stack, batch) <=>
             i \in 1 .. Len(stack[t]) /\ k \in 1 .. stack[t][i].claim /\ k <= batch[stack[t][i].q].out
    BY ClaimParts
  <2>4. /\ <<<<t, i>>, k>> \in ClaimsOf(stack') <=> i \in 1 .. Len(stack'[t]) /\ k \in 1 .. stack'[t][i].claim
        /\ <<<<t, i>>, k>> \in SpentOf(stack', batch') <=>
             i \in 1 .. Len(stack'[t]) /\ k \in 1 .. stack'[t][i].claim /\ k <= batch'[stack'[t][i].q].out
    BY ClaimParts
  <2>5. CASE i \in 1 .. Len(stack[t])
    BY <2>1, <2>3, <2>4, <2>5
  <2>6. CASE i \notin 1 .. Len(stack[t])
    BY <2>2, <2>3, <2>4, <2>6
  <2> QED BY <2>5, <2>6
<1>2. ClaimsOf(stack') = ClaimsOf(stack) /\ SpentOf(stack', batch') = SpentOf(stack, batch)
  <2>1. /\ ClaimsOf(stack') \in SUBSET ((Threads \X Nat) \X Nat) /\ ClaimsOf(stack) \in SUBSET ((Threads \X Nat) \X Nat)
        /\ SpentOf(stack', batch') \in SUBSET ((Threads \X Nat) \X Nat) /\ SpentOf(stack, batch) \in SUBSET ((Threads \X Nat) \X Nat)
    BY DEF ClaimsOf, SpentOf
  <2>2. ClaimsOf(stack') = ClaimsOf(stack)
    <3>1. \A t \in Threads : \A i \in Nat : \A k \in Nat :
            <<<<t, i>>, k>> \in ClaimsOf(stack') <=> <<<<t, i>>, k>> \in ClaimsOf(stack)
      BY <1>1, Zenon
    <3> QED BY <2>1, <3>1, ClaimsEqual, ZenonT(120)
  <2>3. SpentOf(stack', batch') = SpentOf(stack, batch)
    <3>1. \A t \in Threads : \A i \in Nat : \A k \in Nat :
            <<<<t, i>>, k>> \in SpentOf(stack', batch') <=> <<<<t, i>>, k>> \in SpentOf(stack, batch)
      BY <1>1, Zenon
    <3> QED BY <2>1, <3>1, ClaimsEqual, Zenon
  <2> QED BY <2>2, <2>3
<1> QED BY <1>2

\* So they stay counted.
LEMMA SlottedPushed ==
  ASSUME Shapes, Slotted, NEW th \in Threads, NEW g \in FrameRec, Pushed(th, g), stack[th] # <<>>, g.claim = 0,
         jobs' = jobs, slots' = slots, maximum' = maximum,
         \A p \in Queries : batch'[p].out = batch[p].out
  PROVE  Slotted'
<1>1. ClaimsOf(stack') = ClaimsOf(stack) /\ SpentOf(stack', batch') = SpentOf(stack, batch)
  BY ClaimsPushed
<1>2. Busy' = Busy
  BY LanesPushed
<1> QED BY <1>1, <1>2 DEF Slotted

\* Nor the executor.
LEMMA MannedPushed ==
  ASSUME Shapes, Manned, NEW th \in Threads, NEW g, Pushed(th, g), stack[th] # <<>>,
         maximum' = maximum, UNCHANGED executorVars
  PROVE  Manned'
<1>1. Busy' = Busy
  BY LanesPushed
<1> QED BY <1>1 DEF Manned, executorVars

-----------------------------------------------------------------------------
(* Answers *)

\* Answers that are there stay, and complete ones come.
Progress ==
  /\ \A q \in Queries : node[q] = "terminal" => node'[q] = "terminal"
  /\ \A q \in Queries : node'[q] = "terminal" /\ node[q] # "terminal" =>
       \A k \in DOMAIN Demands[q] : node[Demands[q][k]] = "terminal"

\* What has been answered completely stays so.
LEMMA CompleteStays ==
  ASSUME Answers, Progress
  PROVE  AnswersAreComplete'
<1>1. ASSUME NEW q \in Queries, node'[q] = "terminal", NEW k \in DOMAIN Demands[q]
      PROVE  node'[Demands[q][k]] = "terminal"
  <2>1. node[Demands[q][k]] = "terminal" /\ Demands[q][k] \in Queries
    BY <1>1, Constants DEF Answers, AnswersAreComplete, Progress
  <2> QED BY <2>1 DEF Progress
<1> QED BY <1>1 DEF AnswersAreComplete

\* An item in a lane stays there until its own frame goes.
LEMMA FlyingMoved ==
  ASSUME Shapes, NEW th \in Threads, stack[th] # <<>>, NEW m, Moved(th, m),
         m = Size(th) \/ m = Size(th) - 1 \/ (m = 0 /\ Size(th) = 2),
         NEW q \in Queries, NEW k, Flying(stack, q, k)
  PROVE  \/ Flying(stack', q, k)
         \/ /\ m < Size(th) /\ Size(th) > 1 /\ stack[th][Size(th) - 1].pc = "lane"
            /\ stack[th][Size(th) - 1].q = q /\ stack[th][Size(th)].task = <<q, k>>
<1>1. PICK t \in Threads : \E j \in 1 .. Len(stack[t]) - 1 :
         stack[t][j].pc = "lane" /\ stack[t][j].q = q /\ stack[t][j + 1].task = <<q, k>>
  BY DEF Flying
<1>2. PICK j \in 1 .. Len(stack[t]) - 1 :
         stack[t][j].pc = "lane" /\ stack[t][j].q = q /\ stack[t][j + 1].task = <<q, k>>
  BY <1>1
<1>3. CASE t # th
  <2>1. stack'[t] = stack[t]
    BY <1>3 DEF Moved
  <2> QED BY <1>2, <2>1 DEF Flying
<1>4. CASE t = th
  <2> DEFINE n == Size(th)
  <2>1. n \in Nat \ {0} /\ n = Len(stack[th])
    BY Tops
  <2>2. /\ m \in 0 .. n /\ Len(stack'[th]) = m
        /\ \A i \in 1 .. m - 1 : stack'[th][i] = stack[th][i]
        /\ \A i \in 1 .. m : stack'[th][i].task = stack[th][i].task
    BY <2>1 DEF Moved, CutTo
  <2>h. m = n \/ m = n - 1 \/ (m = 0 /\ n = 2)
    OBVIOUS
  <2> HIDE DEF n
  <2>3. CASE j + 1 <= m
    <3>1. j \in 1 .. m - 1 /\ j + 1 \in 1 .. m /\ j \in 1 .. Len(stack'[th]) - 1
      BY <1>4, <2>1, <2>2, <2>3
    <3>2. stack'[th][j] = stack[th][j] /\ stack'[th][j + 1].task = stack[th][j + 1].task
      BY <2>2, <3>1
    <3>3. Flying(stack', q, k)
      BY <1>2, <1>4, <3>1, <3>2 DEF Flying
    <3> QED BY <3>3
  <2>4. CASE ~(j + 1 <= m)
    <3>0. j \in 1 .. n - 1
      BY <1>4, <2>1
    <3>1. j + 1 = n /\ m < n /\ n > 1 /\ j = n - 1
      BY <2>1, <2>2, <2>4, <2>h, <3>0
    <3> QED BY <1>2, <1>4, <3>1 DEF n
  <2> QED BY <2>3, <2>4
<1> QED BY <1>3, <1>4

\* What is cared for stays so, unless its batch fails.
LEMMA CaredMoved ==
  ASSUME Shapes, Progress, NEW th \in Threads, stack[th] # <<>>, NEW m, Moved(th, m),
         m = Size(th) \/ m = Size(th) - 1 \/ (m = 0 /\ Size(th) = 2),
         NEW q \in Queries, NEW k \in DOMAIN Demands[q], Cared(q, k, stack, node, batch),
         batch'[q].queue = batch[q].queue,
         m < Size(th) /\ Size(th) > 1 /\ stack[th][Size(th) - 1].pc = "lane" /\ stack[th][Size(th) - 1].q = q
           /\ stack[th][Size(th)].task = <<q, k>> => node'[Demands[q][k]] = "terminal"
  PROVE  Cared(q, k, stack', node', batch')
<1>1. Demands[q][k] \in Queries
  BY Constants
<1>2. CASE node[Demands[q][k]] = "terminal"
  BY <1>1, <1>2 DEF Progress, Cared
<1>3. CASE \E n \in 1 .. Len(batch[q].queue) : batch[q].queue[n] = k
  BY <1>3 DEF Cared
<1>4. CASE Flying(stack, q, k)
  BY <1>4, FlyingMoved DEF Cared
<1> QED BY <1>2, <1>3, <1>4 DEF Cared

\* A step that keeps answers and cares for items, but for the frame it changes.
LEMMA AnswersMoved ==
  ASSUME Shapes, Answers, Progress, NEW th \in Threads, stack[th] # <<>>, NEW m, Moved(th, m),
         m = Size(th) \/ m = Size(th) - 1 \/ (m = 0 /\ Size(th) = 2),
         \A q \in Queries : batch'[q].queue = batch[q].queue /\ (batch'[q].worst = "ok" => batch[q].worst = "ok"),
         \A k \in Nat : m < Size(th) /\ Size(th) > 1 /\ stack[th][Size(th) - 1].pc = "lane"
             /\ stack[th][Size(th)].task = <<stack[th][Size(th) - 1].q, k>> =>
               \/ node'[Demands[stack[th][Size(th) - 1].q][k]] = "terminal"
               \/ batch'[stack[th][Size(th) - 1].q].worst # "ok",
         m > 0 => Answered(stack'[th][m], stack', node', batch')
  PROVE  Answers'
<1>1. ASSUME NEW t \in Threads, NEW i \in 1 .. Len(stack'[t])
      PROVE  Answered(stack'[t][i], stack', node', batch')
  <2>1. /\ i \in 1 .. Len(stack[t])
        /\ (t = th /\ i = m /\ m > 0) \/ stack'[t][i] = stack[t][i]
        /\ stack[t][i] \in FrameRec
    BY KeptFrames
  <2>2. CASE t = th /\ i = m /\ m > 0
    BY <2>2
  <2>3. CASE stack'[t][i] = stack[t][i]
    <3> DEFINE f == stack[t][i]
    <3>1. f.q \in Queries /\ \A k \in DOMAIN Demands[f.q] : Demands[f.q][k] \in Queries /\ k \in Nat
      BY <2>1, Fields, Constants
    <3>2. Answered(f, stack, node, batch)
      BY <2>1 DEF Answers
    <3>q. batch'[f.q].queue = batch[f.q].queue /\ (batch'[f.q].worst = "ok" => batch[f.q].worst = "ok")
      BY <3>1
    <3> HIDE DEF f
    <3>3. f.pc = "sequence" => \A k \in DOMAIN Demands[f.q] : k < f.next => node'[Demands[f.q][k]] = "terminal"
      BY <3>1, <3>2 DEF Answered, Progress
    <3>4. f.pc = "end" /\ f.how = "ok" => \A k \in DOMAIN Demands[f.q] : node'[Demands[f.q][k]] = "terminal"
      BY <3>1, <3>2 DEF Answered, Progress
    <3>5. f.pc = "rejoin" /\ f.how = "ok" => node'[f.q] = "terminal"
      BY <3>1, <3>2 DEF Answered, Progress
    <3>6. ASSUME f.task # <<>>, f.pc \in BatchPCs, batch'[f.q].worst = "ok"
          PROVE  /\ \A k \in DOMAIN Demands[f.q] : Cared(f.q, k, stack', node', batch')
                 /\ f.pc # "dispatch" /\ f.pc # "lane" => batch'[f.q].queue = <<>>
      <4>1. /\ \A k \in DOMAIN Demands[f.q] : Cared(f.q, k, stack, node, batch)
            /\ f.pc # "dispatch" /\ f.pc # "lane" => batch'[f.q].queue = <<>>
        BY <3>2, <3>6, <3>q DEF Answered
      <4>2. ASSUME NEW k \in DOMAIN Demands[f.q] PROVE Cared(f.q, k, stack', node', batch')
        <5>1. /\ Cared(f.q, k, stack, node, batch) /\ k \in Nat /\ f.q \in Queries
              /\ batch'[f.q].queue = batch[f.q].queue
          BY <3>1, <3>q, <4>1
        <5>2. m < Size(th) /\ Size(th) > 1 /\ stack[th][Size(th) - 1].pc = "lane" /\ stack[th][Size(th) - 1].q = f.q
                /\ stack[th][Size(th)].task = <<f.q, k>> => node'[Demands[f.q][k]] = "terminal"
          BY <3>6, <5>1
        <5> QED BY <5>1, <5>2, CaredMoved
      <4> QED BY <4>1, <4>2
    <3>7. Answered(f, stack', node', batch')
      BY <3>3, <3>4, <3>5, <3>6 DEF Answered
    <3> QED BY <2>3, <3>7 DEF f
  <2> QED BY <2>1, <2>2, <2>3
<1>2. AnswersAreComplete'
  BY CompleteStays
<1> QED BY <1>1, <1>2 DEF Answers

\* An item that is taken from the queue is cared for by the frame that takes it.
LEMMA AnswersPushed ==
  ASSUME Shapes, Answers, NEW th \in Threads, NEW g \in FrameRec, Pushed(th, g), g.pc = "look" \/ g.task = <<>>, g.pc \in {"look", "lane"}, node' = node,
         \A q \in Queries : batch'[q].worst = batch[q].worst /\ (batch[q].queue = <<>> => batch'[q].queue = <<>>),
         \A q \in Queries : \A n \in 1 .. Len(batch[q].queue) :
           \/ \E o \in 1 .. Len(batch'[q].queue) : batch'[q].queue[o] = batch[q].queue[n]
           \/ Flying(stack', q, batch[q].queue[n])
  PROVE  Answers'
<1>0. \A t \in Threads : Len(stack[t]) \in Nat
  BY Sizes DEF Size
<1>1. ASSUME NEW q \in Queries, NEW k, Flying(stack, q, k) PROVE Flying(stack', q, k)
  <2>1. PICK t \in Threads : \E j \in 1 .. Len(stack[t]) - 1 :
           stack[t][j].pc = "lane" /\ stack[t][j].q = q /\ stack[t][j + 1].task = <<q, k>>
    BY <1>1 DEF Flying
  <2>2. PICK j \in 1 .. Len(stack[t]) - 1 :
           stack[t][j].pc = "lane" /\ stack[t][j].q = q /\ stack[t][j + 1].task = <<q, k>>
    BY <2>1
  <2>3. j \in 1 .. Len(stack'[t]) - 1 /\ stack'[t][j] = stack[t][j] /\ stack'[t][j + 1] = stack[t][j + 1]
    <3>1. CASE t # th
      BY <3>1 DEF Pushed
    <3>2. CASE t = th
      <4>1. Len(stack'[th]) = Len(stack[th]) + 1 /\ \A i \in 1 .. Len(stack[th]) : stack'[th][i] = stack[th][i]
        BY DEF Pushed, PushedOn
      <4>2. j \in 1 .. Len(stack[th]) /\ j + 1 \in 1 .. Len(stack[th]) /\ j \in 1 .. Len(stack[th])
        BY <1>0, <3>2
      <4>3. j \in 1 .. (Len(stack[th]) + 1) - 1
        BY <1>0, <4>2
      <4> QED BY <3>2, <4>1, <4>2, <4>3
    <3> QED BY <3>1, <3>2
  <2>4. stack'[t][j].pc = "lane" /\ stack'[t][j].q = q /\ stack'[t][j + 1].task = <<q, k>>
    BY <2>2, <2>3
  <2>5. j \in 1 .. Len(stack'[t]) - 1
    BY <2>3
  <2> QED BY <2>4, <2>5, ZenonT(120) DEF Flying
<1>2. ASSUME NEW q \in Queries, NEW k, Cared(q, k, stack, node, batch) PROVE Cared(q, k, stack', node', batch')
  <2>1. CASE \E n \in 1 .. Len(batch[q].queue) : batch[q].queue[n] = k
    BY <2>1 DEF Cared
  <2>2. CASE Flying(stack, q, k)
    BY <1>1, <2>2 DEF Cared
  <2> QED BY <1>2, <2>1, <2>2 DEF Cared
<1>3. ASSUME NEW t \in Threads, NEW i \in 1 .. Len(stack'[t])
      PROVE  Answered(stack'[t][i], stack', node', batch')
  <2>1. CASE i \in 1 .. Len(stack[t]) /\ stack'[t][i] = stack[t][i]
    <3> DEFINE f == stack[t][i]
    <3>1. f.q \in Queries
      BY <2>1, Sizes, Fields DEF Size
    <3>2. Answered(f, stack, node, batch)
      BY <2>1 DEF Answers
    <3>3. batch'[f.q].worst = batch[f.q].worst /\ (batch[f.q].queue = <<>> => batch'[f.q].queue = <<>>)
      BY <3>1
    <3> HIDE DEF f
    <3>4. f.task # <<>> /\ f.pc \in BatchPCs /\ batch'[f.q].worst = "ok" =>
            /\ \A k \in DOMAIN Demands[f.q] : Cared(f.q, k, stack', node', batch')
            /\ f.pc # "dispatch" /\ f.pc # "lane" => batch'[f.q].queue = <<>>
      BY <1>2, <3>1, <3>2, <3>3 DEF Answered
    <3>5. Answered(f, stack', node', batch')
      BY <3>2, <3>4 DEF Answered
    <3> QED BY <2>1, <3>5 DEF f
  <2>2. CASE stack'[t][i] = g
    BY <2>2 DEF Answered, BatchPCs, ClaimPCs
  <2> QED BY <2>1, <2>2, OldFrames
<1>4. AnswersAreComplete'
  BY DEF Answers, AnswersAreComplete
<1> QED BY <1>3, <1>4 DEF Answers

-----------------------------------------------------------------------------
(* A batch is a scope *)

\* Sets that are counted are finite.
LEMMA Finite ==
  ASSUME Shapes, Manned, NEW q \in Queries
  PROVE  /\ IsFiniteSet(Busy) /\ IsFiniteSet(LanesOf(q)) /\ IsFiniteSet(JobsOf(q))
         /\ Cardinality(Busy) \in Nat /\ Cardinality(LanesOf(q)) \in Nat /\ Cardinality(JobsOf(q)) \in Nat
         /\ Len(jobs) \in Nat /\ Cardinality(born) \in Nat
<1>1. IsFiniteSet(born) /\ Busy \subseteq born
  BY DEF Manned
<1>2. IsFiniteSet(Busy)
  BY <1>1, FS_Subset
<1>3. IsFiniteSet(LanesOf(q))
  <2>1. LanesOf(q) \subseteq Busy
    BY DEF LanesOf, Busy
  <2> QED BY <1>2, <2>1, FS_Subset
<1>4. Len(jobs) \in Nat
  BY DEF Shapes
<1>5. IsFiniteSet(JobsOf(q))
  <2>1. IsFiniteSet(1 .. Len(jobs)) /\ JobsOf(q) \subseteq 1 .. Len(jobs)
    BY <1>4, FS_Interval DEF JobsOf
  <2> QED BY <2>1, FS_Subset
<1> QED BY <1>1, <1>2, <1>3, <1>4, <1>5, FS_CardinalityType

\* A lane that is nobody's frame is a worker's.
LEMMA LaneFrames ==
  ASSUME Shapes, Stacks, NEW t \in Threads, NEW j \in 1 .. Len(stack[t]), stack[t][j].task = <<>>
  PROVE  t \in Workers /\ j = 1 /\ t \in LanesOf(stack[t][j].q)
<1>1. Stacked(t, stack[t]) /\ Len(stack[t]) \in Nat /\ stack[t] # <<>>
  BY Sizes DEF Stacks, Size
<1>2. j = 1
  <2>1. CASE j # 1
    <3>1. j \in 2 .. Len(stack[t])
      BY <1>1, <2>1
    <3> QED BY <1>1, <3>1 DEF Stacked
  <2> QED BY <2>1
<1>3. t \in Workers
  <2>1. CASE t \notin Workers
    <3>1. stack[t][1].task = <<t>>
      BY <1>1, <2>1 DEF Stacked
    <3> QED BY <1>2, <3>1, Names
  <2> QED BY <2>1
<1> QED BY <1>1, <1>2, <1>3 DEF LanesOf

\* While the owner of a query is not in its batch, nothing of the batch runs.
LEMMA NoLane ==
  ASSUME Shapes, Stacks, Owned, Outs, Manned, NEW th \in Threads, NEW i \in 1 .. Len(stack[th]),
         NEW q, q = stack[th][i].q, stack[th][i].task # <<>>, stack[th][i].pc \in OwnPCs \ ScopePCs
  PROVE  /\ batch[q].out = 0 /\ LanesOf(q) = {} /\ q \in Queries
         /\ \A t \in Threads : \A j \in 1 .. Len(stack[t]) : ~(stack[t][j].pc = "lane" /\ stack[t][j].q = q)
         /\ \A t \in Threads : \A j \in 1 .. Len(stack[t]) : \A k \in Nat : stack[t][j].task # <<q, k>>
<1>0. q \in Queries
  BY Sizes, Fields DEF Size
<1>1. Owner(stack[th][i])
  BY DEF Owner
<1>2. ~(batch[q].out > 0)
  <2>1. ASSUME NEW t \in Threads, NEW j \in 1 .. Len(stack[t]),
               stack[t][j].q = q, stack[t][j].task # <<>>, stack[t][j].pc \in ScopePCs
        PROVE FALSE
    <3>1. Owner(stack[t][j])
      BY <2>1 DEF Owner, OwnPCs, ScopePCs
    <3>2. t = th /\ j = i
      BY <1>1, <2>1, <3>1 DEF Owned
    <3> QED BY <2>1, <3>2
  <2> QED BY <1>0, <2>1 DEF Outs
<1>3. batch[q].out = 0 /\ Cardinality(LanesOf(q)) = 0
  <2>1. batch[q].out = Cardinality(LanesOf(q)) + Cardinality(JobsOf(q))
    BY <1>0 DEF Outs
  <2>2. Cardinality(LanesOf(q)) \in Nat /\ Cardinality(JobsOf(q)) \in Nat
    BY <1>0, Finite
  <2> QED BY <1>2, <2>1, <2>2
<1>4. LanesOf(q) = {}
  BY <1>0, <1>3, Finite, FS_EmptySet
<1>5. ASSUME NEW t \in Threads, NEW j \in 1 .. Len(stack[t]), stack[t][j].pc = "lane", stack[t][j].q = q
      PROVE  FALSE
  <2>1. CASE stack[t][j].task = <<>>
    BY <1>4, <1>5, <2>1, LaneFrames
  <2>2. CASE stack[t][j].task # <<>>
    <3>1. Owner(stack[t][j])
      BY <1>5, <2>2 DEF Owner, OwnPCs
    <3>2. t = th /\ j = i
      BY <1>1, <1>5, <3>1 DEF Owned
    <3> QED BY <1>5, <3>2 DEF ScopePCs
  <2> QED BY <2>1, <2>2
<1>6. ASSUME NEW t \in Threads, NEW j \in 1 .. Len(stack[t]), NEW k \in Nat, stack[t][j].task = <<q, k>>
      PROVE  FALSE
  <2>1. \A j1 \in 1 .. Len(stack[t]) : \A p1 \in Queries : \A k1 \in Nat :
          stack[t][j1].task = <<p1, k1>> => \E l \in 1 .. j1 - 1 : stack[t][l].pc = "lane" /\ stack[t][l].q = p1
    BY DEF Stacks, Stacked
  <2>2. PICK l \in 1 .. j - 1 : stack[t][l].pc = "lane" /\ stack[t][l].q = q
    BY <1>0, <1>6, <2>1, ZenonT(120)
  <2>3. l \in 1 .. Len(stack[t])
    BY Sizes DEF Size
  <2> QED BY <1>5, <2>2, <2>3
<1> QED BY <1>0, <1>3, <1>4, <1>5, <1>6

-----------------------------------------------------------------------------
(* The innermost frame goes on *)

\* What happens to permits: only the innermost task may take or give one.
PermitStep(task) ==
  /\ \A x : x # task => (x \in owns' <=> x \in owns)
  /\ owns' \subseteq Tasks /\ used' \in Int
  /\ IsFiniteSet(owns') /\ used' = Cardinality(owns') /\ used' <= maximum

\* Stacks, ownership and permits, when frame g replaces the innermost one.
LEMMA Replaced ==
  ASSUME Shapes, Stacks, Owned, Single, Permits, NEW th \in Threads, stack[th] # <<>>, NEW g \in FrameRec,
         g.q = Top(th).q, g.task = Top(th).task, SetTop(th, g), maximum' = maximum,
         Local(g), th \in Workers /\ Size(th) = 1 => Lane0(g),
         Owned' \/ (node' = node /\ owner' = owner /\ (Owner(g) => Owner(Top(th)))),
         PermitStep(g.task),
         g.task # <<>> =>
           /\ g.acquired <=> First(stack[th], Size(th)) /\ g.pc \in PermitPCs
           /\ Permit(g, First(stack[th], Size(th)), owns')
  PROVE  Stacks' /\ Owned' /\ Permits'
<1> DEFINE n == Size(th)
           s == stack[th]
           t == stack'[th]
<1>1. n \in Nat \ {0} /\ n = Len(s) /\ n \in 1 .. Len(s) /\ Top(th) = s[n]
  BY Tops
<1>2. Moved(th, n) /\ t[n] = g
  BY SetTopMoves
<1>3. Stacks'
  <2>1. n = 1 /\ th \in Workers => Lane0(stack'[th][1])
    BY <1>2
  <2>2. Local(stack'[th][n])
    BY <1>2
  <2> HIDE DEF n
  <2> QED BY <1>2, <2>1, <2>2, StacksMoved
<1>4. Owned'
  <2>1. CASE node' = node /\ owner' = owner /\ (Owner(g) => Owner(Top(th)))
    <3>1. Owner(stack'[th][n]) => Owner(stack[th][n])
      BY <1>1, <1>2, <2>1
    <3> HIDE DEF n
    <3> QED BY <1>2, <2>1, <3>1, OwnedMoved
  <2> QED BY <2>1
<1>5. \A i \in 1 .. n : t[i].task = s[i].task
  BY <1>2 DEF Moved, CutTo
<1>6. First(t, n) <=> First(s, n)
  <2>1. \A j \in 1 .. n - 1 : j \in 1 .. n
    BY <1>1
  <2>2. n \in 1 .. n
    BY <1>1
  <2> HIDE DEF n, s, t
  <2> QED BY <1>5, <2>1, <2>2 DEF First
<1>7. Permitted(t, n, owns')
  <2> HIDE DEF n, s, t
  <2>1. g.task # <<>> => /\ g.acquired <=> First(s, n) /\ g.pc \in PermitPCs
                         /\ Permit(g, First(s, n), owns')
    BY DEF s, n
  <2> QED BY <1>2, <1>6, <2>1 DEF Permitted, Permit
<1>8. ASSUME g.task \in owns' PROVE \E i \in 1 .. n : t[i].task = g.task /\ t[i].acquired
  <2>0. g.task # <<>>
    BY <1>8, TaskNames DEF PermitStep
  <2>1. CASE First(s, n)
    <3>1. g.pc \in PermitPCs
      <4>1. g.pc \in PCs
        BY Fields
      <4> QED BY <1>8, <2>0, <2>1, <4>1 DEF Permit, PermitPCs, OwnPCs, PCs
    <3>2. t[n].task = g.task /\ t[n].acquired
      BY <1>2, <2>0, <2>1, <3>1
    <3> QED BY <1>1, <3>2
  <2>2. CASE ~First(s, n)
    <3>1. PICK i \in 1 .. n - 1 : s[i].task = s[n].task
      BY <2>2 DEF First
    <3>2. i \in 1 .. Size(th) /\ i < Size(th) /\ stack[th][i].task # <<>>
      BY <1>1, <2>0, <3>1
    <3>3. PICK j \in 1 .. i : stack[th][j].task = stack[th][i].task /\ stack[th][j].acquired
      BY <3>2, TookPermit
    <3>4. j \in 1 .. n - 1 /\ j \in 1 .. n
      BY <1>1
    <3>5. t[j] = s[j]
      BY <1>2, <3>4 DEF Moved, CutTo
    <3> QED BY <1>1, <3>1, <3>3, <3>4, <3>5
  <2> QED BY <2>1, <2>2
<1>9. Permits'
  <2>1. Permitted(stack'[th], n, owns')
    BY <1>7
  <2>2. Top(th).task \in owns' =>
           \E i \in 1 .. n : stack'[th][i].task = Top(th).task /\ stack'[th][i].acquired
    BY <1>8
  <2>3. /\ \A x : x # Top(th).task => (x \in owns' <=> x \in owns)
        /\ IsFiniteSet(owns') /\ used' = Cardinality(owns') /\ used' <= maximum'
    BY DEF PermitStep
  <2>4. n = Size(th) /\ ~(n < Size(th))
    BY <1>1
  <2> HIDE DEF n
  <2> QED BY <1>2, <2>1, <2>2, <2>3, <2>4, PermitsMoved
<1> QED BY <1>3, <1>4, <1>9

\* What else a step may change when it changes no batch, job or slot.
Quiet == UNCHANGED <<batch, slots, executorVars>>

\* Shapes, when a step keeps them.
LEMMA ShapesStep ==
  ASSUME Shapes, maximum' = maximum, stack' \in [Threads -> Seq(FrameRec)],
         node' \in [Queries -> {"none", "computing", "terminal"}],
         owner' \in [Queries -> Tasks \cup {<<>>}], attempt' \in [Queries -> Nat],
         owns' \subseteq Tasks, used' \in Int, Quiet, waits' \subseteq Tasks \X Tasks, canceled' = canceled,
         result' \in [Roots -> {"none", "ok", "aborted", "panic"}]
  PROVE  Shapes'
BY DEF Shapes, Quiet, executorVars

\* The rest of the invariant, when nothing but the frame, permits and waits change.
LEMMA ReplacedQuietly ==
  ASSUME BatchInv, NEW th \in Threads, stack[th] # <<>>, NEW g \in FrameRec,
         g.q = Top(th).q, g.task = Top(th).task, SetTop(th, g), maximum' = maximum, Quiet, Progress,
         canceled' = canceled, result' = result, waits' \subseteq Tasks \X Tasks,
         node' \in [Queries -> {"none", "computing", "terminal"}],
         owner' \in [Queries -> Tasks \cup {<<>>}], attempt' = attempt,
         Local(g), th \in Workers /\ Size(th) = 1 => Lane0(g),
         Owned' \/ (node' = node /\ owner' = owner /\ (Owner(g) => Owner(Top(th)))),
         PermitStep(g.task),
         g.task # <<>> =>
           /\ g.acquired <=> First(stack[th], Size(th)) /\ g.pc \in PermitPCs
           /\ Permit(g, First(stack[th], Size(th)), owns'),
         g.claim = Top(th).claim, Within(g, batch[g.q].out),
         Top(th).pc \in ScopePCs /\ g.task # <<>> => g.pc \in ScopePCs \/ batch[g.q].out = 0,
         g.pc = "sequence" => \A k \in DOMAIN Demands[g.q] : k < g.next => node[Demands[g.q][k]] = "terminal",
         g.pc = "end" /\ g.how = "ok" => \A k \in DOMAIN Demands[g.q] : node[Demands[g.q][k]] = "terminal",
         g.pc = "rejoin" /\ g.how = "ok" => node[g.q] = "terminal",
         g.task # <<>> /\ g.pc \in BatchPCs =>
           /\ Top(th).pc \in BatchPCs
           /\ g.pc \notin {"dispatch", "lane"} /\ batch[g.q].worst = "ok" => batch[g.q].queue = <<>>
  PROVE  BatchInv'
<1> DEFINE n == Size(th)
           s == stack[th]
           t == stack'[th]
<1>0. Shapes /\ Stacks /\ Owned /\ Single /\ Permits /\ Outs /\ Slotted /\ Manned /\ Answers
  BY DEF BatchInv
<1>1. n \in Nat \ {0} /\ n = Len(s) /\ n \in 1 .. Len(s) /\ Top(th) = s[n] /\ n > 0 /\ ~(n < Size(th)) /\ n = Size(th)
  BY <1>0, Tops
<1>2. Moved(th, n) /\ t[n] = g
  BY <1>0, SetTopMoves
<1>3. Stacks' /\ Owned' /\ Permits'
  BY <1>0, Replaced
<1>4. Shapes'
  BY <1>0, <1>2, ShapesStep DEF Moved, PermitStep, Shapes
<1>b. batch' = batch /\ jobs' = jobs /\ slots' = slots /\ UNCHANGED executorVars
  BY DEF Quiet, executorVars
<1>5. Single'
  BY <1>0, <1>2, <1>b, SingleMoved
<1>6. Outs'
  <2>1. Within(stack'[th][n], batch[stack'[th][n].q].out)
    BY <1>2
  <2>2. \A i \in 1 .. Size(th) : stack[th][i].task # <<>> /\ stack[th][i].pc \in ScopePCs =>
           i < n \/ (i = n /\ stack'[th][n].pc \in ScopePCs) \/ batch[stack[th][i].q].out = 0
    <3> SUFFICES ASSUME NEW i \in 1 .. Size(th)
                 PROVE  stack[th][i].task # <<>> /\ stack[th][i].pc \in ScopePCs =>
                          i < n \/ (i = n /\ stack'[th][n].pc \in ScopePCs) \/ batch[stack[th][i].q].out = 0
      BY ZenonT(120)
    <3>1. i < n \/ i = n
      BY <1>1
    <3> QED BY <1>1, <1>2, <3>1
  <2> HIDE DEF n, s, t
  <2> QED BY <1>0, <1>1, <1>2, <1>b, <2>1, <2>2, OutsMoved
<1>7. Slotted'
  <2>1. stack'[th][n].claim = stack[th][n].claim
    BY <1>1, <1>2
  <2>2. \A i \in 1 .. Size(th) : ~(i > n)
    BY <1>1
  <2> HIDE DEF n, s, t
  <2> QED BY <1>0, <1>1, <1>2, <1>b, <2>1, <2>2, SlottedMoved
<1>8. Manned'
  <2> HIDE DEF n, s, t
  <2> QED BY <1>0, <1>1, <1>2, <1>b, MannedMoved
<1>9. Answers'
  <2>q. g.q \in Queries /\ Top(th) \in FrameRec /\ \A k \in DOMAIN Demands[g.q] : Demands[g.q][k] \in Queries /\ k \in Nat
    BY <1>0, Fields, Constants, Tops
  <2>a. Answered(Top(th), stack, node, batch)
    BY <1>0, <1>1 DEF Answers
  <2>1. Answered(g, stack', node', batch')
    <3>1. g.pc = "sequence" => \A k \in DOMAIN Demands[g.q] : k < g.next => node'[Demands[g.q][k]] = "terminal"
      BY <2>q DEF Progress
    <3>2. g.pc = "end" /\ g.how = "ok" => \A k \in DOMAIN Demands[g.q] : node'[Demands[g.q][k]] = "terminal"
      BY <2>q DEF Progress
    <3>3. g.pc = "rejoin" /\ g.how = "ok" => node'[g.q] = "terminal"
      BY <2>q DEF Progress
    <3>4. ASSUME g.task # <<>>, g.pc \in BatchPCs, batch'[g.q].worst = "ok"
          PROVE  /\ \A k \in DOMAIN Demands[g.q] : Cared(g.q, k, stack', node', batch')
                 /\ g.pc # "dispatch" /\ g.pc # "lane" => batch'[g.q].queue = <<>>
      <4>1. \A k \in DOMAIN Demands[g.q] : Cared(g.q, k, stack, node, batch)
        BY <1>b, <2>a, <3>4 DEF Answered
      <4>2. g.pc # "dispatch" /\ g.pc # "lane" => batch'[g.q].queue = <<>>
        BY <1>b, <3>4
      <4>3. ASSUME NEW k \in DOMAIN Demands[g.q] PROVE Cared(g.q, k, stack', node', batch')
        <5> HIDE DEF n, s, t
        <5>1. Cared(g.q, k, stack, node, batch)
          BY <4>1
        <5>2. batch'[g.q].queue = batch[g.q].queue
          BY <1>b
        <5> QED BY <1>0, <1>1, <1>2, <2>q, <5>1, <5>2, CaredMoved
      <4> QED BY <4>2, <4>3
    <3> QED BY <3>1, <3>2, <3>3, <3>4 DEF Answered
  <2>2. Answered(stack'[th][n], stack', node', batch')
    BY <1>2, <2>1
  <2>3. \A q \in Queries : batch'[q].queue = batch[q].queue /\ (batch'[q].worst = "ok" => batch[q].worst = "ok")
    BY <1>b
  <2> HIDE DEF n, s, t
  <2> QED BY <1>0, <1>1, <1>2, <2>2, <2>3, AnswersMoved
<1> QED BY <1>3, <1>4, <1>5, <1>6, <1>7, <1>8, <1>9 DEF BatchInv

-----------------------------------------------------------------------------
(* Steps that change no batch, job or slot *)

\* What the invariant says about an innermost frame.
Innermost(th, f) ==
  /\ f \in FrameRec /\ f.q \in Queries /\ f.pc \in PCs /\ f.token \in Roots /\ f.task \in Tasks \cup {<<>>}
  /\ f = Top(th) /\ f = stack[th][Size(th)] /\ Size(th) \in 1 .. Len(stack[th]) /\ Size(th) \in Nat \ {0}
  /\ Local(f)
  /\ f.task = <<>> => f.pc = "lane" /\ th \in Workers /\ Size(th) = 1
  /\ th \in Workers /\ Size(th) = 1 => Lane0(f)
  /\ f.task # <<>> => /\ f.task \in Tasks
                      /\ f.acquired <=> First(stack[th], Size(th)) /\ f.pc \in PermitPCs
                      /\ Permit(f, First(stack[th], Size(th)), owns)
  /\ Within(f, batch[f.q].out) /\ Answered(f, stack, node, batch)
  /\ Owner(f) => node[f.q] = "computing"

\* It says so of the innermost frame of every thread that runs.
LEMMA InnermostFrame ==
  ASSUME BatchInv, NEW th \in Threads, stack[th] # <<>>
  PROVE  Innermost(th, Top(th))
<1> DEFINE n == Size(th)
           f == stack[th][n]
<1>0. Shapes /\ Stacks /\ Owned /\ Single /\ Permits /\ Outs /\ Slotted /\ Manned /\ Answers
  BY DEF BatchInv
<1>1. n \in Nat \ {0} /\ n = Len(stack[th]) /\ n \in 1 .. Len(stack[th]) /\ Top(th) = f /\ f \in FrameRec
  BY <1>0, Tops
<1>2. /\ f.q \in Queries /\ f.pc \in PCs /\ f.token \in Roots /\ f.task \in Tasks \cup {<<>>}
      /\ f.task # <<>> => f.task \in Tasks
  <2> HIDE DEF f
  <2> QED BY <1>1, Fields
<1>3. Stacked(th, stack[th])
  BY <1>0 DEF Stacks
<1>4. Local(f)
  BY <1>1, <1>3 DEF Stacked
<1>5. th \in Workers /\ n = 1 => Lane0(f)
  <2> HIDE DEF n
  <2> QED BY <1>1, <1>3 DEF Stacked
<1>6. f.task = <<>> => th \in Workers /\ n = 1
  <2> HIDE DEF n
  <2> QED BY <1>0, <1>1, LaneFrames
<1>7. f.task # <<>> => Permitted(stack[th], n, owns) /\ Last(stack[th], n)
  <2>1. Last(stack[th], n)
    BY <1>1 DEF Last
  <2> QED BY <1>0, <1>1, <2>1 DEF Permits
<1>8. f.task # <<>> => /\ f.acquired <=> First(stack[th], n) /\ f.pc \in PermitPCs
                       /\ Permit(f, First(stack[th], n), owns)
  <2> HIDE DEF n
  <2> QED BY <1>7 DEF Permitted
<1>9. Within(f, batch[f.q].out) /\ Answered(f, stack, node, batch)
  <2> HIDE DEF n
  <2> QED BY <1>0, <1>1 DEF Outs, Answers
<1>a. Owner(f) => node[f.q] = "computing"
  <2> HIDE DEF n
  <2> QED BY <1>0, <1>1 DEF Owned
<1>b. f.task = <<>> => f.pc = "lane"
  BY <1>5, <1>6 DEF Lane0
<1> HIDE DEF f, n
<1>c. n = Size(th) /\ f = stack[th][Size(th)]
  BY DEF n, f
<1> QED BY <1>1, <1>2, <1>4, <1>5, <1>6, <1>8, <1>9, <1>a, <1>b, <1>c DEF Innermost

\* A task that asks for a permit and goes on has one.
LEMMA PermitTaken ==
  ASSUME BatchInv, NEW task \in Tasks, AcquirePermit(task)
  PROVE  PermitStep(task) /\ task \in owns'
<1>1. IsFiniteSet(owns) /\ used = Cardinality(owns) /\ used <= maximum /\ owns \subseteq Tasks /\ used \in Int
      /\ maximum \in Nat
  BY Constants DEF BatchInv, Permits, Shapes
<1>2. CASE task \in owns /\ UNCHANGED permitVars
  BY <1>1, <1>2 DEF PermitStep, permitVars
<1>3. CASE task \notin owns /\ used < maximum /\ used' = used + 1 /\ owns' = owns \cup {task}
  <2>1. IsFiniteSet(owns') /\ Cardinality(owns') = Cardinality(owns) + 1
    BY <1>1, <1>3, FS_AddElement
  <2> QED BY <1>1, <1>3, <2>1 DEF PermitStep
<1> QED BY <1>2, <1>3 DEF AcquirePermit

\* A task that gives its permit away has none.
LEMMA PermitGiven ==
  ASSUME BatchInv, NEW task \in Tasks, ReleasePermit(task)
  PROVE  PermitStep(task) /\ task \notin owns'
<1>1. IsFiniteSet(owns) /\ used = Cardinality(owns) /\ used <= maximum /\ owns \subseteq Tasks /\ used \in Int
      /\ maximum \in Nat
  BY Constants DEF BatchInv, Permits, Shapes
<1>2. /\ IsFiniteSet(owns')
      /\ Cardinality(owns') = IF task \in owns THEN Cardinality(owns) - 1 ELSE Cardinality(owns)
  BY <1>1, FS_RemoveElement DEF ReleasePermit
<1> QED BY <1>1, <1>2 DEF PermitStep, ReleasePermit

\* Other steps change none.
LEMMA PermitKept ==
  ASSUME BatchInv, NEW task, UNCHANGED permitVars
  PROVE  PermitStep(task)
BY DEF PermitStep, permitVars, BatchInv, Permits, Shapes

\* A query that nobody computes gets its owner.
LEMMA OwnedClaimed ==
  ASSUME Shapes, Owned, NEW th \in Threads, NEW m \in 1 .. Size(th), Moved(th, m),
         NEW q \in Queries, NEW task \in Tasks, q = stack[th][m].q,
         node[q] = "none", node' = [node EXCEPT ![q] = "computing"], owner' = [owner EXCEPT ![q] = task]
  PROVE  Owned'
<1>0. /\ \A p \in Queries : node'[p] = IF p = q THEN "computing" ELSE node[p]
      /\ \A p \in Queries : owner'[p] = IF p = q THEN task ELSE owner[p]
  BY DEF Shapes
<1>1. ASSUME NEW t \in Threads, NEW i \in 1 .. Len(stack'[t]), Owner(stack'[t][i])
      PROVE  \/ t = th /\ i = m /\ stack'[t][i].q = q
             \/ /\ i \in 1 .. Len(stack[t]) /\ Owner(stack[t][i]) /\ stack[t][i].q = stack'[t][i].q
                /\ stack[t][i].q # q /\ stack[t][i].q \in Queries /\ node[stack[t][i].q] = "computing"
  <2>1. /\ i \in 1 .. Len(stack[t])
        /\ stack'[t][i].q = stack[t][i].q
        /\ (t = th /\ i = m) \/ stack'[t][i] = stack[t][i]
        /\ stack[t][i] \in FrameRec
    BY KeptFrames, Sizes
  <2>2. stack[t][i].q \in Queries
    BY <2>1, Fields
  <2> QED BY <1>1, <2>1, <2>2 DEF Owned
<1>2. ASSUME NEW t \in Threads, NEW u \in Threads, NEW i \in 1 .. Len(stack'[t]), NEW j \in 1 .. Len(stack'[u]),
             Owner(stack'[t][i]), Owner(stack'[u][j]), stack'[t][i].q = stack'[u][j].q
      PROVE  t = u /\ i = j
  <2>1. \/ t = th /\ i = m /\ stack'[t][i].q = q
        \/ /\ i \in 1 .. Len(stack[t]) /\ Owner(stack[t][i]) /\ stack[t][i].q = stack'[t][i].q /\ stack[t][i].q # q
    BY <1>1, <1>2
  <2>2. \/ u = th /\ j = m /\ stack'[u][j].q = q
        \/ /\ j \in 1 .. Len(stack[u]) /\ Owner(stack[u][j]) /\ stack[u][j].q = stack'[u][j].q /\ stack[u][j].q # q
    BY <1>1, <1>2
  <2> QED BY <1>2, <2>1, <2>2 DEF Owned
<1>3. ASSUME NEW t \in Threads, NEW i \in 1 .. Len(stack'[t]), Owner(stack'[t][i])
      PROVE  node'[stack'[t][i].q] = "computing"
  <2>1. \/ t = th /\ i = m /\ stack'[t][i].q = q
        \/ /\ i \in 1 .. Len(stack[t]) /\ Owner(stack[t][i]) /\ stack[t][i].q = stack'[t][i].q
           /\ stack[t][i].q # q /\ stack[t][i].q \in Queries /\ node[stack[t][i].q] = "computing"
    BY <1>1, <1>3
  <2> QED BY <1>0, <2>1
<1>4. \A p \in Queries : node'[p] = "computing" => owner'[p] \in Tasks
  BY <1>0 DEF Owned
<1> QED BY <1>2, <1>3, <1>4 DEF Owned

\* query_task claims the query: one frame computes it from now on.
LEMMA LookClaimsStep ==
  ASSUME BatchInv, NEW th \in Threads, LookClaims(th)
  PROVE  BatchInv'
<1>1. PICK f : f = Top(th)
  OBVIOUS
<1> DEFINE g == [f EXCEPT !.pc = "acquire"]
<1>2. /\ stack[th] # <<>> /\ f.pc = "look" /\ node[f.q] = "none"
      /\ node' = [node EXCEPT ![f.q] = "computing"] /\ owner' = [owner EXCEPT ![f.q] = f.task]
      /\ SetTop(th, g) /\ attempt' = attempt /\ waits' = waits /\ UNCHANGED permitVars
      /\ maximum' = maximum /\ Quiet /\ canceled' = canceled /\ result' = result
  BY <1>1 DEF LookClaims, At, Goto, Quiet
<1>3. Innermost(th, f)
  BY <1>1, <1>2, InnermostFrame
<1>4. Edited(f, g, "acquire", f.acquired, f.donated, f.next, f.claim, f.how)
  BY <1>3, EditPc DEF Innermost, PCs
<1> HIDE DEF g
<1>5. f.task # <<>> /\ f.task \in Tasks /\ f.q \in Queries /\ ~(th \in Workers /\ Size(th) = 1)
  BY <1>2, <1>3 DEF Innermost, Lane0
<1>6. PermitStep(g.task) /\ owns' = owns
  BY <1>2, PermitKept DEF permitVars
<1>7. Owned'
  <2>1. Moved(th, Size(th)) /\ Shapes /\ Owned
    BY <1>1, <1>2, <1>4, SetTopMoves DEF Edited, BatchInv
  <2>2. Size(th) \in 1 .. Size(th) /\ f.q = stack[th][Size(th)].q
    BY <1>3 DEF Innermost
  <2> QED BY <1>2, <1>5, <2>1, <2>2, OwnedClaimed
<1>8. /\ node' \in [Queries -> {"none", "computing", "terminal"}]
      /\ owner' \in [Queries -> Tasks \cup {<<>>}] /\ waits' \subseteq Tasks \X Tasks
      /\ \A q \in Queries : node'[q] = "terminal" <=> node[q] = "terminal"
  BY <1>2, <1>5 DEF BatchInv, Shapes
<1>9. Progress
  BY <1>8 DEF Progress
<1>a. Local(g) /\ Within(g, batch[g.q].out)
  BY <1>2, <1>3, <1>4 DEF Innermost, Edited, Local, ClaimPCs, Within
<1>b. /\ g.acquired <=> First(stack[th], Size(th)) /\ g.pc \in PermitPCs
      /\ Permit(g, First(stack[th], Size(th)), owns')
  BY <1>2, <1>3, <1>4, <1>5, <1>6 DEF Innermost, Edited, Permit, PermitPCs, OwnPCs
<1>c. g \in FrameRec /\ g.q = Top(th).q /\ g.task = Top(th).task /\ g.claim = Top(th).claim /\ g.pc = "acquire"
  BY <1>1, <1>4 DEF Edited
<1> QED BY <1>1, <1>2, <1>5, <1>6, <1>7, <1>8, <1>9, <1>a, <1>b, <1>c, ReplacedQuietly DEF ScopePCs, BatchPCs, ClaimPCs

\* What an answer is known by outside of batches.
Settled(g, nd) ==
  /\ g.pc = "sequence" => \A k \in DOMAIN Demands[g.q] : k < g.next => nd[Demands[g.q][k]] = "terminal"
  /\ g.pc = "end" /\ g.how = "ok" => \A k \in DOMAIN Demands[g.q] : nd[Demands[g.q][k]] = "terminal"
  /\ g.pc = "rejoin" /\ g.how = "ok" => nd[g.q] = "terminal"

\* A step that changes no node either.
LEMMA ReplacedOnly ==
  ASSUME BatchInv, NEW th \in Threads, stack[th] # <<>>, NEW f, f = Top(th), NEW g \in FrameRec,
         g.q = f.q, g.task = f.task, g.claim = f.claim, g.task # <<>>, SetTop(th, g), Quiet,
         maximum' = maximum, UNCHANGED nodeVars, canceled' = canceled, result' = result,
         waits' \subseteq Tasks \X Tasks, Local(g), ~(th \in Workers /\ Size(th) = 1),
         Owner(g) => Owner(f), PermitStep(g.task),
         g.acquired <=> First(stack[th], Size(th)) /\ g.pc \in PermitPCs,
         Permit(g, First(stack[th], Size(th)), owns'),
         Within(g, batch[g.q].out),
         f.pc \in ScopePCs => g.pc \in ScopePCs \/ batch[g.q].out = 0,
         Settled(g, node),
         g.pc \in BatchPCs => f.pc \in BatchPCs,
         g.pc \in BatchPCs \ {"dispatch", "lane"} /\ batch[g.q].worst = "ok" => batch[g.q].queue = <<>>
  PROVE  BatchInv'
<1>1. /\ node' \in [Queries -> {"none", "computing", "terminal"}] /\ owner' \in [Queries -> Tasks \cup {<<>>}]
      /\ node' = node /\ owner' = owner /\ attempt' = attempt
  BY DEF nodeVars, BatchInv, Shapes
<1>2. Progress
  BY <1>1 DEF Progress
<1> QED BY <1>1, <1>2, ReplacedQuietly DEF Settled

\* Joins begin, and end.
LEMMA LookJoinsStep ==
  ASSUME BatchInv, NEW th \in Threads, LookJoins(th)
  PROVE  BatchInv'
<1>1. PICK f : f = Top(th)
  OBVIOUS
<1>2. PICK b : b = (f.task \in owns)
  OBVIOUS
<1>3. PICK a : a = attempt[f.q]
  OBVIOUS
<1> DEFINE g == [f EXCEPT !.pc = "join", !.next = a, !.donated = b]
<1>4. /\ stack[th] # <<>> /\ f.pc = "look" /\ node[f.q] = "computing"
      /\ waits' = waits \cup {<<f.task, owner[f.q]>>}
      /\ SetTop(th, g) /\ ReleasePermit(f.task)
      /\ maximum' = maximum /\ UNCHANGED nodeVars /\ Quiet /\ canceled' = canceled /\ result' = result
  BY <1>1, <1>2, <1>3 DEF LookJoins, At, Quiet
<1>5. Innermost(th, f)
  BY <1>1, <1>4, InnermostFrame
<1>6. f.task # <<>> /\ f.task \in Tasks /\ f.q \in Queries /\ ~(th \in Workers /\ Size(th) = 1)
  BY <1>4, <1>5 DEF Innermost, Lane0
<1>7. a \in Nat /\ b \in BOOLEAN
  BY <1>2, <1>3, <1>6 DEF BatchInv, Shapes
<1>8. Edited(f, g, "join", f.acquired, b, a, f.claim, f.how)
  BY <1>5, <1>7, EditJoin, ZenonT(120) DEF Innermost, PCs
<1> HIDE DEF g
<1>9. PermitStep(g.task) /\ f.task \notin owns'
  BY <1>4, <1>6, <1>8, PermitGiven DEF Edited
<1>a. waits' \subseteq Tasks \X Tasks
  BY <1>4, <1>6 DEF BatchInv, Shapes, Owned
<1>b. Local(g) /\ Within(g, batch[g.q].out) /\ Settled(g, node)
  BY <1>4, <1>5, <1>8 DEF Innermost, Edited, Local, ClaimPCs, Within, Settled
<1>c. /\ g.acquired <=> First(stack[th], Size(th)) /\ g.pc \in PermitPCs
      /\ Permit(g, First(stack[th], Size(th)), owns')
  BY <1>2, <1>4, <1>5, <1>6, <1>8, <1>9 DEF Innermost, Edited, Permit, PermitPCs, OwnPCs
<1>d. g \in FrameRec /\ g.q = f.q /\ g.task = f.task /\ g.claim = f.claim /\ g.pc = "join" /\ g.task # <<>> /\ ~Owner(g)
  BY <1>6, <1>8 DEF Edited, Owner, OwnPCs
<1> QED BY <1>1, <1>4, <1>6, <1>9, <1>a, <1>b, <1>c, <1>d, ReplacedOnly DEF ScopePCs, BatchPCs, ClaimPCs

\* A join ends: with a terminal when the attempt waited for has published it.
LEMMA JoinEndsStep ==
  ASSUME BatchInv, NEW th \in Threads, JoinEnds(th)
  PROVE  BatchInv'
<1>1. PICK f : f = Top(th)
  OBVIOUS
<1>2. PICK why : why = IF f.token \in canceled THEN "aborted" ELSE IF f.next = attempt[f.q] THEN "ok" ELSE "retry"
  OBVIOUS
<1> DEFINE g == [f EXCEPT !.pc = "rejoin", !.how = why]
<1>4. /\ stack[th] # <<>> /\ f.pc = "join" /\ waits' \subseteq waits
      /\ f.token \in canceled \/ f.next # attempt[f.q] \/ node[f.q] = "terminal"
      /\ SetTop(th, g) /\ UNCHANGED permitVars
      /\ maximum' = maximum /\ UNCHANGED nodeVars /\ Quiet /\ canceled' = canceled /\ result' = result
  BY <1>1, <1>2 DEF JoinEnds, At, Quiet
<1>5. Innermost(th, f)
  BY <1>1, <1>4, InnermostFrame
<1>6. f.task # <<>> /\ f.task \in Tasks /\ f.q \in Queries /\ ~(th \in Workers /\ Size(th) = 1)
  BY <1>4, <1>5 DEF Innermost, Lane0
<1>7. why \in Hows
  BY <1>2 DEF Hows
<1>8. Edited(f, g, "rejoin", f.acquired, f.donated, f.next, f.claim, why)
  BY <1>5, <1>7, EditHow, Zenon DEF Innermost, PCs
<1> HIDE DEF g
<1>9. PermitStep(g.task) /\ owns' = owns
  BY <1>4, PermitKept DEF permitVars
<1>a. waits' \subseteq Tasks \X Tasks
  BY <1>4 DEF BatchInv, Shapes
<1>b. Local(g) /\ Within(g, batch[g.q].out) /\ Settled(g, node)
  BY <1>2, <1>4, <1>5, <1>8 DEF Innermost, Edited, Local, ClaimPCs, Within, Settled
<1>c. /\ g.acquired <=> First(stack[th], Size(th)) /\ g.pc \in PermitPCs
      /\ Permit(g, First(stack[th], Size(th)), owns')
  BY <1>4, <1>5, <1>6, <1>8, <1>9 DEF Innermost, Edited, Permit, PermitPCs, OwnPCs
<1>d. g \in FrameRec /\ g.q = f.q /\ g.task = f.task /\ g.claim = f.claim /\ g.pc = "rejoin" /\ g.task # <<>> /\ ~Owner(g)
  BY <1>6, <1>8 DEF Edited, Owner, OwnPCs
<1> QED BY <1>1, <1>4, <1>6, <1>9, <1>a, <1>b, <1>c, <1>d, ReplacedOnly DEF ScopePCs, BatchPCs, ClaimPCs

\* A task that takes its permit back when it has given it away.
LEMMA PermitBack ==
  ASSUME BatchInv, NEW th \in Threads, stack[th] # <<>>, NEW f, f = Top(th),
         f.pc \in {"rejoin", "reacquire"}, IF f.donated THEN AcquirePermit(f.task) ELSE UNCHANGED permitVars
  PROVE  PermitStep(f.task) /\ (f.task \in owns' <=> f.donated)
<1>1. Innermost(th, f)
  BY InnermostFrame
<1>2. f.task # <<>> /\ f.task \in Tasks /\ f.donated \in BOOLEAN
  BY <1>1, Fields DEF Innermost
<1>3. CASE f.donated
  BY <1>2, <1>3, PermitTaken
<1>4. CASE ~f.donated
  <2>1. f.task \notin owns
    BY <1>1, <1>2, <1>4 DEF Innermost, Permit
  <2> QED BY <1>4, <2>1, PermitKept DEF permitVars
<1> QED BY <1>3, <1>4

\* An attempt that failed: the query is looked up again.
LEMMA RetryStep ==
  ASSUME BatchInv, NEW th \in Threads, Rejoin(th), Top(th).how = "retry"
  PROVE  BatchInv'
<1>1. PICK f : f = Top(th)
  OBVIOUS
<1>2. PICK g : g = Frame(f.q, f.task, f.token)
  OBVIOUS
<1>4. /\ stack[th] # <<>> /\ f.pc = "rejoin" /\ SetTop(th, g) /\ waits' = waits
      /\ IF f.donated THEN AcquirePermit(f.task) ELSE UNCHANGED permitVars
      /\ maximum' = maximum /\ UNCHANGED nodeVars /\ Quiet /\ canceled' = canceled /\ result' = result
  BY <1>1, <1>2 DEF Rejoin, At, Quiet
<1>5. Innermost(th, f)
  BY <1>1, <1>4, InnermostFrame
<1>6. f.task # <<>> /\ f.task \in Tasks /\ f.q \in Queries /\ ~(th \in Workers /\ Size(th) = 1) /\ f.claim = 0
      /\ f.token \in Roots
  BY <1>4, <1>5 DEF Innermost, Lane0, Local, ClaimPCs
<1>8. Fresh(g, f.q, f.task, f.token)
  BY <1>2, <1>6, NewFrame
<1>9. PermitStep(g.task) /\ (f.task \in owns' <=> f.donated)
  BY <1>1, <1>4, <1>8, PermitBack DEF Fresh
<1>a. waits' \subseteq Tasks \X Tasks
  BY <1>4 DEF BatchInv, Shapes
<1>b. Within(g, batch[g.q].out) /\ Settled(g, node)
  BY <1>8 DEF Fresh, Within, Settled
<1>c. /\ g.acquired <=> First(stack[th], Size(th)) /\ g.pc \in PermitPCs
      /\ Permit(g, First(stack[th], Size(th)), owns')
  BY <1>4, <1>5, <1>6, <1>8, <1>9 DEF Fresh, Innermost, Permit, PermitPCs, OwnPCs
<1> QED BY <1>1, <1>4, <1>6, <1>8, <1>9, <1>a, <1>b, <1>c, ReplacedOnly DEF Fresh, ScopePCs, BatchPCs, ClaimPCs

\* A task takes a permit for its first body, and has one in the others.
LEMMA AcquireStep ==
  ASSUME BatchInv, NEW th \in Threads, Acquire(th)
  PROVE  BatchInv'
<1>1. PICK f : f = Top(th)
  OBVIOUS
<1>2. PICK b : b = (f.task \notin owns)
  OBVIOUS
<1> DEFINE g == [f EXCEPT !.pc = "body", !.acquired = b]
<1>4. /\ stack[th] # <<>> /\ f.pc = "acquire" /\ SetTop(th, g) /\ AcquirePermit(f.task) /\ waits' = waits
      /\ maximum' = maximum /\ UNCHANGED nodeVars /\ Quiet /\ canceled' = canceled /\ result' = result
  BY <1>1, <1>2 DEF Acquire, At, Quiet
<1>5. Innermost(th, f)
  BY <1>1, <1>4, InnermostFrame
<1>6. f.task # <<>> /\ f.task \in Tasks /\ f.q \in Queries /\ ~(th \in Workers /\ Size(th) = 1)
  BY <1>4, <1>5 DEF Innermost, Lane0
<1>7. Edited(f, g, "body", b, f.donated, f.next, f.claim, f.how)
  BY <1>2, <1>5, EditAcquired, ZenonT(120) DEF Innermost, PCs
<1> HIDE DEF g
<1>8. PermitStep(g.task) /\ f.task \in owns'
  BY <1>4, <1>6, <1>7, PermitTaken DEF Edited
<1>9. waits' \subseteq Tasks \X Tasks
  BY <1>4 DEF BatchInv, Shapes
<1>a. Local(g) /\ Within(g, batch[g.q].out) /\ Settled(g, node)
  BY <1>4, <1>5, <1>7 DEF Innermost, Edited, Local, ClaimPCs, Within, Settled
<1>b. /\ g.acquired <=> First(stack[th], Size(th)) /\ g.pc \in PermitPCs
      /\ Permit(g, First(stack[th], Size(th)), owns')
  BY <1>2, <1>4, <1>5, <1>6, <1>7, <1>8 DEF Innermost, Edited, Permit, PermitPCs, OwnPCs
<1>c. /\ g \in FrameRec /\ g.q = f.q /\ g.task = f.task /\ g.claim = f.claim /\ g.pc = "body" /\ g.task # <<>>
      /\ Owner(g) => Owner(f)
  BY <1>4, <1>6, <1>7 DEF Edited, Owner, OwnPCs
<1> QED BY <1>1, <1>4, <1>6, <1>8, <1>9, <1>a, <1>b, <1>c, ReplacedOnly DEF ScopePCs, BatchPCs, ClaimPCs

\* A body that is over.
LEMMA OverStep ==
  ASSUME BatchInv, NEW th \in Threads, stack[th] # <<>>, NEW f, f = Top(th), f.pc \in {"body", "sequence"},
         NEW how \in {"ok", "aborted", "panic"}, NEW g,
         Edited(f, g, "end", f.acquired, f.donated, f.next, f.claim, how), SetTop(th, g),
         how = "ok" => \A k \in DOMAIN Demands[f.q] : node[Demands[f.q][k]] = "terminal",
         UNCHANGED permitVars, waits' = waits,
         maximum' = maximum, UNCHANGED nodeVars, Quiet, canceled' = canceled, result' = result
  PROVE  BatchInv'
<1>5. Innermost(th, f)
  BY InnermostFrame
<1>6. f.task # <<>> /\ f.task \in Tasks /\ f.q \in Queries /\ ~(th \in Workers /\ Size(th) = 1)
  BY <1>5 DEF Innermost, Lane0
<1>8. PermitStep(g.task) /\ owns' = owns
  BY PermitKept DEF permitVars
<1>9. waits' \subseteq Tasks \X Tasks
  BY DEF BatchInv, Shapes
<1>a. Local(g) /\ Within(g, batch[g.q].out) /\ Settled(g, node)
  BY <1>5 DEF Innermost, Edited, Local, ClaimPCs, Within, Settled
<1>b. /\ g.acquired <=> First(stack[th], Size(th)) /\ g.pc \in PermitPCs
      /\ Permit(g, First(stack[th], Size(th)), owns')
  BY <1>5, <1>6, <1>8 DEF Innermost, Edited, Permit, PermitPCs, OwnPCs
<1>c. /\ g \in FrameRec /\ g.q = f.q /\ g.task = f.task /\ g.claim = f.claim /\ g.pc = "end" /\ g.task # <<>>
      /\ Owner(g) => Owner(f)
  BY <1>6 DEF Edited, Owner, OwnPCs
<1> QED BY <1>6, <1>8, <1>9, <1>a, <1>b, <1>c, ReplacedOnly DEF ScopePCs, BatchPCs, ClaimPCs

\* A frame in a batch goes on to its next stage.
LEMMA StageStep ==
  ASSUME BatchInv, NEW th \in Threads, stack[th] # <<>>, NEW f, f = Top(th), f.task # <<>>,
         NEW l, NEW how \in Hows \ {"retry"},
         \/ f.pc = "dispatch" /\ l = "lane"
         \/ f.pc = "lane" /\ l = "join_jobs" /\ batch[f.q].queue = <<>>
         \/ f.pc = "join_jobs" /\ l = "reacquire" /\ batch[f.q].out = 0
         \/ f.pc = "reacquire" /\ l = "absorb",
         NEW g, Edited(f, g, l, f.acquired, f.donated, f.next, f.claim, how), SetTop(th, g),
         l # "absorb" => UNCHANGED permitVars,
         l = "absorb" => PermitStep(f.task) /\ (f.task \in owns' <=> f.donated),
         waits' \subseteq waits,
         maximum' = maximum, UNCHANGED nodeVars, Quiet, canceled' = canceled, result' = result
  PROVE  BatchInv'
<1>5. Innermost(th, f)
  BY InnermostFrame
<1>6. f.task # <<>> /\ f.task \in Tasks /\ f.q \in Queries /\ ~(th \in Workers /\ Size(th) = 1)
  BY <1>5 DEF Innermost, Lane0
<1>8. PermitStep(g.task) /\ (l # "absorb" => owns' = owns)
  BY PermitKept DEF permitVars, Edited
<1>9. waits' \subseteq Tasks \X Tasks
  BY DEF BatchInv, Shapes
<1>a. Local(g) /\ Settled(g, node)
  <2>1. l \in {"lane", "join_jobs", "reacquire", "absorb"} /\ g.pc = l /\ g.how # "retry"
    BY DEF Edited
  <2>2. Local(g)
    BY <2>1 DEF Local, ClaimPCs
  <2>3. Settled(g, node)
    BY <2>1 DEF Settled
  <2> QED BY <2>2, <2>3
<1>e. Within(g, batch[g.q].out)
  <2>1. f.next \in Nat /\ f.claim \in Nat /\ batch[f.q].out \in Int
    BY <1>5, <1>6, Fields DEF Innermost, BatchInv, Shapes, BatchRec
  <2> QED BY <1>5, <2>1 DEF Innermost, Edited, Local, Within
<1>b. /\ g.acquired <=> First(stack[th], Size(th)) /\ g.pc \in PermitPCs
      /\ Permit(g, First(stack[th], Size(th)), owns')
  BY <1>5, <1>6, <1>8 DEF Innermost, Edited, Permit, PermitPCs, OwnPCs
<1>c. /\ g \in FrameRec /\ g.q = f.q /\ g.task = f.task /\ g.claim = f.claim /\ g.pc = l /\ g.task # <<>>
      /\ Owner(g) => Owner(f)
  BY <1>6 DEF Edited, Owner, OwnPCs
<1>f. f.pc \in ScopePCs => g.pc \in ScopePCs \/ batch[g.q].out = 0
  BY <1>c DEF ScopePCs
<1>g. f.pc \in BatchPCs
  BY DEF BatchPCs, ClaimPCs
<1>h. g.pc \in BatchPCs \ {"dispatch", "lane"} /\ batch[g.q].worst = "ok" => batch[g.q].queue = <<>>
  <2>1. f.pc \in {"dispatch", "lane"} => g.pc \notin BatchPCs \ {"dispatch", "lane"} \/ batch[g.q].queue = <<>>
    BY <1>c
  <2>2. f.pc \notin {"dispatch", "lane"} /\ batch[f.q].worst = "ok" => batch[f.q].queue = <<>>
    <3>1. Answered(f, stack, node, batch)
      BY <1>5 DEF Innermost
    <3> QED BY <1>g, <3>1, ZenonT(120) DEF Answered
  <2> QED BY <1>c, <2>1, <2>2
<1> QED BY <1>6, <1>8, <1>9, <1>a, <1>b, <1>c, <1>e, <1>f, <1>g, <1>h, ReplacedOnly

\* A body without demands ends; its answer rests on nothing.
LEMMA LeafStep ==
  ASSUME BatchInv, NEW th \in Threads, Leaf(th)
  PROVE  BatchInv'
<1>1. PICK f : f = Top(th)
  OBVIOUS
<1>2. /\ stack[th] # <<>> /\ f.pc = "body" /\ Demands[f.q] = <<>> /\ UNCHANGED permitVars /\ waits' = waits
      /\ SetTop(th, [f EXCEPT !.pc = "end"]) \/ SetTop(th, [f EXCEPT !.pc = "end", !.how = "panic"])
      /\ maximum' = maximum /\ UNCHANGED nodeVars /\ Quiet /\ canceled' = canceled /\ result' = result
  BY <1>1 DEF Leaf, At, Goto, Quiet
<1>3. Innermost(th, f)
  BY <1>1, <1>2, InnermostFrame
<1>4. f \in FrameRec /\ f.how \in {"ok", "aborted", "panic"} /\ "end" \in PCs
  BY <1>2, <1>3, Fields DEF Innermost, Local, Hows, PCs
<1>5. \A k \in DOMAIN Demands[f.q] : node[Demands[f.q][k]] = "terminal"
  BY <1>2
<1>6. CASE SetTop(th, [f EXCEPT !.pc = "end", !.how = "panic"])
  <2>1. PICK g : g = [f EXCEPT !.pc = "end", !.how = "panic"]
    OBVIOUS
  <2>2. Edited(f, g, "end", f.acquired, f.donated, f.next, f.claim, "panic")
    <3>1. "panic" \in Hows
      BY DEF Hows
    <3> QED BY <1>4, <2>1, <3>1, EditHow, ZenonT(120)
  <2>3. SetTop(th, g)
    BY <1>6, <2>1
  <2> QED BY <1>1, <1>2, <2>2, <2>3, OverStep
<1>7. CASE SetTop(th, [f EXCEPT !.pc = "end"])
  <2>1. PICK g : g = [f EXCEPT !.pc = "end"]
    OBVIOUS
  <2>2. Edited(f, g, "end", f.acquired, f.donated, f.next, f.claim, f.how)
    BY <1>4, <2>1, EditPc, Zenon
  <2>3. SetTop(th, g)
    BY <1>7, <2>1
  <2> QED BY <1>1, <1>2, <1>4, <1>5, <2>2, <2>3, OverStep
<1> QED BY <1>2, <1>6, <1>7

\* A body whose demands have been answered one after the other.
LEMMA SequenceEnds ==
  ASSUME BatchInv, NEW th \in Threads, Sequence(th), Top(th).next > Len(Demands[Top(th).q])
  PROVE  BatchInv'
<1>1. PICK f : f = Top(th)
  OBVIOUS
<1>2. /\ stack[th] # <<>> /\ f.pc = "sequence" /\ UNCHANGED permitVars /\ waits' = waits
      /\ f.next > Len(Demands[f.q]) /\ SetTop(th, [f EXCEPT !.pc = "end"])
      /\ maximum' = maximum /\ UNCHANGED nodeVars /\ Quiet /\ canceled' = canceled /\ result' = result
  BY <1>1 DEF Sequence, At, Goto, Quiet
<1>3. Innermost(th, f)
  BY <1>1, <1>2, InnermostFrame
<1>4. f \in FrameRec /\ f.how \in {"ok", "aborted", "panic"} /\ "end" \in PCs /\ f.q \in Queries /\ f.next \in Nat
  BY <1>2, <1>3, Fields DEF Innermost, Local, Hows, PCs
<1>5. \A k \in DOMAIN Demands[f.q] : node[Demands[f.q][k]] = "terminal"
  <2>1. \A k \in DOMAIN Demands[f.q] : k < f.next
    BY <1>2, <1>4, Constants
  <2> QED BY <1>2, <1>3, <2>1 DEF Innermost, Answered
<1>6. PICK g : g = [f EXCEPT !.pc = "end"]
  OBVIOUS
<1>7. Edited(f, g, "end", f.acquired, f.donated, f.next, f.claim, f.how)
  BY <1>4, <1>6, EditPc, Zenon
<1>8. SetTop(th, g)
  BY <1>2, <1>6
<1> QED BY <1>1, <1>2, <1>4, <1>5, <1>7, <1>8, OverStep

\* A stage of a batch that keeps the frame's outcome.
LEMMA StageKeeps ==
  ASSUME BatchInv, NEW th \in Threads, stack[th] # <<>>, NEW f, f = Top(th), f.task # <<>>, NEW l,
         \/ f.pc = "dispatch" /\ l = "lane"
         \/ f.pc = "lane" /\ l = "join_jobs" /\ batch[f.q].queue = <<>>
         \/ f.pc = "join_jobs" /\ l = "reacquire" /\ batch[f.q].out = 0
         \/ f.pc = "reacquire" /\ l = "absorb",
         Goto(th, l),
         l # "absorb" => UNCHANGED permitVars,
         l = "absorb" => PermitStep(f.task) /\ (f.task \in owns' <=> f.donated),
         waits' \subseteq waits,
         maximum' = maximum, UNCHANGED nodeVars, Quiet, canceled' = canceled, result' = result
  PROVE  BatchInv'
<1>1. Innermost(th, f)
  BY InnermostFrame
<1>2. f \in FrameRec /\ f.how \in Hows \ {"retry"} /\ l \in PCs
  BY <1>1, Fields DEF Innermost, Local, Hows, PCs
<1>3. PICK g : g = [f EXCEPT !.pc = l]
  OBVIOUS
<1>4. Edited(f, g, l, f.acquired, f.donated, f.next, f.claim, f.how)
  BY <1>2, <1>3, EditPc, Zenon
<1>5. SetTop(th, g)
  BY <1>3 DEF Goto
<1> QED BY <1>2, <1>4, <1>5, StageStep

\* The end of a dispatch, by a refusal or because it is complete.
LEMMA DispatchEnds ==
  ASSUME BatchInv, NEW th \in Threads, Dispatch(th), batch' = batch, jobs' = jobs, born' = born,
         Goto(th, "lane") \/ SetTop(th, [Top(th) EXCEPT !.pc = "lane", !.how = "aborted"])
  PROVE  BatchInv'
<1>1. PICK f : f = Top(th)
  OBVIOUS
<1>2. /\ stack[th] # <<>> /\ f.pc = "dispatch" /\ UNCHANGED permitVars /\ waits' \subseteq waits
      /\ Goto(th, "lane") \/ SetTop(th, [f EXCEPT !.pc = "lane", !.how = "aborted"])
      /\ maximum' = maximum /\ UNCHANGED nodeVars /\ Quiet /\ canceled' = canceled /\ result' = result
  BY <1>1 DEF Dispatch, At, Quiet, executorVars
<1>3. f.task # <<>>
  BY <1>1, <1>2, InnermostFrame DEF Innermost
<1>4. CASE Goto(th, "lane")
  BY <1>1, <1>2, <1>3, <1>4, StageKeeps
<1>5. CASE SetTop(th, [f EXCEPT !.pc = "lane", !.how = "aborted"])
  <2>1. "aborted" \in Hows \ {"retry"} /\ "aborted" \in Hows /\ "lane" \in PCs /\ f \in FrameRec
    BY <1>1, <1>2, InnermostFrame DEF Hows, PCs, Innermost
  <2>2. PICK g : g = [f EXCEPT !.pc = "lane", !.how = "aborted"]
    OBVIOUS
  <2>3. Edited(f, g, "lane", f.acquired, f.donated, f.next, f.claim, "aborted")
    BY <2>1, <2>2, EditHow, ZenonT(120)
  <2>4. SetTop(th, g)
    BY <1>5, <2>2
  <2>5. PICK l \in PCs, how \in Hows \ {"retry"} : l = "lane" /\ how = "aborted"
    BY <2>1
  <2>6. Edited(f, g, l, f.acquired, f.donated, f.next, f.claim, how)
    BY <2>3, <2>5
  <2>7. /\ f.pc = "dispatch" /\ l = "lane" /\ l # "absorb" /\ UNCHANGED permitVars /\ waits' \subseteq waits
        /\ maximum' = maximum /\ UNCHANGED nodeVars /\ Quiet /\ canceled' = canceled /\ result' = result
    BY <1>2, <2>5
  <2>8. stack[th] # <<>> /\ how \in Hows \ {"retry"}
    BY <1>2, <2>5
  <2> QED BY <1>1, <1>3, <2>4, <2>6, <2>7, <2>8, StageStep
<1> QED BY <1>2, <1>4, <1>5

\* The parent's own lane is over.
LEMMA LaneEnds ==
  ASSUME BatchInv, NEW th \in Threads, Lane(th), batch[Top(th).q].queue = <<>>,
         th \in Roots \/ Len(stack[th]) > 1
  PROVE  BatchInv'
<1>1. PICK f : f = Top(th)
  OBVIOUS
<1>2. stack[th] # <<>> /\ f.pc = "lane"
  BY <1>1 DEF Lane, At
<1>3. Innermost(th, f)
  BY <1>1, <1>2, InnermostFrame
<1>4. ~(th \in Workers /\ Len(stack[th]) = 1) /\ f.task # <<>>
  BY <1>3, Constants DEF Innermost, Size
<1>5. /\ UNCHANGED permitVars /\ waits' \subseteq waits /\ Goto(th, "join_jobs")
      /\ maximum' = maximum /\ UNCHANGED nodeVars /\ Quiet /\ canceled' = canceled /\ result' = result
  BY <1>4 DEF Lane, Quiet
<1> QED BY <1>1, <1>2, <1>4, <1>5, StageKeeps

\* The parent leaves its batch once no job is out.
LEMMA JoinJobsStep ==
  ASSUME BatchInv, NEW th \in Threads, JoinJobs(th)
  PROVE  BatchInv'
<1>1. PICK f : f = Top(th)
  OBVIOUS
<1>2. /\ stack[th] # <<>> /\ f.pc = "join_jobs" /\ batch[f.q].out = 0 /\ Goto(th, "reacquire")
      /\ UNCHANGED permitVars /\ waits' \subseteq waits
      /\ maximum' = maximum /\ UNCHANGED nodeVars /\ Quiet /\ canceled' = canceled /\ result' = result
  BY <1>1 DEF JoinJobs, At, Quiet
<1>3. f.task # <<>>
  BY <1>1, <1>2, InnermostFrame DEF Innermost
<1> QED BY <1>1, <1>2, <1>3, StageKeeps

\* The parent takes back the permit it gave away.
LEMMA ReacquireStep ==
  ASSUME BatchInv, NEW th \in Threads, Reacquire(th)
  PROVE  BatchInv'
<1>1. PICK f : f = Top(th)
  OBVIOUS
<1>2. /\ stack[th] # <<>> /\ f.pc = "reacquire" /\ Goto(th, "absorb")
      /\ IF f.donated THEN AcquirePermit(f.task) ELSE UNCHANGED permitVars
      /\ waits' \subseteq waits
      /\ maximum' = maximum /\ UNCHANGED nodeVars /\ Quiet /\ canceled' = canceled /\ result' = result
  BY <1>1 DEF Reacquire, At, Quiet
<1>3. f.task # <<>>
  BY <1>1, <1>2, InnermostFrame DEF Innermost
<1>4. PermitStep(f.task) /\ (f.task \in owns' <=> f.donated)
  BY <1>1, <1>2, PermitBack
<1> QED BY <1>1, <1>2, <1>3, <1>4, StageKeeps

-----------------------------------------------------------------------------
(* A worker leaves its batch *)

\* A frame that has slots owns its query, so a query has one such frame.
LEMMA Claimant ==
  ASSUME Shapes, Stacks, Owned, NEW t \in Threads, NEW i \in 1 .. Len(stack[t]), stack[t][i].claim # 0
  PROVE  /\ Owner(stack[t][i])
         /\ \A u \in Threads : \A j \in 1 .. Len(stack[u]) :
              Owner(stack[u][j]) /\ stack[u][j].q = stack[t][i].q => u = t /\ j = i
<1>1. Local(stack[t][i])
  BY DEF Stacks, Stacked
<1>2. stack[t][i].task # <<>>
  <2>1. CASE stack[t][i].task = <<>>
    <3>1. t \in Workers /\ i = 1 /\ stack[t] # <<>>
      BY <2>1, LaneFrames DEF LanesOf
    <3>2. Lane0(stack[t][i])
      BY <3>1 DEF Stacks, Stacked
    <3> QED BY <3>2 DEF Lane0
  <2> QED BY <2>1
<1>3. Owner(stack[t][i])
  BY <1>1, <1>2 DEF Local, Owner, ClaimPCs, OwnPCs
<1> QED BY <1>3 DEF Owned

\* The job counted last has the slot of its number.
LEMMA OutSlot ==
  ASSUME Shapes, Stacks, Outs, NEW q \in Queries, batch[q].out > 0
  PROVE  \E t \in Threads : \E i \in 1 .. Len(stack[t]) :
           /\ stack[t][i].q = q /\ stack[t][i].task # <<>> /\ stack[t][i].pc \in ScopePCs
           /\ batch[q].out \in 1 .. stack[t][i].claim
<1>1. PICK t \in Threads : \E i \in 1 .. Len(stack[t]) :
               stack[t][i].q = q /\ stack[t][i].task # <<>> /\ stack[t][i].pc \in ScopePCs
  BY DEF Outs
<1>2. PICK i \in 1 .. Len(stack[t]) : stack[t][i].q = q /\ stack[t][i].task # <<>> /\ stack[t][i].pc \in ScopePCs
  BY <1>1
<1>3. PICK f : f = stack[t][i]
  OBVIOUS
<1>4. Local(f) /\ Within(f, batch[q].out) /\ f \in FrameRec /\ batch[q].out \in Int
  BY <1>2, <1>3, Sizes DEF Stacks, Stacked, Outs, Shapes, BatchRec, Size
<1>5. f.claim \in Nat /\ f.next \in Nat
  BY <1>4, Fields
<1>6. batch[q].out <= f.claim
  <2>1. PICK o : o = batch[q].out
    OBVIOUS
  <2>2. f.task # <<>> /\ f.pc \in {"dispatch", "lane", "join_jobs"} /\ Within(f, o) /\ o \in Int
    BY <1>2, <1>3, <1>4, <2>1 DEF ScopePCs
  <2>3. CASE f.pc = "dispatch"
    <3>1. f.next <= f.claim + 1 /\ o <= f.next - 1
      BY <1>4, <1>5, <2>2, <2>3 DEF Local, Within
    <3> QED BY <1>5, <2>1, <2>2, <3>1
  <2>4. CASE f.pc \in {"lane", "join_jobs"}
    BY <2>1, <2>2, <2>4 DEF Within
  <2> QED BY <2>2, <2>3, <2>4
<1> QED BY <1>2, <1>3, <1>4, <1>5, <1>6

\* The jobs that are left are counted, and have slots and threads.
LEMMA WorkerLeaves ==
  ASSUME Shapes, Stacks, Owned, Outs, Slotted, Manned, NEW th \in Workers, stack[th] # <<>>, Moved(th, 0),
         NEW q, q = stack[th][1].q, stack[th][1].claim = 0,
         \A i \in 2 .. Size(th) : stack[th][i].claim = 0 /\ stack[th][i].pc \notin ScopePCs,
         batch'[q].out = batch[q].out - 1, \A p \in Queries : p # q => batch'[p].out = batch[p].out,
         slots' = slots, maximum' = maximum, UNCHANGED executorVars
  PROVE  Outs' /\ Slotted' /\ Manned'
<1>0. th \in Threads /\ q \in Queries /\ Size(th) \in Nat /\ Size(th) > 0 /\ Size(th) = Len(stack[th])
  BY Sizes, Fields, Constants
<1>1. stack'[th] = <<>> /\ (\A u \in Threads : u # th => stack'[u] = stack[u]) /\ jobs' = jobs
      /\ (\A w \in Workers : w \in Threads)
  <2>1. stack'[th] \in Seq(FrameRec) /\ Len(stack'[th]) = 0
    BY <1>0 DEF Moved, CutTo
  <2> QED BY <2>1, Constants DEF Moved, executorVars
<1>2. /\ LanesOf(q)' = LanesOf(q) \ {th} /\ th \in LanesOf(q) /\ Busy' = Busy \ {th} /\ th \in Busy
      /\ \A p \in Queries : p # q => LanesOf(p)' = LanesOf(p)
      /\ \A p \in Queries : JobsOf(p)' = JobsOf(p)
  BY <1>1 DEF LanesOf, Busy, JobsOf
<1>3. /\ IsFiniteSet(LanesOf(q)) /\ IsFiniteSet(Busy) /\ Cardinality(LanesOf(q)) \in Nat /\ Cardinality(Busy) \in Nat
      /\ Cardinality(JobsOf(q)) \in Nat /\ Len(jobs) \in Nat
  BY <1>0, Finite
<1>4. Cardinality(LanesOf(q)') = Cardinality(LanesOf(q)) - 1 /\ Cardinality(Busy') = Cardinality(Busy) - 1
      /\ Cardinality(LanesOf(q)) # 0
  <2>1. Cardinality(LanesOf(q) \ {th}) = Cardinality(LanesOf(q)) - 1
    BY <1>2, <1>3, FS_RemoveElement
  <2>2. Cardinality(Busy \ {th}) = Cardinality(Busy) - 1
    BY <1>2, <1>3, FS_RemoveElement
  <2>3. Cardinality(LanesOf(q)) # 0
    <3>1. LanesOf(q) # {}
      BY <1>2
    <3> QED BY <1>3, <3>1, FS_EmptySet
  <2> QED BY <1>2, <2>1, <2>2, <2>3
<1>5. batch[q].out = Cardinality(LanesOf(q)) + Cardinality(JobsOf(q)) /\ batch[q].out > 0 /\ batch[q].out \in Nat
  <2>1. batch[q].out = Cardinality(LanesOf(q)) + Cardinality(JobsOf(q))
    BY <1>0 DEF Outs
  <2>2. PICK a, b : a = Cardinality(LanesOf(q)) /\ b = Cardinality(JobsOf(q))
    OBVIOUS
  <2>3. a \in Nat /\ b \in Nat /\ a # 0 /\ batch[q].out = a + b
    BY <1>3, <1>4, <2>1, <2>2
  <2> QED BY <2>1, <2>3
<1>s. PICK t \in Threads : \E i \in 1 .. Len(stack[t]) :
           /\ stack[t][i].q = q /\ stack[t][i].task # <<>> /\ stack[t][i].pc \in ScopePCs
           /\ batch[q].out \in 1 .. stack[t][i].claim
  BY <1>0, <1>5, OutSlot
<1>6. PICK i \in 1 .. Len(stack[t]) :
           /\ stack[t][i].q = q /\ stack[t][i].task # <<>> /\ stack[t][i].pc \in ScopePCs
           /\ batch[q].out \in 1 .. stack[t][i].claim
  BY <1>s
<1>7. t # th
  <2>1. CASE t = th
    <3>1. i = 1 \/ i \in 2 .. Size(th)
      BY <1>0, <2>1
    <3>2. stack[th][i].claim = 0
      BY <3>1
    <3> QED BY <1>5, <1>6, <2>1, <3>2
  <2> QED BY <2>1
<1>8. ASSUME NEW u \in Threads, NEW j \in 1 .. Len(stack'[u])
      PROVE  u # th /\ stack'[u] = stack[u] /\ j \in 1 .. Len(stack[u]) /\ stack[u][j] \in FrameRec
  BY <1>1, Sizes DEF Size
<1>9. Outs'
  <2>1. \A p \in Queries : batch'[p].out = Cardinality(LanesOf(p)') + Cardinality(JobsOf(p)')
    <3>1. batch'[q].out = Cardinality(LanesOf(q)') + Cardinality(JobsOf(q)')
      BY <1>0, <1>2, <1>3, <1>4, <1>5
    <3>2. ASSUME NEW p \in Queries, p # q PROVE batch'[p].out = Cardinality(LanesOf(p)') + Cardinality(JobsOf(p)')
      <4>1. LanesOf(p)' = LanesOf(p) /\ JobsOf(p)' = JobsOf(p) /\ batch'[p].out = batch[p].out
        BY <1>2, <3>2
      <4>2. batch[p].out = Cardinality(LanesOf(p)) + Cardinality(JobsOf(p))
        BY DEF Outs
      <4> QED BY <4>1, <4>2
    <3> QED BY <3>1, <3>2
  <2>2. ASSUME NEW p \in Queries, batch'[p].out > 0
        PROVE  \E u \in Threads : \E j \in 1 .. Len(stack'[u]) :
                 stack'[u][j].q = p /\ stack'[u][j].task # <<>> /\ stack'[u][j].pc \in ScopePCs
    <3>1. CASE p = q
      BY <1>1, <1>6, <1>7, <3>1
    <3>2. CASE p # q
      <4>0. PICK u \in Threads : \E j \in 1 .. Len(stack[u]) :
              stack[u][j].q = p /\ stack[u][j].task # <<>> /\ stack[u][j].pc \in ScopePCs
        BY <2>2, <3>2 DEF Outs
      <4>1. PICK j \in 1 .. Len(stack[u]) :
              stack[u][j].q = p /\ stack[u][j].task # <<>> /\ stack[u][j].pc \in ScopePCs
        BY <4>0
      <4>2. u # th
        <5>1. CASE u = th
          <6>1. j = 1 \/ j \in 2 .. Size(th)
            BY <1>0, <5>1
          <6> QED BY <3>2, <4>1, <5>1, <6>1
        <5> QED BY <5>1
      <4> QED BY <1>1, <4>1, <4>2
    <3> QED BY <3>1, <3>2
  <2>3. ASSUME NEW u \in Threads, NEW j \in 1 .. Len(stack'[u])
        PROVE  Within(stack'[u][j], batch'[stack'[u][j].q].out)
    <3>1. PICK f : f = stack[u][j]
      OBVIOUS
    <3>2. stack'[u][j] = f /\ Within(f, batch[f.q].out) /\ f.q \in Queries /\ f.claim \in Nat /\ f.next \in Nat
      BY <1>8, <3>1, Fields DEF Outs
    <3>3. batch[f.q].out \in Int /\ batch'[f.q].out \in Int /\ batch'[f.q].out <= batch[f.q].out
      <4>1. batch[f.q].out \in Int
        BY <3>2 DEF Shapes, BatchRec
      <4>2. CASE f.q = q
        BY <1>5, <4>2
      <4>3. CASE f.q # q
        BY <3>2, <4>1, <4>3
      <4> QED BY <4>1, <4>2, <4>3
    <3> QED BY <3>2, <3>3 DEF Within
  <2>4. \A k \in 1 .. Len(jobs') : Lane0(jobs'[k]) /\ Local(jobs'[k])
    BY <1>1 DEF Outs
  <2> QED BY <2>1, <2>2, <2>3, <2>4 DEF Outs
<1>a. Slotted'
  <2> DEFINE o == batch[q].out
             last == <<<<t, i>>, o>>
  <2>1. i \in Nat /\ o \in Nat /\ Len(stack[t]) \in Nat /\ stack[t][i].claim # 0
    BY <1>5, <1>6, Sizes DEF Size
  <2>2. ASSUME NEW u \in Threads, NEW j \in Nat, NEW k \in Nat
        PROVE  /\ <<<<u, j>>, k>> \in ClaimsOf(stack') <=> <<<<u, j>>, k>> \in ClaimsOf(stack)
               /\ <<<<u, j>>, k>> \in SpentOf(stack', batch') <=> <<<<u, j>>, k>> \in SpentOf(stack, batch) \ {last}
    <3>1. /\ <<<<u, j>>, k>> \in ClaimsOf(stack) <=> j \in 1 .. Len(stack[u]) /\ k \in 1 .. stack[u][j].claim
          /\ <<<<u, j>>, k>> \in SpentOf(stack, batch) <=>
               j \in 1 .. Len(stack[u]) /\ k \in 1 .. stack[u][j].claim /\ k <= batch[stack[u][j].q].out
      BY ClaimParts
    <3>2. /\ <<<<u, j>>, k>> \in ClaimsOf(stack') <=> j \in 1 .. Len(stack'[u]) /\ k \in 1 .. stack'[u][j].claim
          /\ <<<<u, j>>, k>> \in SpentOf(stack', batch') <=>
               j \in 1 .. Len(stack'[u]) /\ k \in 1 .. stack'[u][j].claim /\ k <= batch'[stack'[u][j].q].out
      BY ClaimParts
    <3>3. <<<<u, j>>, k>> = last <=> u = t /\ j = i /\ k = o
      OBVIOUS
    <3>4. CASE u = th
      <4>1. j \in 1 .. Len(stack[u]) => stack[u][j].claim = 0
        <5>1. j \in 1 .. Len(stack[u]) => j = 1 \/ j \in 2 .. Size(th)
          BY <1>0, <3>4
        <5> QED BY <3>4, <5>1
      <4>2. Len(stack'[u]) = 0
        BY <1>1, <3>4
      <4> HIDE DEF last
      <4> QED BY <3>1, <3>2, <4>1, <4>2
    <3>5. CASE u # th /\ j \notin 1 .. Len(stack[u])
      <4> HIDE DEF last
      <4>1. stack'[u] = stack[u]
        BY <1>1, <3>5
      <4> QED BY <3>1, <3>2, <3>5, <4>1
    <3>6. CASE u # th /\ j \in 1 .. Len(stack[u])
      <4>1. PICK f : f = stack[u][j]
        OBVIOUS
      <4>2. stack'[u] = stack[u] /\ stack'[u][j] = f /\ f \in FrameRec
        BY <1>1, <3>6, <4>1, Sizes DEF Size
      <4>3. f.q \in Queries /\ f.claim \in Nat /\ batch[f.q].out \in Int
        BY <4>2, Fields DEF Shapes, BatchRec
      <4>4. CASE f.q # q
        <5>1. batch'[f.q].out = batch[f.q].out
          BY <4>3, <4>4
        <5>2. ~(u = t /\ j = i)
          BY <1>6, <4>1, <4>4
        <5>3. <<<<u, j>>, k>> # last
          BY <3>3, <5>2
        <5> HIDE DEF last
        <5> QED BY <3>1, <3>2, <4>1, <4>2, <5>1, <5>3
      <4>5. CASE f.q = q /\ f.claim = 0
        <5> HIDE DEF last
        <5>1. ~(k \in 1 .. f.claim)
          BY <4>5
        <5> QED BY <3>1, <3>2, <4>1, <4>2, <5>1
      <4>6. CASE f.q = q /\ f.claim # 0
        <5>1. Owner(stack[u][j])
          BY <3>6, <4>1, <4>6, Claimant
        <5>2. u = t /\ j = i
          BY <1>6, <2>1, <3>6, <4>1, <4>6, <5>1, Claimant
        <5>3. <<<<u, j>>, k>> = last <=> k = o
          BY <3>3, <5>2
        <5>4. batch'[f.q].out = o - 1 /\ batch[f.q].out = o
          BY <4>6
        <5>5. k <= o - 1 <=> k <= o /\ k # o
          BY <2>1
        <5> HIDE DEF last, o
        <5> QED BY <3>1, <3>2, <3>6, <4>1, <4>2, <5>3, <5>4, <5>5
      <4> QED BY <4>4, <4>5, <4>6
    <3> QED BY <3>4, <3>5, <3>6
  <2>3. last \in SpentOf(stack, batch)
    <3>1. o \in 1 .. stack[t][i].claim /\ o <= batch[stack[t][i].q].out /\ i \in 1 .. Len(stack[t])
      BY <1>6, <2>1
    <3> HIDE DEF o
    <3> QED BY <2>1, <3>1, ClaimParts
  <2> HIDE DEF last
  <2>4. /\ ClaimsOf(stack') \in SUBSET ((Threads \X Nat) \X Nat) /\ ClaimsOf(stack) \in SUBSET ((Threads \X Nat) \X Nat)
        /\ SpentOf(stack', batch') \in SUBSET ((Threads \X Nat) \X Nat)
        /\ SpentOf(stack, batch) \ {last} \in SUBSET ((Threads \X Nat) \X Nat)
        /\ SpentOf(stack, batch) \subseteq ClaimsOf(stack)
    <3>1. \A st, bt : ClaimsOf(st) \in SUBSET ((Threads \X Nat) \X Nat) /\ SpentOf(st, bt) \subseteq ClaimsOf(st)
      BY DEF ClaimsOf, SpentOf
    <3>2. ClaimsOf(stack) \in SUBSET ((Threads \X Nat) \X Nat) /\ SpentOf(stack, batch) \subseteq ClaimsOf(stack)
      BY <3>1
    <3>3. ClaimsOf(stack') \in SUBSET ((Threads \X Nat) \X Nat) /\ SpentOf(stack', batch') \subseteq ClaimsOf(stack')
      BY <3>1
    <3> QED BY <3>2, <3>3
  <2>5. ClaimsOf(stack') = ClaimsOf(stack)
    <3>1. \A u \in Threads : \A j \in Nat : \A k \in Nat :
            <<<<u, j>>, k>> \in ClaimsOf(stack') <=> <<<<u, j>>, k>> \in ClaimsOf(stack)
      BY <2>2, ZenonT(120)
    <3> QED BY <2>4, <3>1, ClaimsEqual, Zenon
  <2>6. SpentOf(stack', batch') = SpentOf(stack, batch) \ {last}
    <3>0. PICK R : R = SpentOf(stack, batch) \ {last}
      OBVIOUS
    <3>1. \A u \in Threads : \A j \in Nat : \A k \in Nat :
            <<<<u, j>>, k>> \in SpentOf(stack', batch') <=> <<<<u, j>>, k>> \in SpentOf(stack, batch) \ {last}
      BY <2>2, Zenon
    <3>2. \A u \in Threads : \A j \in Nat : \A k \in Nat :
            <<<<u, j>>, k>> \in SpentOf(stack', batch') <=> <<<<u, j>>, k>> \in R
      BY <3>0, <3>1, Zenon
    <3>3. R \in SUBSET ((Threads \X Nat) \X Nat)
      BY <2>4, <3>0
    <3>4. SpentOf(stack', batch') = R
      BY <2>4, <3>2, <3>3, ClaimsEqual, ZenonT(120)
    <3> QED BY <3>0, <3>4
  <2>7. Cardinality(SpentOf(stack', batch')) = Cardinality(SpentOf(stack, batch)) - 1
    <3>1. IsFiniteSet(SpentOf(stack, batch))
      BY <2>4, FS_Subset DEF Slotted
    <3> QED BY <2>3, <2>6, <3>1, FS_RemoveElement
  <2>8. Cardinality(SpentOf(stack', batch')) = Len(jobs') + Cardinality(Busy')
    <3>1. Cardinality(SpentOf(stack, batch)) = Len(jobs) + Cardinality(Busy)
      BY DEF Slotted
    <3> QED BY <1>1, <1>3, <1>4, <2>7, <3>1
  <2> QED BY <2>5, <2>8 DEF Slotted
<1>b. Manned'
  <2>1. Busy' \subseteq Busy /\ jobs' = jobs /\ UNCHANGED <<born, gone, open>>
    BY <1>1, <1>2 DEF executorVars
  <2>2. gone = {} => Len(jobs) + Cardinality(Busy') <= Cardinality(born)
    <3>1. Cardinality(born) \in Nat
      BY FS_CardinalityType DEF Manned
    <3> QED BY <1>3, <1>4, <3>1 DEF Manned
  <2> QED BY <2>1, <2>2 DEF Manned
<1> QED BY <1>9, <1>a, <1>b

-----------------------------------------------------------------------------
(* Frames that end *)

\* A frame ends and delivers its outcome.
Returns(th, f, how) ==
  /\ stack[th] # <<>> /\ f = Top(th) /\ f.pc \in {"look", "rejoin", "end"}
  /\ how \in {"ok", "aborted", "panic"} /\ Delivered(th, how)
  /\ maximum' = maximum /\ slots' = slots /\ UNCHANGED executorVars
  /\ waits' = waits /\ canceled' = canceled /\ owner' = owner
  /\ node' \in [Queries -> {"none", "computing", "terminal"}] /\ attempt' \in [Queries -> Nat]
  /\ \A q \in Queries : node'[q] = node[q] \/ (Owner(f) /\ f.q = q /\ node'[q] # "computing")
  /\ Progress
  /\ PermitStep(f.task) /\ (f.task \in owns' <=> ~First(stack[th], Size(th)))
  /\ how = "ok" => node'[f.q] = "terminal"

\* The innermost frame is the task's own, and has no slots.
LEMMA ReturnsFrom ==
  ASSUME BatchInv, NEW th \in Threads, NEW f, NEW how, Returns(th, f, how)
  PROVE  /\ Innermost(th, f) /\ f.claim = 0 /\ f.task # <<>> /\ f.pc \notin ScopePCs
         /\ ~(th \in Workers /\ Size(th) = 1)
         /\ stack[th] # <<>> /\ Size(th) \in Nat \ {0} /\ Size(th) = Len(stack[th]) /\ f = stack[th][Size(th)]
         /\ Shapes /\ Stacks /\ Owned /\ Single /\ Permits /\ Outs /\ Slotted /\ Manned /\ Answers
<1>1. Innermost(th, f)
  BY InnermostFrame DEF Returns
<1>2. f.claim = 0 /\ f.task # <<>> /\ f.pc \notin ScopePCs /\ ~(th \in Workers /\ Size(th) = 1)
  BY <1>1 DEF Innermost, Local, ClaimPCs, Lane0, ScopePCs, Returns
<1> QED BY <1>1, <1>2 DEF BatchInv, Innermost, Returns, Size

\* A return keeps the types.
LEMMA ReturnsShapes ==
  ASSUME Shapes, NEW th, NEW f, NEW how, Returns(th, f, how), stack' \in [Threads -> Seq(FrameRec)],
         batch' \in [Queries -> BatchRec], result' \in [Roots -> {"none", "ok", "aborted", "panic"}]
  PROVE  Shapes'
BY DEF Shapes, Returns, PermitStep, executorVars

\* A thread's only frame: a request is over.
LEMMA RequestOver ==
  ASSUME BatchInv, NEW th \in Threads, NEW f, NEW how, Returns(th, f, how), Size(th) = 1
  PROVE  BatchInv'
<1>0. /\ Innermost(th, f) /\ f.claim = 0 /\ f.task # <<>> /\ f.pc \notin ScopePCs
      /\ th \notin Workers /\ th \in Roots
      /\ stack[th] # <<>> /\ f = stack[th][1] /\ Top(th) = f /\ Size(th) = Len(stack[th])
      /\ Shapes /\ Stacks /\ Owned /\ Single /\ Permits /\ Outs /\ Slotted /\ Manned /\ Answers
  <2>1. /\ Innermost(th, f) /\ f.claim = 0 /\ f.task # <<>> /\ f.pc \notin ScopePCs
        /\ ~(th \in Workers /\ Size(th) = 1)
        /\ stack[th] # <<>> /\ Size(th) = Len(stack[th]) /\ f = stack[th][Size(th)]
        /\ Shapes /\ Stacks /\ Owned /\ Single /\ Permits /\ Outs /\ Slotted /\ Manned /\ Answers
    BY ReturnsFrom
  <2>2. f = Top(th)
    BY DEF Returns
  <2> QED BY <2>1, <2>2, Constants
<1>1. Moved(th, 0) /\ batch' = batch /\ result' = [result EXCEPT ![th] = how]
  BY DEF Returns, Delivered
<1>2. Shapes'
  <2>1. result' \in [Roots -> {"none", "ok", "aborted", "panic"}]
    BY <1>0, <1>1 DEF Shapes, Returns
  <2> QED BY <1>0, <1>1, <2>1, ReturnsShapes DEF Moved, Shapes
<1>3. Stacks'
  BY <1>0, <1>1, StacksMoved
<1>4. Owned'
  <2>1. \A q \in Queries : \/ node'[q] = node[q]
                            \/ /\ 0 < Size(th) /\ Owner(stack[th][Size(th)]) /\ stack[th][Size(th)].q = q
                               /\ node'[q] # "computing"
    BY <1>0 DEF Returns
  <2>2. owner' = owner
    BY DEF Returns
  <2> QED BY <1>0, <1>1, <2>1, <2>2, OwnedMoved
<1>5. Single'
  BY <1>0, <1>1, SingleMoved
<1>6. Permits'
  <2>1. First(stack[th], Size(th))
    BY DEF First
  <2>2. Top(th).task \notin owns'
    BY <1>0, <2>1 DEF Returns
  <2>3. /\ \A x : x # Top(th).task => (x \in owns' <=> x \in owns)
        /\ IsFiniteSet(owns') /\ used' = Cardinality(owns') /\ used' <= maximum'
    BY <1>0 DEF Returns, PermitStep
  <2>4. 0 = Size(th) - 1 /\ ~(0 > 0)
    OBVIOUS
  <2> QED BY <1>0, <1>1, <2>2, <2>3, <2>4, PermitsMoved
<1>b. jobs' = jobs /\ slots' = slots /\ maximum' = maximum /\ UNCHANGED executorVars
  BY DEF Returns, executorVars
<1>7. Outs'
  <2>1. \A i \in 1 .. Size(th) : ~(stack[th][i].task # <<>> /\ stack[th][i].pc \in ScopePCs)
    BY <1>0
  <2> QED BY <1>0, <1>1, <1>b, <2>1, OutsMoved
<1>8. Slotted'
  <2>1. \A i \in 1 .. Size(th) : stack[th][i].claim = 0
    BY <1>0
  <2> QED BY <1>0, <1>1, <1>b, <2>1, SlottedMoved
<1>9. Manned'
  BY <1>0, <1>1, <1>b, MannedMoved
<1>a. Answers'
  <2>1. Progress
    BY DEF Returns
  <2> QED BY <1>0, <1>1, <2>1, AnswersMoved
<1> QED BY <1>2, <1>3, <1>4, <1>5, <1>6, <1>7, <1>8, <1>9, <1>a DEF BatchInv

\* What any return to a frame below keeps.
LEMMA ReturnsBelow ==
  ASSUME BatchInv, NEW th \in Threads, NEW f, NEW how, Returns(th, f, how), Size(th) > 1,
         NEW m, m = Size(th) - 1, Moved(th, m),
         Local(stack'[th][m]), m = 1 /\ th \in Workers => Lane0(stack'[th][1]),
         Owner(stack'[th][m]) => Owner(stack[th][m]),
         batch' \in [Queries -> BatchRec],
         \A p \in Queries : batch'[p].queue = batch[p].queue /\ batch'[p].out = batch[p].out,
         stack'[th][m].claim = stack[th][m].claim,
         stack[th][m].task # <<>> /\ stack[th][m].pc \in ScopePCs => stack'[th][m].pc \in ScopePCs,
         Within(stack'[th][m], batch[stack'[th][m].q].out)
  PROVE  Shapes' /\ Stacks' /\ Owned' /\ Single' /\ Outs' /\ Slotted' /\ Manned'
<1>0. /\ Innermost(th, f) /\ f.claim = 0 /\ f.task # <<>> /\ f.pc \notin ScopePCs
      /\ stack[th] # <<>> /\ f = stack[th][Size(th)] /\ Top(th) = f /\ Size(th) = Len(stack[th]) /\ Size(th) \in Nat
      /\ Shapes /\ Stacks /\ Owned /\ Single /\ Permits /\ Outs /\ Slotted /\ Manned /\ Answers
      /\ jobs' = jobs /\ slots' = slots /\ maximum' = maximum /\ UNCHANGED executorVars
  BY ReturnsFrom DEF Returns, executorVars
<1>1. m \in Nat /\ m > 0 /\ m < Size(th) /\ result' = result
  <2>1. Delivered(th, how)
    BY DEF Returns
  <2>2. Size(th) > 1 => result' = result
    BY <2>1 DEF Delivered
  <2> QED BY <1>0, <2>2
<1>2. Shapes'
  BY <1>0, <1>1, ReturnsShapes DEF Moved, Shapes
<1>3. Stacks'
  BY <1>0, StacksMoved
<1>4. Owned'
  <2>1. \A q \in Queries : \/ node'[q] = node[q]
                            \/ /\ m < Size(th) /\ Owner(stack[th][Size(th)]) /\ stack[th][Size(th)].q = q
                               /\ node'[q] # "computing"
    BY <1>0, <1>1 DEF Returns
  <2>2. owner' = owner
    BY DEF Returns
  <2> QED BY <1>0, <2>1, <2>2, OwnedMoved
<1>5. Single'
  BY <1>0, SingleMoved
<1>7. Outs'
  <2>1. \A i \in 1 .. Size(th) : stack[th][i].task # <<>> /\ stack[th][i].pc \in ScopePCs =>
           i < m \/ (i = m /\ stack'[th][m].pc \in ScopePCs) \/ batch[stack[th][i].q].out = 0
    <3> SUFFICES ASSUME NEW i \in 1 .. Size(th)
                 PROVE  stack[th][i].task # <<>> /\ stack[th][i].pc \in ScopePCs =>
                          i < m \/ (i = m /\ stack'[th][m].pc \in ScopePCs) \/ batch[stack[th][i].q].out = 0
      BY ZenonT(120)
    <3>1. i < m \/ i = m \/ i = Size(th)
      BY <1>0
    <3> QED BY <1>0, <3>1
  <2> QED BY <1>0, <1>1, <2>1, OutsMoved
<1>8. Slotted'
  <2>1. \A i \in 1 .. Size(th) : i > m => stack[th][i].claim = 0
    <3> SUFFICES ASSUME NEW i \in 1 .. Size(th) PROVE i > m => stack[th][i].claim = 0
      BY ZenonT(120)
    <3>1. i > m => i = Size(th)
      BY <1>0
    <3> QED BY <1>0, <3>1
  <2> QED BY <1>0, <1>1, <2>1, SlottedMoved
<1>9. Manned'
  BY <1>0, <1>1, MannedMoved
<1> QED BY <1>2, <1>3, <1>4, <1>5, <1>7, <1>8, <1>9

\* The permits of a return to the frame below.
LEMMA ReturnsPermits ==
  ASSUME BatchInv, NEW th \in Threads, NEW f, NEW how, Returns(th, f, how), Size(th) > 1,
         NEW m, m = Size(th) - 1, Moved(th, m), NEW e, e = stack[th][m], NEW g, g = stack'[th][m],
         g.task = e.task, g.acquired = e.acquired, e.pc \in PermitPCs, g.pc \in PermitPCs,
         e.task # <<>> => Permit(g, First(stack[th], m), owns'),
         f.task \in owns' => e.task = f.task
  PROVE  Permits'
<1>0. /\ f.task # <<>> /\ stack[th] # <<>> /\ f = stack[th][Size(th)] /\ Top(th) = f
      /\ Size(th) = Len(stack[th]) /\ Size(th) \in Nat
      /\ Shapes /\ Stacks /\ Single /\ Permits
  BY ReturnsFrom DEF Returns
<1>1. m \in Nat \ {0} /\ m < Size(th) /\ m \in 1 .. Size(th) /\ m \in 1 .. m /\ m \in 1 .. Len(stack[th]) /\ m > 0
  BY <1>0
<1>2. /\ \A j \in 1 .. m - 1 : stack'[th][j] = stack[th][j]
      /\ \A j \in 1 .. m : stack'[th][j].task = stack[th][j].task
  BY DEF Moved, CutTo
<1>3. First(stack'[th], m) <=> First(stack[th], m)
  <2>1. \A j \in 1 .. m - 1 : j \in 1 .. m
    BY <1>1
  <2> QED BY <1>1, <1>2, <2>1 DEF First
<1>4. Permitted(stack[th], m, owns)
  BY <1>0, <1>1 DEF Permits
<1>5. Permitted(stack'[th], m, owns')
  <2>1. g.task # <<>> => (g.acquired <=> First(stack[th], m) /\ g.pc \in PermitPCs)
    BY <1>4 DEF Permitted
  <2> QED BY <1>3, <2>1 DEF Permitted, Permit
<1>6. ASSUME f.task \in owns' PROVE \E i \in 1 .. m : stack'[th][i].task = f.task /\ stack'[th][i].acquired
  <2>1. PICK j \in 1 .. m : stack[th][j].task = stack[th][m].task /\ stack[th][j].acquired
    BY <1>0, <1>1, <1>6, TookPermit
  <2>2. j \in 1 .. m - 1 \/ j = m
    BY <1>1
  <2> QED BY <1>2, <1>6, <2>1, <2>2
<1>7. /\ \A x : x # Top(th).task => (x \in owns' <=> x \in owns)
      /\ IsFiniteSet(owns') /\ used' = Cardinality(owns') /\ used' <= maximum'
  BY <1>0 DEF Returns, PermitStep
<1>8. Top(th).task \in owns' => \E i \in 1 .. m : stack'[th][i].task = Top(th).task /\ stack'[th][i].acquired
  BY <1>0, <1>6
<1> QED BY <1>0, <1>1, <1>5, <1>7, <1>8, PermitsMoved

\* A body goes on to its next demand, or fails.
LEMMA ReturnToBody ==
  ASSUME BatchInv, NEW th \in Threads, NEW f, NEW how, Returns(th, f, how), Size(th) > 1,
         stack[th][Size(th) - 1].pc = "sequence"
  PROVE  BatchInv'
<1>1. PICK m : m = Size(th) - 1
  OBVIOUS
<1>2. PICK e : e = stack[th][m]
  OBVIOUS
<1>3. PICK g : g = stack'[th][m]
  OBVIOUS
<1>0. /\ Shapes /\ Stacks /\ Answers /\ Outs /\ stack[th] # <<>> /\ f = stack[th][Size(th)] /\ Size(th) \in Nat \ {0}
      /\ Size(th) = Len(stack[th])
  BY ReturnsFrom
<1>4. /\ m \in 1 .. Len(stack[th]) /\ e \in FrameRec /\ e.pc = "sequence" /\ m \in Nat /\ m > 0 /\ m < Size(th)
      /\ f.task = e.task /\ e.next \in DOMAIN Demands[e.q] /\ f.q = Demands[e.q][e.next]
  BY <1>0, <1>1, <1>2, Beneath
<1>5. /\ Moved(th, m) /\ batch' = batch
      /\ how = "ok" => Edited(e, g, "sequence", e.acquired, e.donated, e.next + 1, e.claim, e.how)
      /\ how # "ok" => Edited(e, g, "end", e.acquired, e.donated, e.next, e.claim, how)
  BY <1>1, <1>2, <1>3, <1>4 DEF Returns, Delivered
<1>6. /\ g \in FrameRec /\ g.q = e.q /\ g.task = e.task /\ g.acquired = e.acquired /\ g.claim = e.claim
      /\ g.pc \in {"sequence", "end"}
  BY <1>5 DEF Edited
<1>7. Local(e) /\ Answered(e, stack, node, batch) /\ e.claim = 0
  BY <1>0, <1>2, <1>4 DEF Stacks, Stacked, Answers, Local, ClaimPCs
<1>8. Local(g)
  <2>1. how \in {"ok", "aborted", "panic"} /\ e.how # "retry" /\ e.next \in Nat
    BY <1>4, <1>7 DEF Local, Returns, FrameRec
  <2>2. CASE how = "ok"
    <3>1. g.pc = "sequence" /\ g.next = e.next + 1 /\ g.how = e.how
      BY <1>5, <2>2 DEF Edited
    <3> QED BY <1>6, <1>7, <2>1, <3>1 DEF Local, ClaimPCs
  <2>3. CASE how # "ok"
    <3>1. g.pc = "end" /\ g.how = how
      BY <1>5, <2>3 DEF Edited
    <3> QED BY <1>6, <1>7, <2>1, <3>1 DEF Local, ClaimPCs
  <2> QED BY <2>2, <2>3
<1>9. ~(m = 1 /\ th \in Workers)
  <2>1. m = 1 /\ th \in Workers => Lane0(e)
    BY <1>0, <1>2 DEF Stacks, Stacked
  <2> QED BY <1>4, <2>1 DEF Lane0
<1>a. Owner(g) => Owner(e)
  BY <1>4, <1>6 DEF Owner, OwnPCs
<1>b. Within(g, batch[g.q].out)
  BY <1>6 DEF Within
<1>c. Shapes' /\ Stacks' /\ Owned' /\ Single' /\ Outs' /\ Slotted' /\ Manned'
  <2>1. batch' \in [Queries -> BatchRec]
    BY <1>0, <1>5 DEF Shapes
  <2>2. e.pc \notin ScopePCs
    BY <1>4 DEF ScopePCs
  <2> QED BY <1>1, <1>2, <1>3, <1>5, <1>6, <1>8, <1>9, <1>a, <1>b, <2>1, <2>2, ReturnsBelow
<1>d. Permits'
  <2>1. f.task \in owns'
    <3>1. ~First(stack[th], Size(th))
      <4>1. m \in 1 .. Size(th) - 1 /\ stack[th][m].task = stack[th][Size(th)].task
        BY <1>0, <1>1, <1>2, <1>4
      <4> QED BY <4>1 DEF First
    <3> QED BY <3>1 DEF Returns
  <2>2. Permit(g, First(stack[th], m), owns')
    BY <1>4, <1>6, <2>1 DEF Permit
  <2>3. e.pc \in PermitPCs /\ g.pc \in PermitPCs
    BY <1>4, <1>6 DEF PermitPCs, OwnPCs
  <2> QED BY <1>1, <1>2, <1>3, <1>4, <1>5, <1>6, <2>2, <2>3, ReturnsPermits
<1>e. Answers'
  <2>1. Progress /\ (how = "ok" => node'[f.q] = "terminal")
    BY DEF Returns
  <2>q. e.q \in Queries /\ e.next \in Nat /\ \A k \in DOMAIN Demands[e.q] : Demands[e.q][k] \in Queries /\ k \in Nat
    BY <1>4, Fields, Constants
  <2>2. Answered(g, stack', node', batch')
    <3>1. CASE how = "ok"
      <4>1. g.pc = "sequence" /\ g.next = e.next + 1
        BY <1>5, <3>1 DEF Edited
      <4>2. ASSUME NEW k \in DOMAIN Demands[g.q], k < g.next PROVE node'[Demands[g.q][k]] = "terminal"
        <5>1. k < e.next \/ k = e.next
          BY <1>6, <2>q, <4>1, <4>2
        <5>2. CASE k < e.next
          <6>1. node[Demands[e.q][k]] = "terminal"
            BY <1>4, <1>6, <1>7, <5>2 DEF Answered
          <6> QED BY <1>6, <2>1, <2>q, <6>1 DEF Progress
        <5>3. CASE k = e.next
          BY <1>4, <1>6, <2>1, <3>1, <5>3
        <5> QED BY <5>1, <5>2, <5>3
      <4> QED BY <4>1, <4>2 DEF Answered, BatchPCs, ClaimPCs
    <3>2. CASE how # "ok"
      <4>1. g.pc = "end" /\ g.how # "ok"
        BY <1>5, <3>2 DEF Edited
      <4> QED BY <4>1 DEF Answered, BatchPCs, ClaimPCs
    <3> QED BY <3>1, <3>2
  <2>3. stack[th][Size(th) - 1].pc # "lane"
    OBVIOUS
  <2>4. Answered(stack'[th][m], stack', node', batch')
    BY <1>3, <2>2
  <2>5. m = Size(th) - 1
    BY <1>1
  <2> QED BY <1>0, <1>5, <2>1, <2>3, <2>4, <2>5, AnswersMoved
<1> QED BY <1>c, <1>d, <1>e DEF BatchInv

\* The worse of two outcomes is an answer only if both are.
LEMMA WorstOk ==
  ASSUME NEW a, NEW b
  PROVE  /\ Worst(a, b) = "ok" /\ a \in {"ok", "aborted", "panic"} /\ b \in {"ok", "aborted", "panic"} => a = "ok" /\ b = "ok"
         /\ Worst(a, b) \in {"ok", "aborted", "panic"}
BY DEF Worst

\* What lies under an item of a batch.
LEMMA LaneBeneath ==
  ASSUME BatchInv, NEW th \in Threads, NEW f, NEW how, Returns(th, f, how), Size(th) > 1,
         NEW m, m = Size(th) - 1, NEW e, e = stack[th][m], e.pc = "lane"
  PROVE  /\ m \in 1 .. Len(stack[th]) /\ m \in Nat /\ m > 0 /\ m < Size(th)
         /\ e \in FrameRec /\ e.q \in Queries /\ f = stack[th][Size(th)] /\ f = Top(th)
         /\ \A j \in 1 .. m : stack[th][j].task # f.task
         /\ \E k \in DOMAIN Demands[e.q] : f.task = <<e.q, k>> /\ f.q = Demands[e.q][k]
         /\ \A k \in Nat : f.task = <<e.q, k>> => k \in DOMAIN Demands[e.q] /\ f.q = Demands[e.q][k]
         /\ Local(e) /\ Answered(e, stack, node, batch) /\ Within(e, batch[e.q].out)
         /\ m = 1 /\ th \in Workers => Lane0(e)
         /\ f.task \notin owns'
         /\ e.task # <<>> => e.task \notin owns' /\ e.donated
         /\ Progress /\ (how = "ok" => node'[f.q] = "terminal")
<1>0. /\ Shapes /\ Stacks /\ Permits /\ Outs /\ Answers /\ stack[th] # <<>> /\ f = stack[th][Size(th)]
      /\ Size(th) \in Nat \ {0} /\ Size(th) = Len(stack[th])
  BY ReturnsFrom
<1>1. /\ m \in 1 .. Len(stack[th]) /\ m \in Nat /\ m > 0 /\ m < Size(th) /\ e \in FrameRec
      /\ \A j \in 1 .. m : stack[th][j].task # f.task
      /\ \E k \in DOMAIN Demands[e.q] : f.task = <<e.q, k>> /\ f.q = Demands[e.q][k]
  BY <1>0, Beneath
<1>2. e.q \in Queries
  BY <1>1, Fields
<1>3. \A k \in Nat : f.task = <<e.q, k>> => k \in DOMAIN Demands[e.q] /\ f.q = Demands[e.q][k]
  <2>1. PICK l \in DOMAIN Demands[e.q] : f.task = <<e.q, l>> /\ f.q = Demands[e.q][l]
    BY <1>1
  <2>2. \A k : f.task = <<e.q, k>> => k = l
    BY <2>1, Names
  <2> QED BY <2>1, <2>2
<1>4. Local(e) /\ Answered(e, stack, node, batch) /\ Within(e, batch[e.q].out)
  BY <1>0, <1>1 DEF Stacks, Stacked, Answers, Outs
<1>5. m = 1 /\ th \in Workers => Lane0(e)
  BY <1>0 DEF Stacks, Stacked
<1>6. f.task \notin owns'
  <2>1. First(stack[th], Size(th))
    BY <1>0, <1>1 DEF First
  <2> QED BY <2>1 DEF Returns
<1>7. ASSUME e.task # <<>> PROVE e.task \notin owns' /\ e.donated
  <2>1. Last(stack[th], m)
    <3>1. \A j \in m + 1 .. Len(stack[th]) : j = Size(th)
      BY <1>0, <1>1
    <3>2. e.task # f.task
      BY <1>1
    <3> QED BY <1>0, <3>1, <3>2 DEF Last
  <2>2. Permitted(stack[th], m, owns)
    BY <1>0, <1>1 DEF Permits
  <2>3. e.task \notin owns /\ e.donated
    BY <1>7, <2>1, <2>2 DEF Permitted, Permit
  <2>4. e.task # f.task
    BY <1>1
  <2> QED BY <2>3, <2>4 DEF Returns, PermitStep
<1>8. f = Top(th) /\ Progress /\ (how = "ok" => node'[f.q] = "terminal")
  BY DEF Returns
<1>9. e.task # <<>> => e.task \notin owns' /\ e.donated
  BY <1>7
<1> QED BY <1>0, <1>1, <1>2, <1>3, <1>4, <1>5, <1>6, <1>8, <1>9, ZenonT(120)

\* A lane goes on to its next item, or a panic ends it.
LEMMA ReturnToLane ==
  ASSUME BatchInv, NEW th \in Threads, NEW f, NEW how, Returns(th, f, how), Size(th) > 1,
         stack[th][Size(th) - 1].pc = "lane", ~(how = "panic" /\ th \in Workers /\ Size(th) = 2)
  PROVE  BatchInv'
<1>1. PICK m : m = Size(th) - 1
  OBVIOUS
<1>2. PICK e : e = stack[th][m]
  OBVIOUS
<1>3. PICK g : g = stack'[th][m]
  OBVIOUS
<1>0. /\ Shapes /\ Stacks /\ Answers /\ Outs /\ stack[th] # <<>> /\ how \in {"ok", "aborted", "panic"}
  BY ReturnsFrom DEF Returns
<1>4. /\ m \in 1 .. Len(stack[th]) /\ m \in Nat /\ m > 0 /\ m < Size(th) /\ e.pc = "lane"
      /\ e \in FrameRec /\ e.q \in Queries /\ f = stack[th][Size(th)]
      /\ \A k \in Nat : f.task = <<e.q, k>> => k \in DOMAIN Demands[e.q] /\ f.q = Demands[e.q][k]
      /\ Local(e) /\ Answered(e, stack, node, batch) /\ Within(e, batch[e.q].out)
      /\ m = 1 /\ th \in Workers => Lane0(e)
      /\ f.task \notin owns' /\ (e.task # <<>> => e.task \notin owns' /\ e.donated)
      /\ Progress /\ (how = "ok" => node'[f.q] = "terminal")
  BY <1>1, <1>2, LaneBeneath
<1>5. /\ Moved(th, m)
      /\ batch' \in [Queries -> BatchRec]
      /\ \A p \in Queries : p # e.q => batch'[p] = batch[p]
      /\ batch'[e.q].queue = batch[e.q].queue /\ batch'[e.q].worst = Worst(batch[e.q].worst, how)
      /\ batch'[e.q].out = batch[e.q].out
      /\ Edited(e, g, IF how = "panic" THEN "join_jobs" ELSE "lane", e.acquired, e.donated, e.next, e.claim, e.how)
  <2>1. Delivered(th, how)
    BY DEF Returns
  <2>2. stack[th][Size(th) - 1] = e /\ stack'[th][Size(th) - 1] = g /\ Size(th) - 1 = m
    BY <1>1, <1>2, <1>3
  <2>3. /\ batch' \in [Queries -> BatchRec]
        /\ \A p \in Queries : p # e.q => batch'[p] = batch[p]
        /\ batch'[e.q].queue = batch[e.q].queue /\ batch'[e.q].worst = Worst(batch[e.q].worst, how)
        /\ ~(how = "panic" /\ th \in Workers /\ Size(th) = 2) =>
             /\ Moved(th, m) /\ batch'[e.q].out = batch[e.q].out
             /\ Edited(e, g, IF how = "panic" THEN "join_jobs" ELSE "lane",
                       e.acquired, e.donated, e.next, e.claim, e.how)
    BY <1>4, <2>1, <2>2, ZenonT(120) DEF Delivered
  <2> QED BY <2>3
<1>6. /\ g \in FrameRec /\ g.q = e.q /\ g.task = e.task /\ g.acquired = e.acquired /\ g.claim = e.claim
      /\ g.donated = e.donated /\ g.how = e.how /\ g.pc = IF how = "panic" THEN "join_jobs" ELSE "lane"
  BY <1>5 DEF Edited
<1>7. Local(g)
  BY <1>4, <1>6 DEF Local, ClaimPCs
<1>8. m = 1 /\ th \in Workers => Lane0(stack'[th][1])
  <2>1. ASSUME m = 1, th \in Workers PROVE Lane0(stack'[th][1])
    <3>1. Size(th) = 2 /\ how # "panic"
      BY <1>1, <2>1, <1>4, Sizes, <1>0
    <3> QED BY <1>3, <1>4, <1>6, <2>1, <3>1 DEF Lane0
  <2> QED BY <2>1
<1>9. Owner(g) => Owner(e)
  BY <1>4, <1>6 DEF Owner, OwnPCs
<1>a. Within(g, batch[g.q].out) /\ g.pc \in ScopePCs
  BY <1>4, <1>6 DEF Within, ScopePCs
<1>b. \A p \in Queries : batch'[p].queue = batch[p].queue /\ batch'[p].out = batch[p].out
  BY <1>5
<1>c. Shapes' /\ Stacks' /\ Owned' /\ Single' /\ Outs' /\ Slotted' /\ Manned'
  <2>1. /\ Local(stack'[th][m]) /\ (Owner(stack'[th][m]) => Owner(stack[th][m]))
        /\ stack'[th][m].claim = stack[th][m].claim /\ stack'[th][m].pc \in ScopePCs
        /\ Within(stack'[th][m], batch[stack'[th][m].q].out)
    BY <1>2, <1>3, <1>6, <1>7, <1>9, <1>a
  <2>2. Moved(th, m) /\ batch' \in [Queries -> BatchRec]
    BY <1>5
  <2> QED BY <1>1, <1>8, <1>b, <2>1, <2>2, ReturnsBelow
<1>d. Permits'
  <2>1. e.task # <<>> => Permit(g, First(stack[th], m), owns')
    BY <1>4, <1>6 DEF Permit
  <2>2. e.pc \in PermitPCs /\ g.pc \in PermitPCs
    BY <1>4, <1>6 DEF PermitPCs, OwnPCs
  <2> QED BY <1>1, <1>2, <1>3, <1>4, <1>5, <1>6, <2>1, <2>2, ReturnsPermits
<1>w. \A q \in Queries : batch'[q].worst = "ok" => batch[q].worst = "ok" /\ (q = e.q => how = "ok")
  <2>1. \A q \in Queries : batch[q].worst \in {"ok", "aborted", "panic"}
    BY <1>0 DEF Shapes, BatchRec
  <2> QED BY <1>0, <1>4, <1>5, <2>1, WorstOk
<1>e. Answers'
  <2>1. Progress /\ m = Size(th) - 1
    BY <1>1, <1>4
  <2>2. \A k \in Nat : m < Size(th) /\ Size(th) > 1 /\ stack[th][Size(th) - 1].pc = "lane"
             /\ stack[th][Size(th)].task = <<stack[th][Size(th) - 1].q, k>> =>
               \/ node'[Demands[stack[th][Size(th) - 1].q][k]] = "terminal"
               \/ batch'[stack[th][Size(th) - 1].q].worst # "ok"
    BY <1>1, <1>2, <1>4, <1>w
  <2>3. Answered(g, stack', node', batch')
    <3>1. ASSUME g.task # <<>>, g.pc \in BatchPCs, batch'[g.q].worst = "ok"
          PROVE  /\ g.pc = "lane"
                 /\ \A k \in DOMAIN Demands[g.q] : Cared(g.q, k, stack', node', batch')
      <4>1. how = "ok" /\ batch[e.q].worst = "ok" /\ g.pc = "lane"
        BY <1>4, <1>6, <1>w, <3>1
      <4>2. \A k \in DOMAIN Demands[e.q] : Cared(e.q, k, stack, node, batch)
        BY <1>4, <1>6, <3>1, <4>1 DEF Answered, BatchPCs, ClaimPCs
      <4>3. ASSUME NEW k \in DOMAIN Demands[e.q] PROVE Cared(e.q, k, stack', node', batch')
        <5>1. Cared(e.q, k, stack, node, batch) /\ batch'[e.q].queue = batch[e.q].queue
          BY <1>5, <4>2
        <5>2. k \in Nat
          BY <1>4, Constants
        <5>3. stack[th][Size(th)].task = <<e.q, k>> => node'[Demands[e.q][k]] = "terminal"
          BY <1>4, <4>1, <5>2
        <5> QED BY <1>0, <1>4, <1>5, <2>1, <5>1, <5>3, CaredMoved
      <4> QED BY <1>6, <4>1, <4>3
    <3> QED BY <1>6, <3>1 DEF Answered
  <2>4. Answered(stack'[th][m], stack', node', batch')
    BY <1>3, <2>3
  <2>5. \A q \in Queries : batch'[q].queue = batch[q].queue /\ (batch'[q].worst = "ok" => batch[q].worst = "ok")
    BY <1>b, <1>w
  <2> QED BY <1>0, <1>5, <2>1, <2>2, <2>4, <2>5, AnswersMoved
<1> QED BY <1>c, <1>d, <1>e DEF BatchInv

\* A panic ends the job of a worker.
LEMMA ReturnFromJob ==
  ASSUME BatchInv, NEW th \in Threads, NEW f, NEW how, Returns(th, f, how),
         stack[th][Size(th) - 1].pc = "lane", how = "panic", th \in Workers, Size(th) = 2
  PROVE  BatchInv'
<1>2. PICK e : e = stack[th][1]
  OBVIOUS
<1>0. /\ Shapes /\ Stacks /\ Owned /\ Single /\ Permits /\ Outs /\ Slotted /\ Manned /\ Answers
      /\ stack[th] # <<>> /\ f.claim = 0 /\ f.pc \notin ScopePCs /\ Size(th) = Len(stack[th])
  BY ReturnsFrom
<1>3. PICK m : m = Size(th) - 1
  OBVIOUS
<1>m. m = 1
  BY <1>3
<1>4. /\ e.pc = "lane"
      /\ e \in FrameRec /\ e.q \in Queries /\ f = stack[th][2] /\ f = Top(th)
      /\ Lane0(e) /\ f.task \notin owns' /\ Progress
  <2>1. Size(th) > 1 /\ e = stack[th][m] /\ e.pc = "lane"
    BY <1>2, <1>m
  <2> QED BY <1>3, <1>m, <2>1, LaneBeneath
<1>5. /\ Moved(th, 0)
      /\ batch' \in [Queries -> BatchRec]
      /\ \A p \in Queries : p # e.q => batch'[p] = batch[p]
      /\ batch'[e.q].queue = batch[e.q].queue /\ batch'[e.q].worst = Worst(batch[e.q].worst, how)
      /\ batch'[e.q].out = batch[e.q].out - 1 /\ result' = result
  <2>1. Delivered(th, how)
    BY DEF Returns
  <2> QED BY <1>2, <1>4, <2>1 DEF Delivered
<1>b. \A p \in Queries : batch'[p].queue = batch[p].queue
  BY <1>5
<1>6. Shapes' /\ Stacks' /\ Single'
  <2>1. Shapes'
    BY <1>0, <1>5, ReturnsShapes DEF Moved, Shapes
  <2>2. Stacks'
    BY <1>0, <1>5, StacksMoved
  <2>3. Single'
    BY <1>0, <1>5, <1>b, SingleMoved
  <2> QED BY <2>1, <2>2, <2>3
<1>7. Owned'
  <2>1. \A q \in Queries : \/ node'[q] = node[q]
                            \/ /\ 0 < Size(th) /\ Owner(stack[th][Size(th)]) /\ stack[th][Size(th)].q = q
                               /\ node'[q] # "computing"
    BY <1>4 DEF Returns
  <2>2. owner' = owner
    BY DEF Returns
  <2> QED BY <1>0, <1>5, <2>1, <2>2, OwnedMoved
<1>8. Permits'
  <2>1. ~stack[th][1].acquired /\ Top(th).task \notin owns'
    BY <1>2, <1>4 DEF Lane0
  <2>3. /\ \A x : x # Top(th).task => (x \in owns' <=> x \in owns)
        /\ IsFiniteSet(owns') /\ used' = Cardinality(owns') /\ used' <= maximum'
    BY <1>4 DEF Returns, PermitStep
  <2> QED BY <1>0, <1>5, <2>1, <2>3, PermitsMoved
<1>9. Outs' /\ Slotted' /\ Manned'
  <2>1. e.claim = 0 /\ \A p \in Queries : p # e.q => batch'[p].out = batch[p].out
    BY <1>4, <1>5 DEF Lane0
  <2>2. \A i \in 2 .. Size(th) : stack[th][i].claim = 0 /\ stack[th][i].pc \notin ScopePCs
    <3>1. \A i \in 2 .. Size(th) : i = 2
      OBVIOUS
    <3> QED BY <1>0, <1>4, <3>1
  <2>3. slots' = slots /\ maximum' = maximum /\ UNCHANGED executorVars
    BY DEF Returns
  <2> QED BY <1>0, <1>2, <1>5, <2>1, <2>2, <2>3, WorkerLeaves
<1>a. Answers'
  <2>1. batch'[e.q].worst # "ok"
    BY <1>5 DEF Worst
  <2>2. \A k \in Nat : stack[th][Size(th)].task = <<stack[th][Size(th) - 1].q, k>> =>
               batch'[stack[th][Size(th) - 1].q].worst # "ok"
    BY <1>2, <2>1
  <2>3. \A q \in Queries : batch'[q].queue = batch[q].queue /\ (batch'[q].worst = "ok" => batch[q].worst = "ok")
    BY <1>5, <1>b, <2>1
  <2>4. Progress
    BY <1>4
  <2> QED BY <1>0, <1>5, <2>2, <2>3, <2>4, AnswersMoved
<1> QED BY <1>6, <1>7, <1>8, <1>9, <1>a DEF BatchInv

\* Whatever a frame returns to.
LEMMA ReturnStep ==
  ASSUME BatchInv, NEW th \in Threads, NEW f, NEW how, Returns(th, f, how)
  PROVE  BatchInv'
<1>1. Shapes /\ Stacks /\ Size(th) \in Nat \ {0}
  BY ReturnsFrom
<1>2. CASE Size(th) = 1
  BY <1>2, RequestOver
<1>3. CASE Size(th) > 1
  <2>1. stack[th][Size(th) - 1].pc \in {"sequence", "lane"}
    BY <1>1, <1>3, Beneath
  <2>2. CASE stack[th][Size(th) - 1].pc = "sequence"
    BY <1>3, <2>2, ReturnToBody
  <2>3. CASE stack[th][Size(th) - 1].pc = "lane" /\ ~(how = "panic" /\ th \in Workers /\ Size(th) = 2)
    BY <1>3, <2>3, ReturnToLane
  <2>4. CASE stack[th][Size(th) - 1].pc = "lane" /\ how = "panic" /\ th \in Workers /\ Size(th) = 2
    BY <2>4, ReturnFromJob
  <2> QED BY <2>1, <2>2, <2>3, <2>4
<1> QED BY <1>1, <1>2, <1>3

\* query_task returns at once: canceled, or answered by a terminal.
LEMMA LookReturnsStep ==
  ASSUME BatchInv, NEW th \in Threads, LookReturns(th)
  PROVE  BatchInv'
<1>1. PICK f : f = Top(th)
  OBVIOUS
<1>2. PICK how \in {"ok", "aborted", "panic"} : Deliver(th, how) /\ (how = "ok" => node[f.q] = "terminal")
  BY <1>1 DEF LookReturns
<1>3. /\ stack[th] # <<>> /\ f.pc = "look" /\ maximum' = maximum /\ slots' = slots /\ UNCHANGED executorVars
      /\ waits' = waits /\ canceled' = canceled /\ UNCHANGED nodeVars /\ UNCHANGED permitVars
  BY <1>1 DEF LookReturns, At
<1>4. Shapes /\ Stacks
  BY DEF BatchInv
<1>5. Delivered(th, how)
  BY <1>2, <1>3, <1>4, DeliverPops
<1>6. Innermost(th, f)
  BY <1>1, <1>3, InnermostFrame
<1>7. PermitStep(f.task) /\ (f.task \in owns' <=> ~First(stack[th], Size(th)))
  <2>1. PermitStep(f.task) /\ owns' = owns
    BY <1>3, PermitKept DEF permitVars
  <2>2. f.task # <<>>
    BY <1>3, <1>6 DEF Innermost
  <2>3. f.task \in owns <=> ~First(stack[th], Size(th))
    BY <1>3, <1>6, <2>2 DEF Innermost, Permit
  <2> QED BY <2>1, <2>3
<1>8. /\ node' = node /\ owner' = owner /\ Progress
      /\ node' \in [Queries -> {"none", "computing", "terminal"}] /\ attempt' \in [Queries -> Nat]
  BY <1>3, <1>4 DEF nodeVars, Progress, Shapes
<1>9. how = "ok" => node'[f.q] = "terminal"
  BY <1>2, <1>8
<1>a. Returns(th, f, how)
  BY <1>1, <1>3, <1>5, <1>7, <1>8, <1>9 DEF Returns
<1> QED BY <1>a, ReturnStep

\* A waiter returns, with its permit again if it gave one away.
LEMMA RejoinReturns ==
  ASSUME BatchInv, NEW th \in Threads, Rejoin(th), Top(th).how # "retry"
  PROVE  BatchInv'
<1>1. PICK f : f = Top(th)
  OBVIOUS
<1>2. /\ stack[th] # <<>> /\ f.pc = "rejoin" /\ maximum' = maximum /\ slots' = slots /\ UNCHANGED executorVars
      /\ waits' = waits /\ canceled' = canceled /\ UNCHANGED nodeVars /\ Deliver(th, f.how)
      /\ IF f.donated THEN AcquirePermit(f.task) ELSE UNCHANGED permitVars
  BY <1>1 DEF Rejoin, At
<1>3. Innermost(th, f)
  BY <1>1, <1>2, InnermostFrame
<1>4. Shapes /\ Stacks
  BY DEF BatchInv
<1>5. f.how \in {"ok", "aborted", "panic"} /\ f.task # <<>>
  BY <1>1, <1>2, <1>3, Fields DEF Innermost, Hows
<1>6. PICK how \in {"ok", "aborted", "panic"} : how = f.how
  BY <1>5
<1>7. Delivered(th, how)
  BY <1>2, <1>4, <1>6, DeliverPops
<1>8. PermitStep(f.task) /\ (f.task \in owns' <=> ~First(stack[th], Size(th)))
  <2>1. PermitStep(f.task) /\ (f.task \in owns' <=> f.donated)
    BY <1>1, <1>2, PermitBack
  <2>2. f.donated <=> ~First(stack[th], Size(th))
    BY <1>2, <1>3, <1>5 DEF Innermost, Permit
  <2> QED BY <2>1, <2>2
<1>9. /\ node' = node /\ owner' = owner /\ Progress
      /\ node' \in [Queries -> {"none", "computing", "terminal"}] /\ attempt' \in [Queries -> Nat]
  BY <1>2, <1>4 DEF nodeVars, Progress, Shapes
<1>a. how = "ok" => node'[f.q] = "terminal"
  BY <1>2, <1>3, <1>6, <1>9 DEF Innermost, Answered
<1>b. Returns(th, f, how)
  BY <1>1, <1>2, <1>7, <1>8, <1>9, <1>a DEF Returns
<1> QED BY <1>b, ReturnStep

\* A body's attempt is published or given up, and its frame returns.
LEMMA EndStep ==
  ASSUME BatchInv, NEW th \in Threads, End(th)
  PROVE  BatchInv'
<1>1. PICK f : f = Top(th)
  OBVIOUS
<1>2. PICK how : how = IF f.how = "ok" /\ f.token \in canceled THEN "aborted" ELSE f.how
  OBVIOUS
<1>3. /\ stack[th] # <<>> /\ f.pc = "end" /\ maximum' = maximum /\ slots' = slots /\ UNCHANGED executorVars
      /\ waits' = waits /\ canceled' = canceled /\ owner' = owner /\ Deliver(th, how)
      /\ node' = [node EXCEPT ![f.q] = IF how = "ok" THEN "terminal" ELSE "none"]
      /\ attempt' = [attempt EXCEPT ![f.q] = IF how = "ok" THEN @ ELSE @ + 1]
      /\ IF f.acquired THEN ReleasePermit(f.task) ELSE UNCHANGED permitVars
  BY <1>1, <1>2 DEF End, At
<1>4. Innermost(th, f)
  BY <1>1, <1>3, InnermostFrame
<1>5. Shapes /\ Stacks
  BY DEF BatchInv
<1>6. /\ f.how \in {"ok", "aborted", "panic"} /\ f.task # <<>> /\ f.task \in Tasks /\ f.q \in Queries
      /\ Owner(f) /\ node[f.q] = "computing" /\ f.acquired \in BOOLEAN
  BY <1>3, <1>4, Fields DEF Innermost, Local, Hows, Owner, OwnPCs
<1>7. how \in {"ok", "aborted", "panic"} /\ (how = "ok" => f.how = "ok")
  BY <1>2, <1>6
<1>8. Delivered(th, how)
  BY <1>3, <1>5, <1>7, DeliverPops
<1>9. PermitStep(f.task) /\ (f.task \in owns' <=> ~First(stack[th], Size(th)))
  <2>1. f.task \in owns /\ (f.acquired <=> First(stack[th], Size(th)))
    BY <1>3, <1>4, <1>6 DEF Innermost, Permit, PermitPCs, OwnPCs
  <2>2. CASE f.acquired
    BY <1>3, <1>6, <2>1, <2>2, PermitGiven
  <2>3. CASE ~f.acquired
    BY <1>3, <2>1, <2>3, PermitKept DEF permitVars
  <2> QED BY <2>2, <2>3
<1>a. /\ node' \in [Queries -> {"none", "computing", "terminal"}] /\ attempt' \in [Queries -> Nat]
      /\ \A q \in Queries : node'[q] = IF q = f.q THEN (IF how = "ok" THEN "terminal" ELSE "none") ELSE node[q]
  BY <1>3, <1>5, <1>6 DEF Shapes
<1>b. \A q \in Queries : node'[q] = node[q] \/ (Owner(f) /\ f.q = q /\ node'[q] # "computing")
  BY <1>6, <1>a
<1>c. Progress
  <2>1. how = "ok" => \A k \in DOMAIN Demands[f.q] : node[Demands[f.q][k]] = "terminal"
    BY <1>3, <1>4, <1>7 DEF Innermost, Answered
  <2> QED BY <1>6, <1>a, <2>1 DEF Progress
<1>d. how = "ok" => node'[f.q] = "terminal"
  BY <1>6, <1>a
<1>e. Returns(th, f, how)
  BY <1>1, <1>3, <1>7, <1>8, <1>9, <1>a, <1>b, <1>c, <1>d DEF Returns
<1> QED BY <1>e, ReturnStep

-----------------------------------------------------------------------------
(* Frames that begin *)

\* An item that is no longer queued is the task that frame f begins, and nothing
\* else happens to batches.
Taken(f, task) ==
  /\ \A p \in Queries : \A n \in 1 .. Len(batch[p].queue) :
       \/ \E o \in 1 .. Len(batch'[p].queue) : batch'[p].queue[o] = batch[p].queue[n]
       \/ f.pc = "lane" /\ f.q = p /\ task = <<p, batch[p].queue[n]>>
  /\ \A p \in Queries : batch'[p].out = batch[p].out /\ batch'[p].worst = batch[p].worst
           /\ (batch[p].queue = <<>> => batch'[p].queue = <<>>)

\* No thread runs the task.
Idle(task) == \A u \in Threads : \A i \in 1 .. Len(stack[u]) : stack[u][i].task # task

\* A frame is pushed.
LEMMA PushStep ==
  ASSUME BatchInv, NEW th \in Threads, stack[th] # <<>>, NEW f, f = Top(th), f.pc \in {"sequence", "lane"},
         NEW g, NEW q \in Queries, NEW task \in Tasks, NEW token \in Roots, Fresh(g, q, task, token), Push(th, g),
         Above(f, g),
         (f.pc = "sequence" /\ task = f.task) \/ Idle(task),
         maximum' = maximum, UNCHANGED nodeVars, UNCHANGED permitVars, slots' = slots, UNCHANGED executorVars,
         waits' = waits, canceled' = canceled, result' = result,
         batch' \in [Queries -> BatchRec],
         Dequeued(task), Taken(f, task)
  PROVE  BatchInv'
<1>0. Shapes /\ Stacks /\ Owned /\ Single /\ Permits /\ Outs /\ Slotted /\ Manned /\ Answers
  BY DEF BatchInv
<1>1. Innermost(th, f)
  BY InnermostFrame
<1>2. /\ g \in FrameRec /\ g.q = q /\ g.task = task /\ g.pc = "look" /\ ~g.acquired /\ g.claim = 0
      /\ Local(g) /\ ~Owner(g) /\ g.task # <<>>
  BY TaskNames DEF Fresh
<1>3. Pushed(th, g)
  BY <1>0, <1>2, PushPushes
<1>4. jobs' = jobs /\ node' = node /\ owner' = owner /\ owns' = owns /\ used' = used
  BY DEF executorVars, nodeVars, permitVars
<1>5. Shapes'
  BY <1>0, <1>3, <1>4 DEF Shapes, Pushed, executorVars, nodeVars
<1>6. Stacks'
  <2>1. Top(th).pc = "lane" => \A j \in 1 .. Len(stack[th]) : stack[th][j].task # g.task
    BY <1>2 DEF Idle
  <2>2. Top(th).task = <<>> => Top(th).pc = "lane"
    BY <1>1 DEF Innermost
  <2> QED BY <1>0, <1>2, <1>3, <2>1, <2>2, StacksPushed
<1>7. Owned'
  BY <1>0, <1>2, <1>3, <1>4, OwnedPushed
<1>8. Single'
  <2>1. \A u \in Threads : \A i \in 1 .. Len(stack[u]) : stack[u][i].task = g.task => u = th
    <3>1. CASE task = f.task
      <4> SUFFICES ASSUME NEW u \in Threads, NEW i \in 1 .. Len(stack[u]), stack[u][i].task = g.task PROVE u = th
        OBVIOUS
      <4>1. stack[th][Size(th)].task = stack[u][i].task /\ stack[th][Size(th)].task # <<>> /\ Size(th) \in 1 .. Len(stack[th])
        BY <1>1, <1>2, <3>1 DEF Innermost
      <4> QED BY <1>0, <4>1, OneThread
    <3>2. CASE Idle(task)
      BY <1>2, <3>2 DEF Idle
    <3> QED BY <3>1, <3>2
  <2>2. Dequeued(g.task)
    BY <1>2
  <2> QED BY <1>0, <1>3, <2>1, <2>2, SinglePushed
<1>9. Permits'
  <2>1. \/ g.task = Top(th).task /\ Top(th).pc = "sequence"
        \/ \A u \in Threads : \A i \in 1 .. Len(stack[u]) : stack[u][i].task # g.task
    BY <1>2 DEF Idle
  <2> QED BY <1>0, <1>2, <1>3, <1>4, <2>1, PermitsPushed
<1>a. Outs' /\ Slotted' /\ Manned'
  <2>1. \A p \in Queries : batch'[p].out = batch[p].out
    BY DEF Taken
  <2>2. Outs'
    BY <1>0, <1>2, <1>3, <1>4, <2>1, OutsPushed
  <2>3. Slotted'
    BY <1>0, <1>2, <1>3, <1>4, <2>1, SlottedPushed
  <2>4. Manned'
    BY <1>0, <1>3, MannedPushed
  <2> QED BY <2>2, <2>3, <2>4
<1>b. Answers'
  <2>1. ASSUME NEW p \in Queries, NEW k, f.pc = "lane", f.q = p, task = <<p, k>> PROVE Flying(stack', p, k)
    <3>1. PICK n : n = Size(th)
      OBVIOUS
    <3>2. /\ stack'[th][n] = f /\ stack'[th][n + 1] = g /\ Len(stack'[th]) = n + 1 /\ n \in Nat \ {0}
      BY <1>1, <1>3, <3>1 DEF Pushed, PushedOn, Innermost, Size
    <3>3. n \in 1 .. Len(stack'[th]) - 1
      BY <3>2
    <3> QED BY <1>2, <2>1, <3>2, <3>3 DEF Flying
  <2>2. \A p \in Queries : \A n \in 1 .. Len(batch[p].queue) :
           \/ \E o \in 1 .. Len(batch'[p].queue) : batch'[p].queue[o] = batch[p].queue[n]
           \/ Flying(stack', p, batch[p].queue[n])
    BY <2>1 DEF Taken
  <2>3. \A p \in Queries : batch'[p].worst = batch[p].worst /\ (batch[p].queue = <<>> => batch'[p].queue = <<>>)
    BY DEF Taken
  <2> QED BY <1>0, <1>2, <1>3, <1>4, <2>2, <2>3, AnswersPushed
<1> QED BY <1>5, <1>6, <1>7, <1>8, <1>9, <1>a, <1>b DEF BatchInv

\* The next demand, in the same task.
LEMMA SequencePushes ==
  ASSUME BatchInv, NEW th \in Threads, Sequence(th), ~(Top(th).next > Len(Demands[Top(th).q]))
  PROVE  BatchInv'
<1>1. PICK f : f = Top(th)
  OBVIOUS
<1>2. PICK g : g = Frame(Demands[f.q][f.next], f.task, f.token)
  OBVIOUS
<1>3. /\ stack[th] # <<>> /\ f.pc = "sequence" /\ ~(f.next > Len(Demands[f.q])) /\ Push(th, g)
      /\ maximum' = maximum /\ UNCHANGED nodeVars /\ UNCHANGED permitVars /\ slots' = slots /\ UNCHANGED executorVars
      /\ waits' = waits /\ canceled' = canceled /\ result' = result /\ batch' = batch
  BY <1>1, <1>2 DEF Sequence, At
<1>4. Innermost(th, f)
  BY <1>1, <1>3, InnermostFrame
<1>5. f.q \in Queries /\ f.task # <<>> /\ f.task \in Tasks /\ f.token \in Roots /\ f.next \in Nat /\ f.next # 0
  BY <1>3, <1>4, Fields DEF Innermost, Local
<1>6. f.next \in DOMAIN Demands[f.q]
  BY <1>3, <1>5, Constants
<1>7. Demands[f.q][f.next] \in Queries
  BY <1>5, <1>6, Constants
<1>8. Fresh(g, Demands[f.q][f.next], f.task, f.token)
  BY <1>2, <1>5, <1>7, NewFrame
<1>9. Above(f, g)
  BY <1>3, <1>6, <1>8 DEF Above, Fresh
<1>a. Single /\ batch' \in [Queries -> BatchRec]
  BY <1>3 DEF BatchInv, Shapes
<1>b. \A p \in Queries : Indices(p, batch'[p].queue)
  BY <1>3, <1>a DEF Single
<1>c. \A p \in Queries : \A k \in Nat : f.task = <<p, k>> =>
           \A n \in 1 .. Len(batch'[p].queue) : batch'[p].queue[n] # k
  <2> SUFFICES ASSUME NEW p \in Queries, NEW k \in Nat, f.task = <<p, k>>
               PROVE  \A n \in 1 .. Len(batch[p].queue) : batch[p].queue[n] # k
    BY <1>3
  <2>1. stack[th][Size(th)].task = <<p, k>> /\ Size(th) \in 1 .. Len(stack[th])
    BY <1>4 DEF Innermost
  <2> QED BY <1>a, <2>1, NotQueued
<1>d. \A p \in Queries : batch'[p].out = batch[p].out /\ batch'[p].worst = batch[p].worst
           /\ (batch[p].queue = <<>> => batch'[p].queue = <<>>)
  BY <1>3
<1>e. Dequeued(f.task)
  <2>1. \A p \in Queries : \A n \in 1 .. Len(batch'[p].queue) :
           \E o \in 1 .. Len(batch[p].queue) : batch'[p].queue[n] = batch[p].queue[o]
    BY <1>3
  <2> QED BY <1>b, <1>c, <2>1, ZenonT(120) DEF Dequeued
<1>f. PICK q \in Queries, task \in Tasks, token \in Roots : Fresh(g, q, task, token) /\ task = f.task
  BY <1>5, <1>7, <1>8
<1>g. Dequeued(task) /\ Taken(f, task)
  BY <1>3, <1>d, <1>e, <1>f DEF Taken
<1> QED BY <1>1, <1>3, <1>9, <1>a, <1>f, <1>g, PushStep

\* What is left of a batch's queue when its first item is taken.
LEMMA TailIndices ==
  ASSUME NEW q \in Queries, NEW s \in Seq(Nat), s # <<>>, Indices(q, s)
  PROVE  /\ Head(s) \in DOMAIN Demands[q] /\ Tail(s) \in Seq(Nat) /\ Indices(q, Tail(s))
         /\ \A n \in 1 .. Len(Tail(s)) : Tail(s)[n] # Head(s) /\ n + 1 \in 1 .. Len(s) /\ Tail(s)[n] = s[n + 1]
         /\ \A n \in 1 .. Len(s) : s[n] = Head(s) \/ (n - 1 \in 1 .. Len(Tail(s)) /\ Tail(s)[n - 1] = s[n])
         /\ \E n \in 1 .. Len(s) : s[n] = Head(s)
<1> DEFINE t == Tail(s)
<1>1. /\ Len(s) \in Nat \ {0} /\ t \in Seq(Nat) /\ Len(t) = Len(s) - 1 /\ Head(s) = s[1]
      /\ \A n \in 1 .. Len(t) : t[n] = s[n + 1]
  BY HeadTailProperties, EmptySeq
<1> HIDE DEF t
<1>2. \A n \in 1 .. Len(t) : n + 1 \in 1 .. Len(s) /\ n + 1 # 1
  BY <1>1
<1>3. 1 \in 1 .. Len(s)
  BY <1>1
<1>4. \A n \in 1 .. Len(t) : t[n] # s[1]
  BY <1>1, <1>2, <1>3 DEF Indices
<1>5. \A n \in 1 .. Len(s) : n = 1 \/ (n - 1 \in 1 .. Len(t) /\ t[n - 1] = s[n])
  BY <1>1
<1>6. Indices(q, t)
  <2>1. \A n \in 1 .. Len(t) : t[n] \in DOMAIN Demands[q]
    BY <1>1, <1>2 DEF Indices
  <2>2. ASSUME NEW m \in 1 .. Len(t), NEW n \in 1 .. Len(t), t[m] = t[n] PROVE m = n
    <3>1. m + 1 = n + 1
      BY <1>1, <1>2, <2>2, ZenonT(120) DEF Indices
    <3> QED BY <1>1, <3>1
  <2> QED BY <2>1, <2>2 DEF Indices
<1>7. Head(s) \in DOMAIN Demands[q]
  BY <1>1, <1>3 DEF Indices
<1> QED BY <1>1, <1>2, <1>3, <1>4, <1>5, <1>6, <1>7 DEF t

\* The next item of a batch.
LEMMA LanePushes ==
  ASSUME BatchInv, NEW th \in Threads, Lane(th), batch[Top(th).q].queue # <<>>
  PROVE  BatchInv'
<1>1. PICK f : f = Top(th)
  OBVIOUS
<1>2. PICK s : s = batch[f.q].queue
  OBVIOUS
<1>3. PICK k : k = Head(s)
  OBVIOUS
<1>4. PICK g : g = Frame(Demands[f.q][k], <<f.q, k>>, f.token)
  OBVIOUS
<1>5. /\ stack[th] # <<>> /\ f.pc = "lane" /\ Push(th, g) /\ s # <<>>
      /\ maximum' = maximum /\ UNCHANGED nodeVars /\ UNCHANGED permitVars /\ slots' = slots /\ UNCHANGED executorVars
      /\ waits' = waits /\ canceled' = canceled /\ result' = result
      /\ batch' = [batch EXCEPT ![f.q].queue = Tail(batch[f.q].queue)]
  BY <1>1, <1>2, <1>3, <1>4 DEF Lane, At
<1>6. Innermost(th, f)
  BY <1>1, <1>5, InnermostFrame
<1>7. f.q \in Queries /\ f.token \in Roots /\ Shapes /\ Single
  BY <1>6 DEF Innermost, BatchInv
<1>8. s \in Seq(Nat) /\ Indices(f.q, s)
  BY <1>2, <1>7 DEF Shapes, BatchRec, Single
<1>9. /\ k \in DOMAIN Demands[f.q] /\ Tail(s) \in Seq(Nat) /\ Indices(f.q, Tail(s))
      /\ \A n \in 1 .. Len(Tail(s)) : Tail(s)[n] # k /\ n + 1 \in 1 .. Len(s) /\ Tail(s)[n] = s[n + 1]
      /\ \A n \in 1 .. Len(s) : s[n] = k \/ (n - 1 \in 1 .. Len(Tail(s)) /\ Tail(s)[n - 1] = s[n])
      /\ \E n \in 1 .. Len(s) : s[n] = k
  BY <1>3, <1>5, <1>7, <1>8, TailIndices
<1>a. PICK r : r = Tail(s)
  OBVIOUS
<1>r. Indices(f.q, r) /\ \A n \in 1 .. Len(r) : r[n] # k
  BY <1>9, <1>a
<1>b. /\ batch' \in [Queries -> BatchRec]
      /\ batch'[f.q].worst = batch[f.q].worst /\ batch'[f.q].out = batch[f.q].out /\ batch'[f.q].queue = r
      /\ \A p \in Queries : p # f.q => batch'[p] = batch[p]
  <2>1. batch' = [batch EXCEPT ![f.q].queue = r]
    BY <1>2, <1>5, <1>a
  <2>2. r \in Seq(Nat) /\ batch \in [Queries -> BatchRec]
    BY <1>7, <1>9, <1>a DEF Shapes
  <2> QED BY <1>7, <2>1, <2>2 DEF BatchRec
<1>c. k \in Nat /\ Demands[f.q][k] \in Queries /\ <<f.q, k>> \in Tasks
  BY <1>7, <1>9, Constants, TaskNames
<1>d. Fresh(g, Demands[f.q][k], <<f.q, k>>, f.token)
  BY <1>4, <1>7, <1>c, NewFrame
<1>e. Above(f, g)
  BY <1>5, <1>9, <1>d DEF Above, Fresh
<1>f. \A u \in Threads : \A i \in 1 .. Len(stack[u]) : stack[u][i].task # <<f.q, k>>
  <2> SUFFICES ASSUME NEW u \in Threads, NEW i \in 1 .. Len(stack[u]), stack[u][i].task = <<f.q, k>> PROVE FALSE
    OBVIOUS
  <2>1. \A n \in 1 .. Len(batch[f.q].queue) : batch[f.q].queue[n] # k
    BY <1>7, <1>c, NotQueued
  <2> QED BY <1>2, <1>9, <2>1
<1>g. Dequeued(<<f.q, k>>)
  <2>1. ASSUME NEW p \in Queries, NEW l \in Nat, <<f.q, k>> = <<p, l>>, NEW n \in 1 .. Len(batch'[p].queue)
        PROVE  batch'[p].queue[n] # l
    <3>1. p = f.q /\ l = k
      BY <2>1, Names
    <3>2. n \in 1 .. Len(r) /\ batch'[p].queue = r
      BY <1>b, <3>1
    <3> QED BY <1>r, <3>1, <3>2
  <2>2. ASSUME NEW p \in Queries, NEW n \in 1 .. Len(batch'[p].queue)
        PROVE  \E o \in 1 .. Len(batch[p].queue) : batch'[p].queue[n] = batch[p].queue[o]
    <3>1. CASE p = f.q
      <4>1. n \in 1 .. Len(r) /\ n + 1 \in 1 .. Len(s) /\ r[n] = s[n + 1]
        BY <1>9, <1>a, <1>b, <3>1
      <4> QED BY <1>2, <1>b, <3>1, <4>1
    <3>2. CASE p # f.q
      BY <1>b, <3>2
    <3> QED BY <3>1, <3>2
  <2>3. ASSUME NEW p \in Queries PROVE Indices(p, batch'[p].queue)
    <3>1. CASE p = f.q
      BY <1>b, <1>r, <3>1
    <3>2. CASE p # f.q
      BY <1>7, <1>b, <3>2 DEF Single
    <3> QED BY <3>1, <3>2
  <2> QED BY <2>1, <2>2, <2>3, Zenon DEF Dequeued
<1>h. ASSUME NEW p \in Queries, NEW n \in 1 .. Len(batch[p].queue)
      PROVE  \/ \E o \in 1 .. Len(batch'[p].queue) : batch'[p].queue[o] = batch[p].queue[n]
             \/ f.pc = "lane" /\ f.q = p /\ <<f.q, k>> = <<p, batch[p].queue[n]>>
  <2>1. CASE p = f.q
    <3>1. s[n] = k \/ (n - 1 \in 1 .. Len(r) /\ r[n - 1] = s[n])
      BY <1>2, <1>9, <1>a, <2>1
    <3> QED BY <1>2, <1>5, <1>b, <2>1, <3>1
  <2>2. CASE p # f.q
    BY <1>b, <2>2
  <2> QED BY <2>1, <2>2
<1>i. \A p \in Queries : batch'[p].out = batch[p].out /\ batch'[p].worst = batch[p].worst
           /\ (batch[p].queue = <<>> => batch'[p].queue = <<>>)
  BY <1>2, <1>5, <1>b
<1>j. PICK q \in Queries, task \in Tasks, token \in Roots : Fresh(g, q, task, token) /\ task = <<f.q, k>>
  BY <1>7, <1>c, <1>d
<1>k. Dequeued(task) /\ Idle(task)
  BY <1>f, <1>g, <1>j DEF Idle
<1>l. Taken(f, task)
  BY <1>h, <1>i, <1>j, ZenonT(120) DEF Taken
<1>m. batch' \in [Queries -> BatchRec]
  BY <1>b
<1>n. /\ stack[th] # <<>> /\ f.pc = "lane" /\ Push(th, g)
      /\ maximum' = maximum /\ UNCHANGED nodeVars /\ UNCHANGED permitVars /\ slots' = slots /\ UNCHANGED executorVars
      /\ waits' = waits /\ canceled' = canceled /\ result' = result
  BY <1>5
<1>o. Fresh(g, q, task, token)
  BY <1>j
<1> QED BY <1>1, <1>e, <1>k, <1>l, <1>m, <1>n, <1>o, PushStep

-----------------------------------------------------------------------------
(* Slots are claimed and given back *)

\* The stacks st2 are the stacks st, with c slots in frame n of t, which had none.
Grows(st, st2, t, n, c) ==
  /\ t \in Threads /\ n \in 1 .. Len(st[t]) /\ c \in Nat
  /\ \A u \in Threads : Len(st2[u]) = Len(st[u]) /\ Len(st[u]) \in Nat
  /\ st[t][n].claim = 0 /\ st2[t][n].claim = c
  /\ \A u \in Threads : \A j \in 1 .. Len(st[u]) : (u = t /\ j = n) \/ st2[u][j].claim = st[u][j].claim

\* The slots grow by as many.
LEMMA ClaimsGrow ==
  ASSUME NEW st, NEW st2, NEW t, NEW n, NEW c, Grows(st, st2, t, n, c)
  PROVE  /\ IsFiniteSet(ClaimsOf(st)) <=> IsFiniteSet(ClaimsOf(st2))
         /\ IsFiniteSet(ClaimsOf(st)) => Cardinality(ClaimsOf(st2)) = Cardinality(ClaimsOf(st)) + c
<1>1. t \in Threads /\ n \in Nat /\ c \in Nat /\ Len(st[t]) \in Nat
  BY DEF Grows
<1>2. PICK N : N = {<<t, n>>} \X (1 .. c)
  OBVIOUS
<1>3. IsFiniteSet(N) /\ Cardinality(N) = c
  <2>1. IsFiniteSet({<<t, n>>}) /\ Cardinality({<<t, n>>}) = 1
    BY FS_Singleton
  <2>2. IsFiniteSet(1 .. c) /\ Cardinality(1 .. c) = c
    BY <1>1, FS_Interval
  <2>3. PICK A : A = {<<t, n>>}
    OBVIOUS
  <2>4. PICK B : B = 1 .. c
    OBVIOUS
  <2>5. IsFiniteSet(A \X B) /\ Cardinality(A \X B) = Cardinality(A) * Cardinality(B)
    BY <2>1, <2>2, <2>3, <2>4, FS_Product
  <2>6. N = A \X B
    BY <1>2, <2>3, <2>4
  <2>7. Cardinality(A) * Cardinality(B) = c
    BY <1>1, <2>1, <2>2, <2>3, <2>4
  <2> QED BY <2>5, <2>6, <2>7
<1>4. ASSUME NEW u \in Threads, NEW j \in Nat, NEW k \in Nat
      PROVE  /\ <<<<u, j>>, k>> \in N <=> u = t /\ j = n /\ k \in 1 .. c
             /\ <<<<u, j>>, k>> \in ClaimsOf(st2) <=> <<<<u, j>>, k>> \in ClaimsOf(st) \cup N
             /\ ~(<<<<u, j>>, k>> \in ClaimsOf(st) /\ <<<<u, j>>, k>> \in N)
  <2>1. <<<<u, j>>, k>> \in ClaimsOf(st) <=> j \in 1 .. Len(st[u]) /\ k \in 1 .. st[u][j].claim
    BY ClaimParts
  <2>2. <<<<u, j>>, k>> \in ClaimsOf(st2) <=> j \in 1 .. Len(st2[u]) /\ k \in 1 .. st2[u][j].claim
    BY ClaimParts
  <2>3. <<<<u, j>>, k>> \in N <=> u = t /\ j = n /\ k \in 1 .. c
    BY <1>2
  <2>4. CASE u = t /\ j = n
    <3>1. j \in 1 .. Len(st[u]) /\ Len(st2[u]) = Len(st[u]) /\ st[u][j].claim = 0 /\ st2[u][j].claim = c
      BY <2>4 DEF Grows
    <3> QED BY <2>1, <2>2, <2>3, <2>4, <3>1
  <2>5. CASE ~(u = t /\ j = n)
    <3>1. Len(st2[u]) = Len(st[u]) /\ (j \in 1 .. Len(st[u]) => st2[u][j].claim = st[u][j].claim)
      BY <2>5 DEF Grows
    <3> QED BY <2>1, <2>2, <2>3, <2>5, <3>1
  <2> QED BY <2>3, <2>4, <2>5
<1>5. \A s : ClaimsOf(s) \in SUBSET ((Threads \X Nat) \X Nat)
  BY DEF ClaimsOf
<1>6. N \in SUBSET ((Threads \X Nat) \X Nat)
  BY <1>1, <1>2
<1>7. PICK U : U = ClaimsOf(st) \cup N
  OBVIOUS
<1>8. ClaimsOf(st2) = U
  <2>1. \A u \in Threads : \A j \in Nat : \A k \in Nat :
          <<<<u, j>>, k>> \in ClaimsOf(st2) <=> <<<<u, j>>, k>> \in U
    BY <1>4, <1>7, ZenonT(120)
  <2>2. ClaimsOf(st2) \in SUBSET ((Threads \X Nat) \X Nat)
    BY <1>5
  <2>3. U \in SUBSET ((Threads \X Nat) \X Nat)
    BY <1>5, <1>6, <1>7
  <2> QED BY <2>1, <2>2, <2>3, ClaimsEqual, Zenon
<1>9. ClaimsOf(st) \cap N = {}
  <2>1. ASSUME NEW x \in N, x \in ClaimsOf(st) PROVE FALSE
    <3>1. x = <<<<t, n>>, x[2]>> /\ x[2] \in 1 .. c
      BY <1>2
    <3>2. x[2] \in Nat
      BY <3>1
    <3> QED BY <1>1, <1>4, <2>1, <3>1, <3>2
  <2> QED BY <2>1
<1>a. IsFiniteSet(ClaimsOf(st2)) => IsFiniteSet(ClaimsOf(st))
  <2>1. ClaimsOf(st) \subseteq ClaimsOf(st2)
    BY <1>7, <1>8
  <2> QED BY <2>1, FS_Subset
<1>b. ASSUME IsFiniteSet(ClaimsOf(st))
      PROVE  IsFiniteSet(ClaimsOf(st2)) /\ Cardinality(ClaimsOf(st2)) = Cardinality(ClaimsOf(st)) + c
  <2>1. PICK C : C = ClaimsOf(st)
    OBVIOUS
  <2>2. IsFiniteSet(C) /\ C \cap N = {} /\ U = C \cup N
    BY <1>7, <1>9, <1>b, <2>1
  <2>3. /\ IsFiniteSet(C \cup N)
        /\ Cardinality(C \cup N) = Cardinality(C) + Cardinality(N) - Cardinality(C \cap N)
    BY <1>3, <2>2, FS_Union
  <2>4. Cardinality(C \cap N) = 0 /\ Cardinality(C) \in Nat
    BY <2>2, FS_EmptySet, FS_CardinalityType
  <2>5. Cardinality(U) = Cardinality(C) + c
    BY <1>1, <1>3, <2>2, <2>3, <2>4
  <2> QED BY <1>8, <2>1, <2>2, <2>3, <2>5
<1> QED BY <1>a, <1>b

\* The frame's batch has no job, so no slot of it is in use.
LEMMA SlottedResized ==
  ASSUME Shapes, Slotted, NEW th \in Threads, stack[th] # <<>>, NEW f, f = Top(th), NEW g \in FrameRec,
         g.q = f.q, g.task = f.task, SetTop(th, g), f.claim = 0 \/ g.claim = 0,
         batch[f.q].out = 0, \A p \in Queries : batch'[p].out = batch[p].out,
         jobs' = jobs, maximum' = maximum, slots' = slots + g.claim - f.claim, slots' <= maximum - 1
  PROVE  Slotted'
<1>1. PICK n : n = Size(th)
  OBVIOUS
<1>2. n \in Nat \ {0} /\ n = Len(stack[th]) /\ n \in 1 .. Len(stack[th]) /\ f = stack[th][n] /\ n > 0 /\ f \in FrameRec
  BY <1>1, Tops
<1>3. Moved(th, n) /\ stack'[th][n] = g
  BY <1>1, SetTopMoves
<1>4. \A u \in Threads : Len(stack'[u]) = Len(stack[u]) /\ Len(stack[u]) \in Nat
  <2>1. \A u \in Threads : Len(stack[u]) \in Nat
    BY Sizes DEF Size
  <2>2. Len(stack'[th]) = n
    BY <1>3 DEF Moved, CutTo
  <2> QED BY <1>2, <1>3, <2>1, <2>2 DEF Moved
<1>5. ASSUME NEW u \in Threads, NEW j \in 1 .. Len(stack[u])
      PROVE  /\ stack'[u][j].q = stack[u][j].q /\ stack[u][j].q \in Queries
             /\ (u = th /\ j = n) \/ stack'[u][j] = stack[u][j]
  <2>1. j \in 1 .. Len(stack'[u])
    BY <1>4
  <2> QED BY <1>3, <2>1, KeptFrames, Fields
<1>6. f.claim \in Nat /\ g.claim \in Nat
  BY <1>2, Fields
<1>7. /\ f.claim = 0 => Grows(stack, stack', th, n, g.claim)
      /\ g.claim = 0 => Grows(stack', stack, th, n, f.claim)
  BY <1>2, <1>3, <1>4, <1>5, <1>6, ZenonT(120) DEF Grows
<1>8. /\ IsFiniteSet(ClaimsOf(stack'))
      /\ Cardinality(ClaimsOf(stack')) = Cardinality(ClaimsOf(stack)) + g.claim - f.claim
  <2>1. IsFiniteSet(ClaimsOf(stack)) /\ Cardinality(ClaimsOf(stack)) \in Nat
    BY FS_CardinalityType DEF Slotted
  <2>2. CASE f.claim = 0
    <3>1. IsFiniteSet(ClaimsOf(stack')) /\ Cardinality(ClaimsOf(stack')) = Cardinality(ClaimsOf(stack)) + g.claim
      BY <1>7, <2>1, <2>2, ClaimsGrow
    <3> QED BY <1>6, <2>1, <2>2, <3>1
  <2>3. CASE g.claim = 0
    <3>1. IsFiniteSet(ClaimsOf(stack')) /\ Cardinality(ClaimsOf(stack)) = Cardinality(ClaimsOf(stack')) + f.claim
      BY <1>7, <2>1, <2>3, ClaimsGrow
    <3>2. Cardinality(ClaimsOf(stack')) \in Nat
      BY <3>1, FS_CardinalityType
    <3> QED BY <1>6, <2>1, <2>3, <3>1, <3>2
  <2> QED BY <2>2, <2>3
<1>9. ASSUME NEW u \in Threads, NEW j \in Nat, NEW k \in Nat
      PROVE  <<<<u, j>>, k>> \in SpentOf(stack', batch') <=> <<<<u, j>>, k>> \in SpentOf(stack, batch)
  <2>1. <<<<u, j>>, k>> \in SpentOf(stack, batch) <=>
          j \in 1 .. Len(stack[u]) /\ k \in 1 .. stack[u][j].claim /\ k <= batch[stack[u][j].q].out
    BY ClaimParts
  <2>2. <<<<u, j>>, k>> \in SpentOf(stack', batch') <=>
          j \in 1 .. Len(stack'[u]) /\ k \in 1 .. stack'[u][j].claim /\ k <= batch'[stack'[u][j].q].out
    BY ClaimParts
  <2>3. CASE j \notin 1 .. Len(stack[u])
    BY <1>4, <2>1, <2>2, <2>3
  <2>4. CASE j \in 1 .. Len(stack[u])
    <3>1. batch'[stack'[u][j].q].out = batch[stack[u][j].q].out
      BY <1>5, <2>4
    <3>2. CASE u = th /\ j = n
      <4>1. batch[stack[u][j].q].out = 0
        BY <1>2, <3>2
      <4>2. ~(k \in 1 .. stack[u][j].claim /\ k <= 0) /\ ~(k \in 1 .. stack'[u][j].claim /\ k <= 0)
        BY <1>2, <1>3, <1>6, <3>2
      <4> QED BY <2>1, <2>2, <3>1, <4>1, <4>2
    <3>3. CASE ~(u = th /\ j = n)
      BY <1>4, <1>5, <2>1, <2>2, <2>4, <3>1, <3>3
    <3> QED BY <3>2, <3>3
  <2> QED BY <2>3, <2>4
<1>a. SpentOf(stack', batch') = SpentOf(stack, batch)
  <2>1. SpentOf(stack', batch') \in SUBSET ((Threads \X Nat) \X Nat) /\ SpentOf(stack, batch) \in SUBSET ((Threads \X Nat) \X Nat)
    BY DEF ClaimsOf, SpentOf
  <2>2. \A t \in Threads : \A i \in Nat : \A k \in Nat :
          <<<<t, i>>, k>> \in SpentOf(stack', batch') <=> <<<<t, i>>, k>> \in SpentOf(stack, batch)
    BY <1>9, Zenon
  <2> QED BY <2>1, <2>2, ClaimsEqual, Zenon
<1>b. Busy' = Busy
  BY <1>2, <1>3, LanesMoved
<1> QED BY <1>8, <1>a, <1>b DEF Slotted


-----------------------------------------------------------------------------
(* The owner of a query changes its batch *)

\* Only the batch of q changes; it has no job, and q's items are in its queue once.
Restarted(q) ==
  /\ batch' \in [Queries -> BatchRec] /\ batch'[q].out = 0 /\ Indices(q, batch'[q].queue)
  /\ \A p \in Queries : p # q => batch'[p] = batch[p]

\* Nothing of q's batch runs.
Still(q) == \A t \in Threads : \A i \in 1 .. Len(stack[t]) : \A k \in Nat : stack[t][i].task # <<q, k>>

\* Its items may be queued while nothing of it runs.
LEMMA SingleReset ==
  ASSUME Shapes, Single, NEW th \in Threads, NEW m, Moved(th, m), NEW q \in Queries, Restarted(q), Still(q)
  PROVE  Single'
<1>1. ASSUME NEW t \in Threads, NEW i \in 1 .. Len(stack'[t])
      PROVE  i \in 1 .. Len(stack[t]) /\ stack'[t][i].task = stack[t][i].task
  BY <1>1, KeptFrames
<1>2. \A t, u \in Threads : \A i \in 1 .. Len(stack'[t]) : \A j \in 1 .. Len(stack'[u]) :
       stack'[t][i].task = stack'[u][j].task /\ stack'[t][i].task # <<>> => t = u
  BY <1>1 DEF Single
<1>3. ASSUME NEW t \in Threads, NEW i \in 1 .. Len(stack'[t]), NEW p \in Queries, NEW k \in Nat,
             stack'[t][i].task = <<p, k>>
      PROVE  \A n \in 1 .. Len(batch'[p].queue) : batch'[p].queue[n] # k
  <2>1. i \in 1 .. Len(stack[t]) /\ stack[t][i].task = <<p, k>>
    BY <1>1, <1>3
  <2>2. p # q
    BY <2>1 DEF Still
  <2>3. batch'[p] = batch[p]
    BY <2>2 DEF Restarted
  <2>4. \A n \in 1 .. Len(batch[p].queue) : batch[p].queue[n] # k
    BY <2>1, NotQueued
  <2> QED BY <2>3, <2>4
<1>4. ASSUME NEW p \in Queries PROVE Indices(p, batch'[p].queue)
  <2>1. CASE p = q
    BY <2>1 DEF Restarted
  <2>2. CASE p # q
    BY <2>2 DEF Restarted, Single
  <2> QED BY <2>1, <2>2
<1> QED BY <1>2, <1>3, <1>4 DEF Single

\* Whoever else waits in a batch waits in another one.
LEMMA AnswersReset ==
  ASSUME Shapes, Owned, Answers, node' = node, NEW th \in Threads, stack[th] # <<>>, Moved(th, Size(th)),
         Owner(Top(th)), NEW q, q = Top(th).q, Restarted(q),
         Answered(stack'[th][Size(th)], stack', node', batch')
  PROVE  Answers'
<1>0. Progress
  BY DEF Progress
<1>t. Size(th) \in 1 .. Len(stack[th]) /\ Top(th) = stack[th][Size(th)]
  BY Tops
<1>1. ASSUME NEW t \in Threads, NEW i \in 1 .. Len(stack'[t])
      PROVE  Answered(stack'[t][i], stack', node', batch')
  <2>1. /\ i \in 1 .. Len(stack[t])
        /\ (t = th /\ i = Size(th)) \/ stack'[t][i] = stack[t][i]
        /\ stack[t][i] \in FrameRec
    BY KeptFrames
  <2>2. CASE t = th /\ i = Size(th)
    BY <2>2
  <2>3. CASE ~(t = th /\ i = Size(th))
    <3>0. PICK f : f = stack[t][i]
      OBVIOUS
    <3>1. f.q \in Queries /\ \A k \in DOMAIN Demands[f.q] : k \in Nat
      BY <2>1, <3>0, Fields, Constants
    <3>2. Answered(f, stack, node, batch) /\ stack'[t][i] = f
      BY <2>1, <2>3, <3>0 DEF Answers
    <3>3. ASSUME f.task # <<>>, f.pc \in BatchPCs, batch'[f.q].worst = "ok"
          PROVE  /\ \A k \in DOMAIN Demands[f.q] : Cared(f.q, k, stack', node', batch')
                 /\ f.pc # "dispatch" /\ f.pc # "lane" => batch'[f.q].queue = <<>>
      <4>1. Owner(f)
        BY <3>3 DEF Owner, OwnPCs, BatchPCs, ClaimPCs
      <4>2. f.q # q
        BY <1>t, <2>1, <2>3, <3>0, <4>1 DEF Owned
      <4>3. batch'[f.q] = batch[f.q]
        BY <3>1, <4>2 DEF Restarted
      <4>4. batch[f.q].worst = "ok"
        BY <3>3, <4>3
      <4>5. /\ \A k \in DOMAIN Demands[f.q] : Cared(f.q, k, stack, node, batch)
            /\ f.pc # "dispatch" /\ f.pc # "lane" => batch[f.q].queue = <<>>
        BY <3>2, <3>3, <4>4, ZenonT(120) DEF Answered
      <4>6. ASSUME NEW k \in DOMAIN Demands[f.q] PROVE Cared(f.q, k, stack', node', batch')
        <5>1. Cared(f.q, k, stack, node, batch) /\ batch'[f.q].queue = batch[f.q].queue
          BY <4>3, <4>5
        <5>2. PICK m : m = Size(th)
          OBVIOUS
        <5>3. Moved(th, m) /\ m = Size(th) /\ ~(m < Size(th))
          BY <1>t, <5>2, Sizes
        <5> QED BY <1>0, <3>1, <5>1, <5>3, CaredMoved
      <4> QED BY <4>3, <4>5, <4>6
    <3>4. Answered(f, stack', node', batch')
      BY <3>2, <3>3, ZenonT(120) DEF Answered
    <3> QED BY <3>2, <3>4
  <2> QED BY <2>2, <2>3
<1>2. AnswersAreComplete'
  BY <1>0, CompleteStays
<1> QED BY <1>1, <1>2 DEF Answers

\* The owner goes on, outside of the scope of its batch or into it.
LEMMA OwnerStep ==
  ASSUME BatchInv, NEW th \in Threads, stack[th] # <<>>, NEW f, f = Top(th), f.pc \in OwnPCs \ ScopePCs,
         NEW g \in FrameRec, g.q = f.q, g.task = f.task, Owner(g), SetTop(th, g),
         maximum' = maximum, UNCHANGED nodeVars, UNCHANGED executorVars, canceled' = canceled, result' = result,
         waits' \subseteq Tasks \X Tasks, slots' \in Int, Restarted(f.q), PermitStep(g.task), Local(g),
         g.acquired <=> First(stack[th], Size(th)) /\ g.pc \in PermitPCs,
         Permit(g, First(stack[th], Size(th)), owns'),
         Within(g, 0), Answered(g, stack', node', batch'), Slotted'
  PROVE  BatchInv'
<1>0. Shapes /\ Stacks /\ Owned /\ Single /\ Permits /\ Outs /\ Slotted /\ Manned /\ Answers
  BY DEF BatchInv
<1>1. Innermost(th, f)
  BY InnermostFrame
<1>2. f.task # <<>> /\ f.q \in Queries /\ ~(th \in Workers /\ Size(th) = 1)
  BY <1>1 DEF Innermost, Lane0, Owner, ScopePCs
<1>3. Owner(f)
  BY <1>2 DEF Owner
<1>4. PICK n : n = Size(th)
  OBVIOUS
<1>5. n \in Nat \ {0} /\ n \in 1 .. Len(stack[th]) /\ f = stack[th][n] /\ n > 0 /\ n = Len(stack[th])
  BY <1>0, <1>4, Tops
<1>6. Moved(th, n) /\ stack'[th][n] = g
  BY <1>0, <1>4, SetTopMoves
<1>7. batch[f.q].out = 0 /\ Still(f.q)
  <2>1. PICK q : q = stack[th][n].q
    OBVIOUS
  <2>2. batch[q].out = 0 /\ \A t \in Threads : \A j \in 1 .. Len(stack[t]) : \A k \in Nat : stack[t][j].task # <<q, k>>
    BY <1>0, <1>2, <1>5, <2>1, NoLane
  <2> QED BY <1>5, <2>1, <2>2 DEF Still
<1>8. node' = node /\ owner' = owner /\ attempt' = attempt /\ jobs' = jobs
      /\ \A p \in Queries : batch'[p].out = batch[p].out
  BY <1>7 DEF nodeVars, executorVars, Restarted
<1>9. Stacks' /\ Owned' /\ Permits'
  BY <1>0, <1>2, <1>3, <1>8, Replaced
<1>a. Shapes'
  <2>1. stack' \in [Threads -> Seq(FrameRec)] /\ owns' \subseteq Tasks /\ used' \in Int /\ batch' \in [Queries -> BatchRec]
    BY <1>6 DEF Moved, PermitStep, Restarted
  <2> QED BY <1>0, <1>8, <2>1 DEF Shapes, executorVars
<1>b. Single'
  BY <1>0, <1>2, <1>6, <1>7, SingleReset
<1>c. Outs'
  <2>1. Within(stack'[th][n], batch[stack'[th][n].q].out)
    BY <1>6, <1>7
  <2>2. \A i \in 1 .. Size(th) : stack[th][i].task # <<>> /\ stack[th][i].pc \in ScopePCs =>
           i < n \/ (i = n /\ stack'[th][n].pc \in ScopePCs) \/ batch[stack[th][i].q].out = 0
    <3> TAKE i \in 1 .. Size(th)
    <3>1. i < n \/ i = n
      BY <1>4, <1>5
    <3> QED BY <1>5, <1>7, <3>1
  <2> QED BY <1>0, <1>5, <1>6, <1>8, <2>1, <2>2, OutsMoved
<1>d. Manned'
  BY <1>0, <1>5, <1>6, MannedMoved
<1>e. Answers'
  BY <1>0, <1>3, <1>4, <1>6, <1>8, AnswersReset
<1> QED BY <1>9, <1>a, <1>b, <1>c, <1>d, <1>e DEF BatchInv


\* A body stays in its task, or claims as many slots as are left.
LEMMA DemandStep ==
  ASSUME BatchInv, NEW th \in Threads, Demand(th)
  PROVE  BatchInv'
<1>1. PICK f : f = Top(th)
  OBVIOUS
<1>2. PICK wanted : wanted = Len(Demands[f.q]) - 1
  OBVIOUS
<1>3. PICK c : c = Grant(wanted)
  OBVIOUS
<1>4. PICK alone \in BOOLEAN : alone <=> f.q \in Adaptive /\ (wanted = 0 \/ c = 0)
  OBVIOUS
<1>5. /\ stack[th] # <<>> /\ f.pc = "body" /\ Demands[f.q] # <<>>
      /\ slots' = IF alone THEN slots ELSE slots + c
      /\ SetTop(th, IF alone THEN [f EXCEPT !.pc = "sequence"] ELSE [f EXCEPT !.pc = "donate", !.claim = c])
      /\ maximum' = maximum /\ UNCHANGED nodeVars /\ UNCHANGED permitVars /\ batch' = batch /\ UNCHANGED executorVars
      /\ waits' = waits /\ canceled' = canceled /\ result' = result
  BY <1>1, <1>2, <1>3, <1>4 DEF Demand, At
<1>6. Innermost(th, f)
  BY <1>1, <1>5, InnermostFrame
<1>7. f.task # <<>> /\ f.task \in Tasks /\ f.q \in Queries /\ ~(th \in Workers /\ Size(th) = 1) /\ f \in FrameRec
      /\ f.claim = 0 /\ f.next = 1 /\ f.how # "retry"
  BY <1>5, <1>6 DEF Innermost, Lane0, Local, ClaimPCs
<1>8. \A t : PermitStep(t) /\ owns' = owns
  BY <1>5, PermitKept DEF permitVars
<1>9. waits' \subseteq Tasks \X Tasks
  BY <1>5 DEF BatchInv, Shapes
<1>a. CASE alone
  <2>1. PICK g : g = [f EXCEPT !.pc = "sequence"]
    OBVIOUS
  <2>2. Edited(f, g, "sequence", f.acquired, f.donated, f.next, f.claim, f.how)
    BY <1>7, <2>1, EditPc, Zenon DEF PCs
  <2>3. SetTop(th, g) /\ Quiet
    BY <1>5, <1>a, <2>1 DEF Quiet
  <2>4. Local(g) /\ Within(g, batch[g.q].out)
    BY <1>7, <2>2 DEF Edited, Local, ClaimPCs, Within
  <2>5. Settled(g, node)
    <3>1. \A k \in DOMAIN Demands[g.q] : ~(k < g.next)
      BY <1>7, <2>2, Constants DEF Edited
    <3> QED BY <2>2, <3>1 DEF Edited, Settled
  <2>6. /\ g.acquired <=> First(stack[th], Size(th)) /\ g.pc \in PermitPCs
        /\ Permit(g, First(stack[th], Size(th)), owns')
    BY <1>5, <1>6, <1>7, <1>8, <2>2 DEF Innermost, Edited, Permit, PermitPCs, OwnPCs
  <2>7. /\ g \in FrameRec /\ g.q = f.q /\ g.task = f.task /\ g.claim = f.claim /\ g.pc = "sequence" /\ g.task # <<>>
        /\ Owner(g) => Owner(f)
    BY <1>5, <1>7, <2>2 DEF Edited, Owner, OwnPCs
  <2> QED BY <1>1, <1>5, <1>7, <1>8, <1>9, <2>3, <2>4, <2>5, <2>6, <2>7, ReplacedOnly DEF ScopePCs, BatchPCs, ClaimPCs
<1>b. CASE ~alone
  <2>1. PICK g : g = [f EXCEPT !.pc = "donate", !.claim = c]
    OBVIOUS
  <2>2. c \in Nat /\ slots \in Nat /\ slots + c <= maximum - 1 /\ maximum \in Nat
    <3>1. slots \in Nat /\ slots <= maximum - 1 /\ maximum \in Nat \ {0}
      <4>1. IsFiniteSet(ClaimsOf(stack)) /\ slots = Cardinality(ClaimsOf(stack)) /\ slots <= maximum - 1 /\ maximum \in Budgets
        BY DEF BatchInv, Slotted, Shapes
      <4> QED BY <4>1, FS_CardinalityType, Constants
    <3>2. wanted \in Nat
      <4>1. Demands[f.q] \in Seq(Queries)
        BY <1>7, Constants
      <4>2. Len(Demands[f.q]) \in Nat \ {0}
        BY <1>5, <4>1, EmptySeq
      <4> QED BY <1>2, <4>2
    <3> QED BY <1>3, <3>1, <3>2 DEF Grant, Least
  <2>3. Edited(f, g, "donate", f.acquired, f.donated, f.next, c, f.how)
    BY <1>7, <2>1, <2>2, EditClaim, ZenonT(120) DEF PCs
  <2>4. SetTop(th, g) /\ slots' = slots + c
    BY <1>5, <1>b, <2>1
  <2>5. g \in FrameRec /\ g.q = f.q /\ g.task = f.task /\ g.claim = c /\ g.pc = "donate" /\ Owner(g)
    BY <1>7, <2>3 DEF Edited, Owner, OwnPCs
  <2>6. batch[f.q].out = 0 /\ f.pc \in OwnPCs \ ScopePCs
    <3>1. f.pc \in OwnPCs \ ScopePCs
      BY <1>5 DEF OwnPCs, ScopePCs
    <3>2. PICK n : n = Size(th)
      OBVIOUS
    <3>3. f = stack[th][n] /\ n \in 1 .. Len(stack[th])
      BY <1>6, <3>2 DEF Innermost
    <3> QED BY <1>7, <3>1, <3>3, NoLane DEF BatchInv
  <2>7. Restarted(f.q)
    BY <1>5, <1>7, <2>6 DEF Restarted, BatchInv, Shapes, Single
  <2>8. Slotted'
    <3>1. slots' = slots + g.claim - f.claim /\ slots' <= maximum - 1 /\ jobs' = jobs
          /\ \A p \in Queries : batch'[p].out = batch[p].out
      BY <1>5, <1>7, <2>2, <2>4, <2>5 DEF executorVars
    <3> QED BY <1>1, <1>5, <1>7, <2>4, <2>5, <2>6, <3>1, SlottedResized DEF BatchInv
  <2>9. Local(g) /\ Within(g, 0) /\ Answered(g, stack', node', batch')
    BY <1>7, <2>3 DEF Edited, Local, ClaimPCs, Within, Answered, BatchPCs
  <2>a. /\ g.acquired <=> First(stack[th], Size(th)) /\ g.pc \in PermitPCs
        /\ Permit(g, First(stack[th], Size(th)), owns')
    BY <1>5, <1>6, <1>7, <1>8, <2>3 DEF Innermost, Edited, Permit, PermitPCs, OwnPCs
  <2>b. PermitStep(g.task) /\ slots' \in Int
    BY <1>8, <2>2, <2>4
  <2> QED BY <1>1, <1>5, <1>9, <2>4, <2>5, <2>6, <2>7, <2>8, <2>9, <2>a, <2>b, OwnerStep
<1> QED BY <1>a, <1>b

\* Every item is queued, and the permit is given away.
LEMMA DonateStep ==
  ASSUME BatchInv, NEW th \in Threads, Donate(th)
  PROVE  BatchInv'
<1>1. PICK f : f = Top(th)
  OBVIOUS
<1>2. PICK b : b = (f.task \in owns)
  OBVIOUS
<1>3. PICK s : s = [i \in DOMAIN Demands[f.q] |-> i]
  OBVIOUS
<1>4. PICK g : g = [f EXCEPT !.pc = "dispatch", !.donated = b]
  OBVIOUS
<1>5. /\ stack[th] # <<>> /\ f.pc = "donate" /\ SetTop(th, g) /\ ReleasePermit(f.task)
      /\ waits' = waits \cup ({f.task} \X Items(f.q))
      /\ batch' = [batch EXCEPT ![f.q] = [NoBatch EXCEPT !.queue = s]]
      /\ maximum' = maximum /\ UNCHANGED nodeVars /\ slots' = slots /\ UNCHANGED executorVars
      /\ canceled' = canceled /\ result' = result
  BY <1>1, <1>2, <1>3, <1>4 DEF Donate, At
<1>6. Innermost(th, f)
  BY <1>1, <1>5, InnermostFrame
<1>7. f.task # <<>> /\ f.task \in Tasks /\ f.q \in Queries /\ ~(th \in Workers /\ Size(th) = 1) /\ f \in FrameRec
      /\ f.next = 1 /\ f.how # "retry" /\ f.claim \in Nat
  BY <1>5, <1>6, Fields DEF Innermost, Lane0, Local, ClaimPCs
<1>8. PermitStep(f.task) /\ f.task \notin owns'
  BY <1>5, <1>7, PermitGiven
<1>9. Edited(f, g, "dispatch", f.acquired, b, f.next, f.claim, f.how)
  <2>1. b \in BOOLEAN /\ "dispatch" \in PCs
    BY <1>2 DEF PCs
  <2> QED BY <1>4, <1>7, <2>1, EditDonated, ZenonT(120)
<1>a. g \in FrameRec /\ g.q = f.q /\ g.task = f.task /\ g.claim = f.claim /\ g.pc = "dispatch" /\ Owner(g) /\ g.next = 1
  BY <1>7, <1>9 DEF Edited, Owner, OwnPCs
<1>b. /\ s \in Seq(Nat) /\ Indices(f.q, s) /\ Len(s) = Len(Demands[f.q])
      /\ \A k \in DOMAIN Demands[f.q] : k \in 1 .. Len(s) /\ s[k] = k
  <2>1. DOMAIN Demands[f.q] = 1 .. Len(Demands[f.q]) /\ Len(Demands[f.q]) \in Nat
    BY <1>7, Constants
  <2>2. PICK l : l = Len(Demands[f.q])
    OBVIOUS
  <2>3. s = [i \in 1 .. l |-> i] /\ l \in Nat
    BY <1>3, <2>1, <2>2
  <2>4. s \in Seq(Nat) /\ Len(s) = l /\ \A i \in 1 .. l : s[i] = i
    BY <2>3
  <2>5. Indices(f.q, s)
    BY <2>1, <2>2, <2>4 DEF Indices
  <2> QED BY <2>1, <2>2, <2>4, <2>5
<1>c. /\ batch' \in [Queries -> BatchRec] /\ batch'[f.q].out = 0 /\ batch'[f.q].queue = s
      /\ \A p \in Queries : p # f.q => batch'[p] = batch[p]
  <2>1. batch \in [Queries -> BatchRec]
    BY DEF BatchInv, Shapes
  <2>2. PICK x : x = [NoBatch EXCEPT !.queue = s]
    OBVIOUS
  <2>3. x \in BatchRec /\ x.out = 0 /\ x.queue = s
    BY <1>b, <2>2 DEF NoBatch, BatchRec
  <2>4. batch' = [batch EXCEPT ![f.q] = x]
    BY <1>5, <2>2
  <2> QED BY <1>7, <2>1, <2>3, <2>4
<1>d. Restarted(f.q)
  BY <1>b, <1>c DEF Restarted
<1>e. f.pc \in OwnPCs \ ScopePCs /\ batch[f.q].out = 0
  <2>1. f.pc \in OwnPCs \ ScopePCs
    BY <1>5 DEF OwnPCs, ScopePCs
  <2>2. PICK n : n = Size(th)
    OBVIOUS
  <2>3. f = stack[th][n] /\ n \in 1 .. Len(stack[th])
    BY <1>6, <2>2 DEF Innermost
  <2> QED BY <1>7, <2>1, <2>3, NoLane DEF BatchInv
<1>f. Slotted'
  <2>1. PICK n : n = Size(th)
    OBVIOUS
  <2>2. n \in Nat \ {0} /\ n > 0 /\ f = stack[th][n] /\ \A i \in 1 .. Size(th) : ~(i > n)
    BY <1>6, <2>1 DEF Innermost
  <2>3. Moved(th, n) /\ stack'[th][n] = g
    BY <1>1, <1>5, <1>a, <2>1, SetTopMoves DEF BatchInv
  <2>4. stack'[th][n].claim = stack[th][n].claim
    BY <1>a, <2>2, <2>3
  <2>5. jobs' = jobs /\ \A p \in Queries : batch'[p].out = batch[p].out
    BY <1>5, <1>c, <1>e DEF executorVars
  <2> QED BY <1>5, <2>2, <2>3, <2>4, <2>5, SlottedMoved DEF BatchInv
<1>g. Local(g) /\ Within(g, 0)
  BY <1>7, <1>9 DEF Edited, Local, ClaimPCs, Within
<1>h. Answered(g, stack', node', batch')
  <2>1. \A k \in DOMAIN Demands[g.q] : Cared(g.q, k, stack', node', batch')
    <3>1. \A k \in DOMAIN Demands[g.q] : \E n \in 1 .. Len(batch'[g.q].queue) : batch'[g.q].queue[n] = k
      BY <1>a, <1>b, <1>c
    <3> QED BY <3>1, ZenonT(120) DEF Cared
  <2> QED BY <1>a, <2>1 DEF Answered
<1>i. /\ g.acquired <=> First(stack[th], Size(th)) /\ g.pc \in PermitPCs
      /\ Permit(g, First(stack[th], Size(th)), owns')
  BY <1>2, <1>5, <1>6, <1>7, <1>8, <1>9 DEF Innermost, Edited, Permit, PermitPCs, OwnPCs
<1>j. waits' \subseteq Tasks \X Tasks /\ slots' \in Int /\ PermitStep(g.task)
  <2>1. Items(f.q) \subseteq Tasks
    BY <1>7, TaskNames
  <2> QED BY <1>5, <1>7, <1>8, <1>a, <2>1 DEF BatchInv, Shapes
<1> QED BY <1>1, <1>5, <1>a, <1>d, <1>e, <1>f, <1>g, <1>h, <1>i, <1>j, OwnerStep


\* A batch that is over: every answer is there or the body fails.
LEMMA AbsorbStep ==
  ASSUME BatchInv, NEW th \in Threads, Absorb(th)
  PROVE  BatchInv'
<1>1. PICK f : f = Top(th)
  OBVIOUS
<1>2. PICK how : how = Worst(batch[f.q].worst, f.how)
  OBVIOUS
<1>4. PICK g : g = [f EXCEPT !.pc = "end", !.how = how, !.claim = 0]
  OBVIOUS
<1>5. /\ stack[th] # <<>> /\ f.pc = "absorb" /\ SetTop(th, g) /\ slots' = slots - f.claim
      /\ batch' = [batch EXCEPT ![f.q] = NoBatch]
      /\ maximum' = maximum /\ UNCHANGED nodeVars /\ UNCHANGED permitVars /\ UNCHANGED executorVars
      /\ waits' = waits /\ canceled' = canceled /\ result' = result
  BY <1>1, <1>2, <1>4 DEF Absorb, At
<1>6. Innermost(th, f)
  BY <1>1, <1>5, InnermostFrame
<1>7. f.task # <<>> /\ f.task \in Tasks /\ f.q \in Queries /\ ~(th \in Workers /\ Size(th) = 1) /\ f \in FrameRec
      /\ f.how \in {"ok", "aborted", "panic"} /\ f.claim \in Nat
  BY <1>5, <1>6, Fields DEF Innermost, Lane0, Local, Hows
<1>8. PermitStep(f.task) /\ owns' = owns
  BY <1>5, PermitKept DEF permitVars
<1>w. how \in {"ok", "aborted", "panic"} /\ (how = "ok" => batch[f.q].worst = "ok")
  <2>1. batch[f.q].worst \in {"ok", "aborted", "panic"}
    BY <1>7 DEF BatchInv, Shapes, BatchRec
  <2> QED BY <1>2, <1>7, <2>1 DEF Worst
<1>9. Edited(f, g, "end", f.acquired, f.donated, f.next, 0, how)
  <2>1. how \in Hows /\ "end" \in PCs /\ 0 \in Nat
    BY <1>w DEF Hows, PCs
  <2> QED BY <1>4, <1>7, <2>1, EditAbsorb, ZenonT(120)
<1>a. g \in FrameRec /\ g.q = f.q /\ g.task = f.task /\ g.claim = 0 /\ g.pc = "end" /\ Owner(g) /\ g.how = how
  BY <1>7, <1>9 DEF Edited, Owner, OwnPCs
<1>c. /\ batch' \in [Queries -> BatchRec] /\ batch'[f.q].out = 0 /\ batch'[f.q].queue = <<>>
      /\ \A p \in Queries : p # f.q => batch'[p] = batch[p]
  <2>1. batch \in [Queries -> BatchRec]
    BY DEF BatchInv, Shapes
  <2>2. NoBatch \in BatchRec /\ NoBatch.out = 0 /\ NoBatch.queue = <<>>
    BY DEF NoBatch, BatchRec
  <2> QED BY <1>5, <1>7, <2>1, <2>2
<1>d. Restarted(f.q)
  <2>1. Indices(f.q, <<>>)
    BY DEF Indices
  <2> QED BY <1>c, <2>1 DEF Restarted
<1>e. /\ f.pc \in OwnPCs \ ScopePCs /\ batch[f.q].out = 0
      /\ \A t \in Threads : \A j \in 1 .. Len(stack[t]) : ~(stack[t][j].pc = "lane" /\ stack[t][j].q = f.q)
  <2>1. f.pc \in OwnPCs \ ScopePCs
    BY <1>5 DEF OwnPCs, ScopePCs
  <2>2. PICK n : n = Size(th)
    OBVIOUS
  <2>3. f = stack[th][n] /\ n \in 1 .. Len(stack[th])
    BY <1>6, <2>2 DEF Innermost
  <2>4. PICK q : q = f.q
    OBVIOUS
  <2>5. /\ batch[q].out = 0
        /\ \A t \in Threads : \A j \in 1 .. Len(stack[t]) : ~(stack[t][j].pc = "lane" /\ stack[t][j].q = q)
    BY <1>7, <2>1, <2>3, <2>4, NoLane DEF BatchInv
  <2> QED BY <2>1, <2>4, <2>5
<1>f. Slotted'
  <2>1. slots \in Int /\ slots <= maximum - 1 /\ maximum \in Nat
    BY Constants DEF BatchInv, Shapes, Slotted
  <2>2. slots' = slots + g.claim - f.claim /\ slots' <= maximum - 1 /\ jobs' = jobs
        /\ \A p \in Queries : batch'[p].out = batch[p].out
    BY <1>5, <1>7, <1>a, <1>c, <1>e, <2>1 DEF executorVars
  <2> QED BY <1>1, <1>5, <1>a, <1>e, <2>2, SlottedResized DEF BatchInv
<1>g. Local(g) /\ Within(g, 0)
  BY <1>9, <1>w DEF Edited, Local, ClaimPCs, Within
<1>h. Answered(g, stack', node', batch')
  <2>1. ASSUME how = "ok", NEW k \in DOMAIN Demands[f.q] PROVE node[Demands[f.q][k]] = "terminal"
    <3>1. batch[f.q].worst = "ok" /\ f.pc \in BatchPCs /\ f.pc # "dispatch" /\ f.pc # "lane"
      BY <1>5, <1>w, <2>1 DEF BatchPCs, ClaimPCs
    <3>2. Answered(f, stack, node, batch)
      BY <1>6 DEF Innermost
    <3>3. Cared(f.q, k, stack, node, batch) /\ batch[f.q].queue = <<>>
      BY <1>7, <3>1, <3>2, ZenonT(120) DEF Answered
    <3>4. ~ \E n \in 1 .. Len(batch[f.q].queue) : batch[f.q].queue[n] = k
      BY <3>3
    <3>5. ~Flying(stack, f.q, k)
      <4>1. \A t \in Threads : \A j \in 1 .. Len(stack[t]) - 1 : j \in 1 .. Len(stack[t])
        BY Sizes DEF Size, BatchInv
      <4> QED BY <1>e, <4>1 DEF Flying
    <3> QED BY <3>3, <3>4, <3>5, ZenonT(120) DEF Cared
  <2>2. node' = node
    BY <1>5 DEF nodeVars
  <2> QED BY <1>a, <2>1, <2>2 DEF Answered, BatchPCs, ClaimPCs
<1>i. /\ g.acquired <=> First(stack[th], Size(th)) /\ g.pc \in PermitPCs
      /\ Permit(g, First(stack[th], Size(th)), owns')
  BY <1>5, <1>6, <1>7, <1>8, <1>9 DEF Innermost, Edited, Permit, PermitPCs, OwnPCs
<1>j. waits' \subseteq Tasks \X Tasks /\ slots' \in Int /\ PermitStep(g.task)
  BY <1>5, <1>7, <1>8, <1>a DEF BatchInv, Shapes
<1> QED BY <1>1, <1>5, <1>a, <1>d, <1>e, <1>f, <1>g, <1>h, <1>i, <1>j, OwnerStep


-----------------------------------------------------------------------------
(* Jobs are sent *)

\* Frame f submits job j and becomes frame g.
Sent(th, f, g, j) ==
  /\ stack[th] # <<>> /\ f = Top(th) /\ f.pc = "dispatch" /\ f.next <= f.claim /\ open
  /\ Edited(f, g, "dispatch", f.acquired, f.donated, f.next + 1, f.claim, f.how) /\ SetTop(th, g)
  /\ j \in FrameRec /\ j.q = f.q /\ Lane0(j) /\ Local(j)
  /\ jobs' = Append(jobs, j)
  /\ born' = IF Cardinality(born) < maximum - 1 THEN born \cup {Cardinality(born) + 1} ELSE born
  /\ batch' \in [Queries -> BatchRec]
  /\ batch'[f.q].queue = batch[f.q].queue /\ batch'[f.q].worst = batch[f.q].worst
  /\ batch'[f.q].out = batch[f.q].out + 1
  /\ \A p \in Queries : p # f.q => batch'[p] = batch[p]
  /\ maximum' = maximum /\ UNCHANGED nodeVars /\ UNCHANGED permitVars /\ slots' = slots /\ gone' = gone /\ open' = open
  /\ waits' = waits /\ canceled' = canceled /\ result' = result

\* What the step is known by; no other frame has anything to do with the batch.
Sending(th, f, g, n) ==
  /\ n = Size(th) /\ n \in Nat \ {0} /\ n > 0 /\ n = Len(stack[th]) /\ n \in 1 .. Len(stack[th]) /\ f = stack[th][n]
  /\ Moved(th, n) /\ stack'[th][n] = g /\ stack[th] # <<>>
  /\ f.q \in Queries /\ f.task # <<>> /\ Owner(f) /\ Owner(g) /\ Local(g)
  /\ f.claim \in Nat /\ f.next \in Nat /\ batch[f.q].out \in Nat
  /\ batch[f.q].out <= f.next - 1 /\ batch[f.q].out + 1 \in 1 .. f.claim
  /\ g \in FrameRec /\ g.q = f.q /\ g.task = f.task /\ g.claim = f.claim /\ g.next = f.next + 1 /\ g.pc = "dispatch"
  /\ \A t \in Threads : \A i \in 1 .. Len(stack[t]) :
       Owner(stack[t][i]) /\ stack[t][i].q = f.q => t = th /\ i = n

\* The parent is the innermost frame and has a slot left.
LEMMA SentFacts ==
  ASSUME BatchInv, NEW th \in Threads, NEW f, NEW g, NEW j, Sent(th, f, g, j)
  PROVE  Sending(th, f, g, Size(th))
<1>n. PICK n : n = Size(th)
  OBVIOUS
<1>0. Shapes /\ Stacks /\ Owned /\ Outs /\ Manned
  BY DEF BatchInv
<1>1. stack[th] # <<>> /\ f = Top(th) /\ f.pc = "dispatch" /\ f.next <= f.claim /\ SetTop(th, g)
      /\ Edited(f, g, "dispatch", f.acquired, f.donated, f.next + 1, f.claim, f.how)
  BY DEF Sent
<1>2. Innermost(th, f)
  BY <1>1, InnermostFrame
<1>3. n \in Nat \ {0} /\ n > 0 /\ n = Len(stack[th]) /\ n \in 1 .. Len(stack[th]) /\ f = stack[th][n] /\ f \in FrameRec
  BY <1>0, <1>1, <1>n, Tops
<1>4. f.q \in Queries /\ f.task # <<>> /\ f.claim \in Nat /\ f.next \in Nat /\ f.next \in 1 .. f.claim + 1 /\ f.how # "retry"
  BY <1>1, <1>2, <1>3, Fields DEF Innermost, Local
<1>5. Owner(f) /\ Owner(g)
  BY <1>1, <1>4 DEF Owner, OwnPCs, Edited
<1>6. g \in FrameRec /\ g.q = f.q /\ g.task = f.task /\ g.claim = f.claim /\ g.next = f.next + 1 /\ g.pc = "dispatch"
      /\ g.how = f.how
  BY <1>1 DEF Edited
<1>7. Local(g)
  <2>1. g.next \in 1 .. g.claim + 1
    BY <1>1, <1>4, <1>6
  <2> QED BY <1>4, <1>6, <2>1 DEF Local, ClaimPCs
<1>8. Moved(th, n) /\ stack'[th][n] = g
  BY <1>0, <1>1, <1>6, <1>n, SetTopMoves
<1>9. batch[f.q].out \in Nat
  <2>1. batch[f.q].out = Cardinality(LanesOf(f.q)) + Cardinality(JobsOf(f.q))
    BY <1>0, <1>4 DEF Outs
  <2>2. Cardinality(LanesOf(f.q)) \in Nat /\ Cardinality(JobsOf(f.q)) \in Nat
    BY <1>0, <1>4, Finite
  <2> QED BY <2>1, <2>2
<1>a. batch[f.q].out <= f.next - 1
  BY <1>1, <1>2, <1>4 DEF Innermost, Within
<1>b. batch[f.q].out + 1 \in 1 .. f.claim
  <2>1. PICK o, k, l : o = batch[f.q].out /\ k = f.next /\ l = f.claim
    OBVIOUS
  <2>2. o \in Nat /\ k \in Nat /\ l \in Nat /\ k <= l /\ o <= k - 1
    BY <1>1, <1>4, <1>9, <1>a, <2>1
  <2> QED BY <2>1, <2>2
<1>c. \A t \in Threads : \A i \in 1 .. Len(stack[t]) :
              Owner(stack[t][i]) /\ stack[t][i].q = f.q => t = th /\ i = n
  BY <1>0, <1>3, <1>5 DEF Owned
<1>d. Sending(th, f, g, n)
  BY <1>1, <1>3, <1>4, <1>5, <1>6, <1>7, <1>8, <1>9, <1>a, <1>b, <1>c, <1>n DEF Sending
<1> QED BY <1>d, <1>n

\* The job is counted.
LEMMA JobsSent ==
  ASSUME BatchInv, NEW th \in Threads, NEW f, NEW g, NEW j, Sent(th, f, g, j)
  PROVE  /\ jobs' \in Seq(FrameRec) /\ Len(jobs') = Len(jobs) + 1 /\ Len(jobs) \in Nat
         /\ \A i \in 1 .. Len(jobs') : Lane0(jobs'[i]) /\ Local(jobs'[i])
         /\ Cardinality(JobsOf(f.q)') = Cardinality(JobsOf(f.q)) + 1
         /\ \A p \in Queries : p # f.q => JobsOf(p)' = JobsOf(p)
<1>1. jobs \in Seq(FrameRec) /\ jobs' = Append(jobs, j) /\ j \in FrameRec /\ j.q = f.q
      /\ Lane0(j) /\ Local(j) /\ f.q \in Queries /\ Shapes /\ Manned
  <2>1. f.q \in Queries
    BY SentFacts DEF Sending
  <2>2. Shapes /\ Manned
    BY DEF BatchInv
  <2> QED BY <2>1, <2>2 DEF Sent, Shapes
<1>2. PICK l : l = Len(jobs)
  OBVIOUS
<1>3. /\ l \in Nat /\ jobs' \in Seq(FrameRec) /\ Len(jobs') = l + 1 /\ jobs'[l + 1] = j
      /\ \A i \in 1 .. l : jobs'[i] = jobs[i]
  BY <1>1, <1>2
<1>4. \A i \in 1 .. l + 1 : i \in 1 .. l \/ i = l + 1
  BY <1>3
<1>5. \A i \in 1 .. Len(jobs') : Lane0(jobs'[i]) /\ Local(jobs'[i])
  BY <1>1, <1>2, <1>3, <1>4 DEF BatchInv, Outs
<1>6. JobsOf(f.q)' = JobsOf(f.q) \cup {l + 1} /\ l + 1 \notin JobsOf(f.q)
  <2>1. ASSUME NEW i PROVE i \in JobsOf(f.q)' <=> i \in JobsOf(f.q) \/ i = l + 1
    <3>1. i \in JobsOf(f.q)' <=> i \in 1 .. l + 1 /\ jobs'[i].q = f.q
      BY <1>3 DEF JobsOf
    <3>2. i \in JobsOf(f.q) <=> i \in 1 .. l /\ jobs[i].q = f.q
      BY <1>2 DEF JobsOf
    <3>3. l + 1 \in 1 .. l + 1 /\ \A k \in 1 .. l : k \in 1 .. l + 1
      BY <1>3
    <3> QED BY <1>1, <1>3, <1>4, <3>1, <3>2, <3>3
  <2>2. l + 1 \notin JobsOf(f.q)
    BY <1>2, <1>3 DEF JobsOf
  <2> QED BY <2>1, <2>2
<1>7. Cardinality(JobsOf(f.q)') = Cardinality(JobsOf(f.q)) + 1
  <2>1. IsFiniteSet(JobsOf(f.q))
    BY <1>1, Finite
  <2> QED BY <1>6, <2>1, FS_AddElement
<1>8. ASSUME NEW p \in Queries, p # f.q PROVE JobsOf(p)' = JobsOf(p)
  <2>1. ASSUME NEW i PROVE i \in JobsOf(p)' <=> i \in JobsOf(p)
    <3>1. i \in JobsOf(p)' <=> i \in 1 .. l + 1 /\ jobs'[i].q = p
      BY <1>3 DEF JobsOf
    <3>2. i \in JobsOf(p) <=> i \in 1 .. l /\ jobs[i].q = p
      BY <1>2 DEF JobsOf
    <3>3. \A k \in 1 .. l : k \in 1 .. l + 1
      BY <1>3
    <3> QED BY <1>1, <1>3, <1>4, <1>8, <3>1, <3>2, <3>3
  <2> QED BY <2>1
<1> QED BY <1>2, <1>3, <1>5, <1>7, <1>8

\* And its parent waits.
LEMMA OutsSent ==
  ASSUME BatchInv, NEW th \in Threads, NEW f, NEW g, NEW j, Sent(th, f, g, j)
  PROVE  Outs'
<1>0. Shapes /\ Stacks /\ Owned /\ Outs /\ Manned
  BY DEF BatchInv
<1>n. PICK n : n = Size(th)
  OBVIOUS
<1>1. /\ n \in Nat \ {0} /\ n > 0 /\ n = Len(stack[th]) /\ f = stack[th][n] /\ Moved(th, n) /\ stack'[th][n] = g
      /\ f.q \in Queries /\ f.task # <<>>
      /\ f.next \in Nat /\ batch[f.q].out \in Nat /\ batch[f.q].out <= f.next - 1
      /\ g.q = f.q /\ g.task = f.task /\ g.next = f.next + 1 /\ g.pc = "dispatch"
      /\ \A t \in Threads : \A i \in 1 .. Len(stack[t]) :
           Owner(stack[t][i]) /\ stack[t][i].q = f.q => t = th /\ i = n
  BY <1>n, SentFacts DEF Sending
<1>2. batch'[f.q].out = batch[f.q].out + 1 /\ \A p \in Queries : p # f.q => batch'[p] = batch[p]
  BY DEF Sent
<1>3. \A p \in Queries : LanesOf(p)' = LanesOf(p)
  BY <1>0, <1>1, LanesMoved DEF Sent
<1>4. ASSUME NEW p \in Queries PROVE batch'[p].out = Cardinality(LanesOf(p)') + Cardinality(JobsOf(p)')
  <2>0. batch[p].out = Cardinality(LanesOf(p)) + Cardinality(JobsOf(p))
    BY <1>0 DEF Outs
  <2>1. CASE p = f.q
    <3>1. Cardinality(LanesOf(p)) \in Nat /\ Cardinality(JobsOf(p)) \in Nat
      BY <1>0, Finite
    <3>2. Cardinality(JobsOf(p)') = Cardinality(JobsOf(p)) + 1
      BY <2>1, JobsSent
    <3>3. Cardinality(LanesOf(p)') = Cardinality(LanesOf(p))
      BY <1>3
    <3> QED BY <1>2, <2>0, <2>1, <3>1, <3>2, <3>3
  <2>2. CASE p # f.q
    <3>1. JobsOf(p)' = JobsOf(p) /\ LanesOf(p)' = LanesOf(p) /\ batch'[p].out = batch[p].out
      BY <1>2, <1>3, <2>2, JobsSent
    <3> QED BY <2>0, <3>1
  <2> QED BY <2>1, <2>2
<1>5. ASSUME NEW p \in Queries, batch'[p].out > 0
      PROVE  \E t \in Threads : \E i \in 1 .. Len(stack'[t]) :
               stack'[t][i].q = p /\ stack'[t][i].task # <<>> /\ stack'[t][i].pc \in ScopePCs
  <2>l. Len(stack'[th]) = n
    BY <1>1 DEF Moved, CutTo
  <2>1. CASE p = f.q
    <3>1. n \in 1 .. Len(stack'[th])
      BY <1>1, <2>l
    <3>2. stack'[th][n].q = p /\ stack'[th][n].task # <<>> /\ stack'[th][n].pc \in ScopePCs
      BY <1>1, <2>1 DEF ScopePCs
    <3> QED BY <3>1, <3>2
  <2>2. CASE p # f.q
    <3>0. PICK t \in Threads : \E i \in 1 .. Len(stack[t]) :
            stack[t][i].q = p /\ stack[t][i].task # <<>> /\ stack[t][i].pc \in ScopePCs
      BY <1>0, <1>2, <1>5, <2>2 DEF Outs
    <3>1. PICK i \in 1 .. Len(stack[t]) :
            stack[t][i].q = p /\ stack[t][i].task # <<>> /\ stack[t][i].pc \in ScopePCs
      BY <3>0
    <3>2. ~(t = th /\ i = n)
      BY <1>1, <2>2, <3>1
    <3>3. i \in 1 .. Len(stack'[t])
      <4>1. CASE t = th
        BY <1>1, <2>l, <4>1
      <4>2. CASE t # th
        BY <1>1, <4>2 DEF Moved
      <4> QED BY <4>1, <4>2
    <3>4. stack'[t][i] = stack[t][i]
      BY <1>0, <1>1, <3>2, <3>3, KeptFrames
    <3> QED BY <3>1, <3>3, <3>4
  <2> QED BY <2>1, <2>2
<1>6. ASSUME NEW t \in Threads, NEW i \in 1 .. Len(stack'[t])
      PROVE  Within(stack'[t][i], batch'[stack'[t][i].q].out)
  <2>1. /\ i \in 1 .. Len(stack[t]) /\ stack'[t][i].q = stack[t][i].q
        /\ (t = th /\ i = n) \/ stack'[t][i] = stack[t][i]
        /\ stack[t][i] \in FrameRec
    BY <1>0, <1>1, KeptFrames
  <2>2. CASE t = th /\ i = n
    <3>1. batch'[f.q].out <= g.next - 1
      BY <1>1, <1>2
    <3> QED BY <1>1, <2>2, <3>1 DEF Within
  <2>3. CASE ~(t = th /\ i = n)
    <3>0. PICK h : h = stack[t][i]
      OBVIOUS
    <3>1. stack'[t][i] = h /\ h.q \in Queries /\ Within(h, batch[h.q].out)
      BY <1>0, <2>1, <2>3, <3>0, Fields DEF Outs
    <3>2. CASE h.q # f.q
      BY <1>2, <3>1, <3>2
    <3>3. CASE h.q = f.q
      <4>1. ~Owner(h)
        BY <1>1, <2>1, <2>3, <3>0, <3>3
      <4> QED BY <3>1, <4>1 DEF Owner, OwnPCs, Within
    <3> QED BY <3>2, <3>3
  <2> QED BY <2>2, <2>3
<1> QED BY <1>4, <1>5, <1>6, JobsSent DEF Outs


\* The job uses the slot of its number.
LEMMA SlottedSent ==
  ASSUME BatchInv, NEW th \in Threads, NEW f, NEW g, NEW j, Sent(th, f, g, j)
  PROVE  Slotted'
<1>0. Shapes /\ Stacks /\ Owned /\ Slotted /\ Manned
  BY DEF BatchInv
<1>n. PICK n, q, o : n = Size(th) /\ q = f.q /\ o = batch[f.q].out
  OBVIOUS
<1>1. /\ n \in Nat \ {0} /\ n > 0 /\ n = Len(stack[th]) /\ f = stack[th][n] /\ Moved(th, n) /\ stack'[th][n] = g
      /\ q \in Queries /\ f.claim \in Nat /\ o \in Nat /\ o + 1 \in 1 .. f.claim /\ stack[th] # <<>>
      /\ n \in 1 .. Len(stack[th])
      /\ g.q = q /\ f.q = q /\ g.claim = f.claim
      /\ \A t \in Threads : \A i \in 1 .. Len(stack[t]) :
           Owner(stack[t][i]) /\ stack[t][i].q = q => t = th /\ i = n
  BY <1>n, SentFacts DEF Sending
<1>2. batch'[q].out = o + 1 /\ batch[q].out = o /\ \A p \in Queries : p # q => batch'[p] = batch[p]
  BY <1>n DEF Sent
<1>3. PICK c : c = <<<<th, n>>, o + 1>>
  OBVIOUS
<1>4. \A u \in Threads : Len(stack'[u]) = Len(stack[u]) /\ Len(stack[u]) \in Nat
  <2>1. \A u \in Threads : Len(stack[u]) \in Nat
    BY <1>0, Sizes DEF Size
  <2>2. Len(stack'[th]) = n
    BY <1>1 DEF Moved, CutTo
  <2> QED BY <1>1, <2>1, <2>2 DEF Moved
<1>5. ASSUME NEW u \in Threads, NEW i \in 1 .. Len(stack[u])
      PROVE  /\ stack'[u][i].q = stack[u][i].q /\ stack'[u][i].claim = stack[u][i].claim
             /\ stack[u][i].q \in Queries /\ stack[u][i].claim \in Nat
  <2>1. i \in 1 .. Len(stack'[u])
    BY <1>4
  <2>2. /\ stack'[u][i].q = stack[u][i].q /\ stack[u][i] \in FrameRec
        /\ (u = th /\ i = n) \/ stack'[u][i] = stack[u][i]
    BY <1>0, <1>1, <2>1, KeptFrames
  <2> QED BY <1>1, <2>2, Fields
<1>6. ASSUME NEW u \in Threads, NEW i \in Nat, NEW k \in Nat
      PROVE  /\ <<<<u, i>>, k>> \in ClaimsOf(stack') <=> <<<<u, i>>, k>> \in ClaimsOf(stack)
             /\ <<<<u, i>>, k>> \in SpentOf(stack', batch') <=>
                  <<<<u, i>>, k>> \in SpentOf(stack, batch) \/ <<<<u, i>>, k>> = c
  <2>1. /\ <<<<u, i>>, k>> \in ClaimsOf(stack) <=> i \in 1 .. Len(stack[u]) /\ k \in 1 .. stack[u][i].claim
        /\ <<<<u, i>>, k>> \in SpentOf(stack, batch) <=>
             i \in 1 .. Len(stack[u]) /\ k \in 1 .. stack[u][i].claim /\ k <= batch[stack[u][i].q].out
    BY ClaimParts
  <2>2. /\ <<<<u, i>>, k>> \in ClaimsOf(stack') <=> i \in 1 .. Len(stack'[u]) /\ k \in 1 .. stack'[u][i].claim
        /\ <<<<u, i>>, k>> \in SpentOf(stack', batch') <=>
             i \in 1 .. Len(stack'[u]) /\ k \in 1 .. stack'[u][i].claim /\ k <= batch'[stack'[u][i].q].out
    BY ClaimParts
  <2>3. <<<<u, i>>, k>> = c <=> u = th /\ i = n /\ k = o + 1
    BY <1>3
  <2>4. CASE i \notin 1 .. Len(stack[u])
    <3>1. ~(u = th /\ i = n)
      BY <1>1, <2>4
    <3> QED BY <1>4, <2>1, <2>2, <2>3, <2>4, <3>1
  <2>5. CASE i \in 1 .. Len(stack[u])
    <3>1. PICK h : h = stack[u][i]
      OBVIOUS
    <3>2. h.q \in Queries /\ h.claim \in Nat /\ stack'[u][i].q = h.q /\ stack'[u][i].claim = h.claim
      BY <1>5, <2>5, <3>1
    <3>3. CASE u = th /\ i = n
      <4>1. h = f /\ h.q = q /\ (k <= o + 1 <=> k <= o \/ k = o + 1)
        BY <1>1, <3>1, <3>3
      <4>2. k = o + 1 => k \in 1 .. h.claim
        BY <1>1, <4>1
      <4> QED BY <1>2, <1>4, <2>1, <2>2, <2>3, <2>5, <3>1, <3>2, <3>3, <4>1, <4>2
    <3>4. CASE ~(u = th /\ i = n) /\ h.claim = 0
      <4>1. ~(k \in 1 .. h.claim)
        BY <3>4
      <4> QED BY <1>4, <2>1, <2>2, <2>3, <3>1, <3>2, <3>4, <4>1
    <3>5. CASE ~(u = th /\ i = n) /\ h.claim # 0
      <4>1. Owner(h)
        BY <1>0, <2>5, <3>1, <3>5, Claimant
      <4>2. h.q # q
        BY <1>1, <2>5, <3>1, <3>5, <4>1
      <4>3. batch'[h.q] = batch[h.q]
        BY <1>2, <3>2, <4>2
      <4> QED BY <1>4, <2>1, <2>2, <2>3, <3>1, <3>2, <3>5, <4>3
    <3> QED BY <3>3, <3>4, <3>5
  <2> QED BY <2>4, <2>5
<1>7. \A st, bt : ClaimsOf(st) \in SUBSET ((Threads \X Nat) \X Nat) /\ SpentOf(st, bt) \subseteq ClaimsOf(st)
  BY DEF ClaimsOf, SpentOf
<1>8. ClaimsOf(stack') = ClaimsOf(stack)
  <2>1. \A u \in Threads : \A i \in Nat : \A k \in Nat :
          <<<<u, i>>, k>> \in ClaimsOf(stack') <=> <<<<u, i>>, k>> \in ClaimsOf(stack)
    BY <1>6, Zenon
  <2>2. ClaimsOf(stack) \in SUBSET ((Threads \X Nat) \X Nat)
    BY <1>7
  <2>3. ClaimsOf(stack') \in SUBSET ((Threads \X Nat) \X Nat)
    BY <1>7
  <2> QED BY <2>1, <2>2, <2>3, ClaimsEqual, ZenonT(120)
<1>9. PICK S, T : S = SpentOf(stack, batch) /\ T = S \cup {c}
  OBVIOUS
<1>a. SpentOf(stack', batch') = T
  <2>1. \A u \in Threads : \A i \in Nat : \A k \in Nat :
          <<<<u, i>>, k>> \in SpentOf(stack', batch') <=> <<<<u, i>>, k>> \in T
    BY <1>6, <1>9, ZenonT(120)
  <2>2. SpentOf(stack', batch') \in SUBSET ((Threads \X Nat) \X Nat)
    <3>1. SpentOf(stack', batch') \subseteq ClaimsOf(stack') /\ ClaimsOf(stack') \in SUBSET ((Threads \X Nat) \X Nat)
      BY <1>7
    <3> QED BY <3>1
  <2>3. T \in SUBSET ((Threads \X Nat) \X Nat)
    <3>1. SpentOf(stack, batch) \subseteq ClaimsOf(stack) /\ ClaimsOf(stack) \in SUBSET ((Threads \X Nat) \X Nat)
      BY <1>7
    <3>2. c \in (Threads \X Nat) \X Nat
      BY <1>1, <1>3
    <3> QED BY <1>9, <3>1, <3>2
  <2> QED BY <2>1, <2>2, <2>3, ClaimsEqual, Zenon
<1>b. Cardinality(T) = Cardinality(S) + 1
  <2>1. IsFiniteSet(S)
    <3>1. SpentOf(stack, batch) \subseteq ClaimsOf(stack)
      BY <1>7
    <3> QED BY <1>0, <1>9, <3>1, FS_Subset DEF Slotted
  <2>2. c \notin S
    <3>1. <<<<th, n>>, o + 1>> \in SpentOf(stack, batch) =>
             n \in 1 .. Len(stack[th]) /\ o + 1 \in 1 .. stack[th][n].claim /\ o + 1 <= batch[stack[th][n].q].out
      <4>1. n \in Nat /\ o + 1 \in Nat
        BY <1>1
      <4>2. PICK k \in Nat : k = o + 1
        BY <4>1
      <4> QED BY <4>1, <4>2, ClaimParts
    <3>2. ~(o + 1 <= o)
      BY <1>1
    <3> QED BY <1>1, <1>2, <1>3, <1>9, <3>1, <3>2
  <2> QED BY <1>9, <2>1, <2>2, FS_AddElement
<1>c. Cardinality(SpentOf(stack', batch')) = Len(jobs') + Cardinality(Busy')
  <2>1. Busy' = Busy
    BY <1>0, <1>1, LanesMoved
  <2>2. Len(jobs') = Len(jobs) + 1 /\ Len(jobs) \in Nat
    BY JobsSent
  <2>3. Cardinality(S) = Len(jobs) + Cardinality(Busy)
    BY <1>0, <1>9 DEF Slotted
  <2>4. Cardinality(Busy) \in Nat
    BY <1>0, <1>1, Finite
  <2>5. Cardinality(Busy') = Cardinality(Busy)
    BY <2>1
  <2> QED BY <1>a, <1>b, <2>2, <2>3, <2>4, <2>5
<1>d. slots' = slots /\ maximum' = maximum
  BY DEF Sent
<1> QED BY <1>0, <1>8, <1>c, <1>d DEF Slotted

\* No more slots are in use than there are.
LEMMA SpentBound ==
  ASSUME NEW st, NEW bt, IsFiniteSet(ClaimsOf(st))
  PROVE  Cardinality(SpentOf(st, bt)) <= Cardinality(ClaimsOf(st))
<1>1. SpentOf(st, bt) \subseteq ClaimsOf(st)
  BY DEF SpentOf
<1> QED BY <1>1, FS_Subset

\* And gets a thread, or all threads are there.
LEMMA MannedSent ==
  ASSUME BatchInv, NEW th \in Threads, NEW f, NEW g, NEW j, Sent(th, f, g, j)
  PROVE  Manned' /\ born' \subseteq Workers /\ gone' \subseteq born'
<1>0. Shapes /\ Slotted /\ Manned
  BY DEF BatchInv
<1>1. PICK c, b, l, m : c = Cardinality(born) /\ b = Cardinality(Busy) /\ l = Len(jobs) /\ m = maximum - 1
  OBVIOUS
<1>2. c \in Nat /\ b \in Nat /\ l \in Nat /\ m \in Nat /\ c <= m /\ 1 .. m \subseteq Workers
  <2>1. \E q \in Queries : TRUE
    BY SentFacts DEF Sending
  <2>2. c \in Nat /\ b \in Nat /\ l \in Nat
    BY <1>0, <1>1, <2>1, Finite
  <2>3. maximum \in Budgets
    BY <1>0 DEF Shapes
  <2>4. m \in Nat /\ 1 .. m \subseteq Workers
    BY <1>1, <2>3, Constants
  <2> QED BY <1>0, <1>1, <2>2, <2>4 DEF Manned
<1>3. open /\ gone = {}
  BY <1>0 DEF Manned, Sent
<1>4. l + b <= c /\ born = 1 .. c /\ IsFiniteSet(born) /\ Busy \subseteq born
  BY <1>0, <1>1, <1>3 DEF Manned
<1>5. Busy' = Busy /\ Len(jobs') = l + 1 /\ maximum' = maximum /\ gone' = {}
  <2>1. PICK n : n = Size(th)
    OBVIOUS
  <2>2. Moved(th, n) /\ stack[th] # <<>> /\ n > 0
    BY <2>1, SentFacts DEF Sending
  <2>3. Busy' = Busy
    BY <1>0, <2>2, LanesMoved
  <2> QED BY <1>1, <1>3, <2>3, JobsSent DEF Sent
<1>6. l + 1 + b <= m
  <2>1. Slotted' /\ slots' = slots
    BY SlottedSent DEF Sent
  <2>2. /\ IsFiniteSet(ClaimsOf(stack')) /\ slots' = Cardinality(ClaimsOf(stack')) /\ slots' <= maximum' - 1
        /\ Cardinality(SpentOf(stack', batch')) = Len(jobs') + Cardinality(Busy')
    BY <2>1 DEF Slotted
  <2>3. Cardinality(SpentOf(stack', batch')) <= Cardinality(ClaimsOf(stack'))
    BY <2>2, SpentBound
  <2>4. Cardinality(SpentOf(stack', batch')) = l + 1 + b
    BY <1>1, <1>2, <1>5, <2>2
  <2>5. slots' \in Int /\ slots' <= m
    BY <1>0, <1>1, <1>5, <2>1, <2>2 DEF Shapes
  <2> QED BY <1>2, <2>2, <2>3, <2>4, <2>5
<1>7. born' = IF c < m THEN born \cup {c + 1} ELSE born
  BY <1>1 DEF Sent
<1>8. CASE c < m
  <2>1. born' = 1 .. c + 1
    BY <1>2, <1>4, <1>7, <1>8
  <2>2. IsFiniteSet(born') /\ Cardinality(born') = c + 1
    <3>1. IsFiniteSet(1 .. c + 1) /\ Cardinality(1 .. c + 1) = c + 1
      <4>1. PICK d : d = c + 1
        OBVIOUS
      <4>2. IsFiniteSet(1 .. d) /\ Cardinality(1 .. d) = d
        BY <1>2, <4>1, FS_Interval
      <4> QED BY <4>1, <4>2
    <3> QED BY <2>1, <3>1
  <2>3. Cardinality(born') <= maximum' - 1 /\ Len(jobs') + Cardinality(Busy') <= Cardinality(born')
    <3>1. Cardinality(Busy') = b /\ maximum' - 1 = m /\ Len(jobs') = l + 1
      BY <1>1, <1>5
    <3>2. c + 1 <= m /\ l + 1 + b <= c + 1
      BY <1>2, <1>4, <1>8
    <3> QED BY <2>2, <3>1, <3>2
  <2>4. Busy' \subseteq born' \ gone' /\ born' \subseteq Workers /\ gone' \subseteq born'
    BY <1>2, <1>4, <1>5, <1>7, <1>8, <2>1
  <2> QED BY <1>5, <2>1, <2>2, <2>3, <2>4 DEF Manned
<1>9. CASE ~(c < m)
  <2>1. born' = born /\ c = m
    BY <1>2, <1>7, <1>9
  <2>2. Cardinality(born') <= maximum' - 1 /\ Len(jobs') + Cardinality(Busy') <= Cardinality(born')
    BY <1>1, <1>2, <1>5, <1>6, <2>1
  <2>3. Busy' \subseteq born' \ gone' /\ born' \subseteq Workers /\ gone' \subseteq born'
    BY <1>0, <1>4, <1>5, <2>1 DEF Shapes
  <2> QED BY <1>1, <1>4, <1>5, <2>1, <2>2, <2>3 DEF Manned
<1> QED BY <1>8, <1>9


\* A job is submitted.
LEMMA SentStep ==
  ASSUME BatchInv, NEW th \in Threads, NEW f, NEW g, NEW j, Sent(th, f, g, j)
  PROVE  BatchInv'
<1>0. Shapes /\ Stacks /\ Owned /\ Single /\ Permits /\ Outs /\ Slotted /\ Manned /\ Answers
  BY DEF BatchInv
<1>n. PICK n : n = Size(th)
  OBVIOUS
<1>1. /\ n \in Nat \ {0} /\ n > 0 /\ n = Len(stack[th]) /\ f = stack[th][n] /\ Moved(th, n) /\ stack'[th][n] = g
      /\ f.q \in Queries /\ f.task # <<>> /\ stack[th] # <<>> /\ Owner(f) /\ Local(g)
      /\ g \in FrameRec /\ g.q = f.q /\ g.task = f.task /\ g.pc = "dispatch"
  BY <1>n, SentFacts DEF Sending
<1>2. /\ f = Top(th) /\ f.pc = "dispatch" /\ SetTop(th, g) /\ g.acquired = f.acquired /\ g.donated = f.donated
      /\ node' = node /\ owner' = owner /\ attempt' = attempt /\ owns' = owns /\ used' = used /\ UNCHANGED permitVars
      /\ maximum' = maximum /\ slots' = slots /\ open' = open /\ waits' = waits /\ canceled' = canceled
      /\ result' = result /\ batch' \in [Queries -> BatchRec]
  BY DEF Sent, Edited, nodeVars, permitVars
<1>3. Innermost(th, f)
  BY <1>1, <1>2, InnermostFrame
<1>4. Stacks' /\ Owned' /\ Permits'
  <2>1. PermitStep(g.task)
    BY <1>2, PermitKept
  <2>2. /\ g.acquired <=> First(stack[th], Size(th)) /\ g.pc \in PermitPCs
        /\ Permit(g, First(stack[th], Size(th)), owns')
    BY <1>1, <1>2, <1>3 DEF Innermost, Permit, PermitPCs, OwnPCs
  <2>3. ~(th \in Workers /\ Size(th) = 1)
    BY <1>1, <1>3 DEF Innermost, Lane0
  <2> QED BY <1>0, <1>1, <1>2, <2>1, <2>2, <2>3, Replaced
<1>5. \A p \in Queries : batch'[p].queue = batch[p].queue /\ batch'[p].worst = batch[p].worst
  BY DEF Sent
<1>6. Single'
  BY <1>0, <1>1, <1>5, SingleMoved
<1>7. Outs' /\ Slotted' /\ Manned' /\ born' \subseteq Workers /\ gone' \subseteq born' /\ jobs' \in Seq(FrameRec)
  BY OutsSent, SlottedSent, MannedSent, JobsSent
<1>8. Shapes'
  <2>1. stack' \in [Threads -> Seq(FrameRec)]
    BY <1>1 DEF Moved
  <2> QED BY <1>0, <1>2, <1>7, <2>1 DEF Shapes
<1>9. Answers'
  <2>0. Progress
    BY <1>2 DEF Progress
  <2>1. Answered(f, stack, node, batch)
    BY <1>3 DEF Innermost
  <2>2. ASSUME batch'[f.q].worst = "ok", NEW k \in DOMAIN Demands[f.q] PROVE Cared(f.q, k, stack', node', batch')
    <3>1. batch[f.q].worst = "ok" /\ f.pc \in BatchPCs /\ batch'[f.q].queue = batch[f.q].queue
      BY <1>1, <1>2, <1>5, <2>2 DEF BatchPCs, ClaimPCs
    <3>2. Cared(f.q, k, stack, node, batch)
      BY <1>1, <2>1, <3>1, ZenonT(120) DEF Answered
    <3>3. ~(n < Size(th)) /\ n = Size(th)
      BY <1>1, <1>n
    <3> QED BY <1>0, <1>1, <2>0, <3>1, <3>2, <3>3, CaredMoved
  <2>3. Answered(stack'[th][n], stack', node', batch')
    BY <1>1, <2>2 DEF Answered
  <2>4. ~(n < Size(th)) /\ n = Size(th)
    BY <1>1, <1>n
  <2> QED BY <1>0, <1>1, <1>5, <2>0, <2>3, <2>4, AnswersMoved
<1> QED BY <1>4, <1>6, <1>7, <1>8, <1>9 DEF BatchInv

\* A job is a lane that has nothing.
LEMMA NewJob ==
  ASSUME NEW q \in Queries, NEW token \in Roots, NEW j, j = [Frame(q, <<>>, token) EXCEPT !.pc = "lane"]
  PROVE  j \in FrameRec /\ j.q = q /\ Lane0(j) /\ Local(j)
<1>0. PICK task \in Tasks \cup {<<>>} : task = <<>>
  OBVIOUS
<1>1. j = [q |-> q, task |-> task, token |-> token, pc |-> "lane", acquired |-> FALSE,
           donated |-> FALSE, next |-> 1, claim |-> 0, how |-> "ok"]
  BY <1>0 DEF Frame
<1>2. j \in FrameRec
  <2>1. [q |-> q, task |-> task, token |-> token, pc |-> "lane", acquired |-> FALSE,
         donated |-> FALSE, next |-> 1, claim |-> 0, how |-> "ok"] \in FrameRec
    <3>1. "lane" \in PCs /\ "ok" \in Hows /\ FALSE \in BOOLEAN /\ 1 \in Nat /\ 0 \in Nat
      BY DEF PCs, Hows
    <3> QED BY <1>0, <3>1 DEF FrameRec
  <2> QED BY <1>1, <2>1
<1>3. j.q = q /\ j.pc = "lane" /\ j.task = <<>> /\ j.claim = 0 /\ j.acquired = FALSE /\ j.how = "ok"
  BY <1>0, <1>1
<1> QED BY <1>2, <1>3 DEF Lane0, Local, ClaimPCs

\* A dispatch submits a job, is refused, or is complete.
LEMMA DispatchStep ==
  ASSUME BatchInv, NEW th \in Threads, Dispatch(th)
  PROVE  BatchInv'
<1>1. PICK f : f = Top(th)
  OBVIOUS
<1>2. stack[th] # <<>> /\ f.pc = "dispatch"
  BY <1>1 DEF Dispatch, At
<1>3. PICK j : j = [Frame(f.q, <<>>, f.token) EXCEPT !.pc = "lane"]
  OBVIOUS
<1>4. PICK g : g = [f EXCEPT !.next = @ + 1]
  OBVIOUS
<1>5. Innermost(th, f)
  BY <1>1, <1>2, InnermostFrame
<1>6. CASE /\ f.next <= f.claim /\ open
           /\ born' = IF Cardinality(born) < maximum - 1 THEN born \cup {Cardinality(born) + 1} ELSE born
           /\ jobs' = Append(jobs, j)
           /\ batch' = [batch EXCEPT ![f.q].out = @ + 1]
           /\ SetTop(th, g)
  <2>1. f \in FrameRec /\ f.q \in Queries /\ f.token \in Roots
    BY <1>5 DEF Innermost
  <2>2. j \in FrameRec /\ j.q = f.q /\ Lane0(j) /\ Local(j)
    BY <1>3, <2>1, NewJob
  <2>3. Edited(f, g, "dispatch", f.acquired, f.donated, f.next + 1, f.claim, f.how)
    <3>1. Edited(f, g, f.pc, f.acquired, f.donated, f.next + 1, f.claim, f.how)
      BY <1>4, <2>1, EditNext
    <3> QED BY <1>2, <3>1
  <2>4. /\ batch' \in [Queries -> BatchRec]
        /\ batch'[f.q].queue = batch[f.q].queue /\ batch'[f.q].worst = batch[f.q].worst
        /\ batch'[f.q].out = batch[f.q].out + 1
        /\ \A p \in Queries : p # f.q => batch'[p] = batch[p]
    <3>1. batch \in [Queries -> BatchRec] /\ batch[f.q] \in BatchRec
      BY <2>1 DEF BatchInv, Shapes
    <3>2. batch' = [batch EXCEPT ![f.q].out = batch[f.q].out + 1] /\ batch[f.q].out + 1 \in Int
      BY <1>6, <2>1, <3>1 DEF BatchRec
    <3> QED BY <2>1, <3>1, <3>2 DEF BatchRec
  <2>5. /\ maximum' = maximum /\ UNCHANGED nodeVars /\ UNCHANGED permitVars /\ slots' = slots /\ gone' = gone /\ open' = open
        /\ waits' = waits /\ canceled' = canceled /\ result' = result
    BY DEF Dispatch
  <2>6. Sent(th, f, g, j)
    BY <1>1, <1>2, <1>6, <2>2, <2>3, <2>4, <2>5 DEF Sent
  <2> QED BY <2>6, SentStep
<1>7. CASE /\ batch' = batch /\ jobs' = jobs /\ born' = born
           /\ Goto(th, "lane") \/ SetTop(th, [Top(th) EXCEPT !.pc = "lane", !.how = "aborted"])
  <2>1. batch' = batch /\ jobs' = jobs /\ born' = born
    BY <1>7
  <2>2. CASE Goto(th, "lane")
    BY <2>1, <2>2, DispatchEnds, ZenonT(120)
  <2>3. CASE SetTop(th, [Top(th) EXCEPT !.pc = "lane", !.how = "aborted"])
    BY <2>1, <2>3, DispatchEnds, ZenonT(120)
  <2> QED BY <1>7, <2>2, <2>3
<1> QED BY <1>1, <1>3, <1>4, <1>6, <1>7 DEF Dispatch


-----------------------------------------------------------------------------
(* Workers *)

\* A worker finds its batch's queue empty.
LEMMA LaneLeaves ==
  ASSUME BatchInv, NEW th \in Threads, Lane(th), batch[Top(th).q].queue = <<>>,
         th \in Workers, Len(stack[th]) = 1
  PROVE  BatchInv'
<1>0. Shapes /\ Stacks /\ Owned /\ Single /\ Permits /\ Outs /\ Slotted /\ Manned /\ Answers
  BY DEF BatchInv
<1>1. PICK f : f = Top(th)
  OBVIOUS
<1>2. stack[th] # <<>> /\ f.pc = "lane"
  BY <1>1 DEF Lane, At
<1>3. Innermost(th, f)
  BY <1>1, <1>2, InnermostFrame
<1>4. /\ f.q \in Queries /\ Lane0(f) /\ Size(th) = 1 /\ f = stack[th][1] /\ f.task = <<>> /\ f.claim = 0
      /\ f.task \notin owns
  <2>1. Size(th) = 1
    BY DEF Size
  <2>2. f.q \in Queries /\ Lane0(f) /\ f = stack[th][1]
    BY <1>3, <2>1 DEF Innermost
  <2>3. f.task = <<>> /\ f.claim = 0
    BY <2>2 DEF Lane0
  <2>4. owns \subseteq Tasks
    BY <1>0 DEF Shapes
  <2> QED BY <2>1, <2>2, <2>3, <2>4, TaskNames
<1>5. /\ stack' = [stack EXCEPT ![th] = <<>>] /\ batch' = [batch EXCEPT ![f.q].out = @ - 1]
      /\ maximum' = maximum /\ UNCHANGED nodeVars /\ UNCHANGED permitVars /\ slots' = slots /\ UNCHANGED executorVars
      /\ waits' = waits /\ canceled' = canceled /\ result' = result
  <2>1. ~(th \in Roots \/ Len(stack[th]) > 1)
    BY Constants
  <2> QED BY <1>1, <2>1 DEF Lane
<1>6. Moved(th, 0)
  BY <1>0, <1>5, EmptyMoves
<1>7. /\ batch' \in [Queries -> BatchRec] /\ batch'[f.q].out = batch[f.q].out - 1
      /\ batch'[f.q].queue = batch[f.q].queue /\ batch'[f.q].worst = batch[f.q].worst
      /\ \A p \in Queries : p # f.q => batch'[p] = batch[p]
  <2>1. batch \in [Queries -> BatchRec] /\ batch[f.q] \in BatchRec
    BY <1>0, <1>4 DEF Shapes
  <2>2. batch' = [batch EXCEPT ![f.q].out = batch[f.q].out - 1] /\ batch[f.q].out - 1 \in Int
    BY <1>4, <1>5, <2>1 DEF BatchRec
  <2> QED BY <1>4, <2>1, <2>2 DEF BatchRec
<1>8. \A p \in Queries : batch'[p].queue = batch[p].queue /\ batch'[p].worst = batch[p].worst
  BY <1>7
<1>9. node' = node /\ owner' = owner /\ attempt' = attempt /\ owns' = owns /\ used' = used
  BY <1>5 DEF nodeVars, permitVars
<1>a. Shapes'
  <2>1. stack' \in [Threads -> Seq(FrameRec)]
    BY <1>6 DEF Moved
  <2> QED BY <1>0, <1>5, <1>7, <1>9, <2>1 DEF Shapes, executorVars
<1>b. Stacks'
  BY <1>0, <1>6, StacksMoved
<1>c. Owned'
  BY <1>0, <1>6, <1>9, OwnedMoved
<1>d. Single'
  BY <1>0, <1>6, <1>8, SingleMoved
<1>e. Permits'
  <2>1. Top(th).task \notin owns' /\ (\A x : x # Top(th).task => (x \in owns' <=> x \in owns))
    BY <1>1, <1>4, <1>9
  <2>2. IsFiniteSet(owns') /\ used' = Cardinality(owns') /\ used' <= maximum'
    BY <1>0, <1>5, <1>9 DEF Permits
  <2>3. 0 = Size(th) - 1
    BY <1>4
  <2> QED BY <1>0, <1>2, <1>6, <2>1, <2>2, <2>3, PermitsMoved
<1>f. Outs' /\ Slotted' /\ Manned'
  <2>1. \A i \in 2 .. Size(th) : FALSE
    BY <1>4
  <2>2. \A p \in Queries : p # f.q => batch'[p].out = batch[p].out
    BY <1>7
  <2> QED BY <1>0, <1>2, <1>4, <1>5, <1>6, <1>7, <2>1, <2>2, WorkerLeaves
<1>g. Answers'
  <2>1. Progress
    BY <1>9 DEF Progress
  <2>2. 0 = Size(th) - 1 /\ ~(Size(th) > 1)
    BY <1>4
  <2> QED BY <1>0, <1>2, <1>6, <1>8, <2>1, <2>2, AnswersMoved
<1> QED BY <1>a, <1>b, <1>c, <1>d, <1>e, <1>f, <1>g DEF BatchInv

\* Taking an item, ending the parent's own lane, or leaving.
LEMMA LaneStep ==
  ASSUME BatchInv, NEW th \in Threads, Lane(th)
  PROVE  BatchInv'
<1>1. CASE batch[Top(th).q].queue # <<>>
  BY <1>1, LanePushes
<1>2. CASE batch[Top(th).q].queue = <<>> /\ (th \in Roots \/ Len(stack[th]) > 1)
  BY <1>2, LaneEnds
<1>3. CASE batch[Top(th).q].queue = <<>> /\ th \in Workers /\ Len(stack[th]) = 1
  BY <1>3, LaneLeaves
<1> QED BY <1>1, <1>2, <1>3 DEF Lane


\* Idle worker w takes job g.
Hired(w, g) ==
  /\ w \in Threads /\ w \in Workers /\ w \in born \ gone /\ stack[w] = <<>> /\ jobs # <<>>
  /\ g = jobs[1] /\ g \in FrameRec /\ g.q \in Queries /\ Lane0(g) /\ Local(g)
  /\ Pushed(w, g) /\ stack'[w] \in Seq(FrameRec) /\ Len(stack'[w]) = 1 /\ stack'[w][1] = g
  /\ jobs' \in Seq(FrameRec) /\ Len(jobs) \in Nat \ {0} /\ Len(jobs') = Len(jobs) - 1
  /\ \A i \in 1 .. Len(jobs') : jobs'[i] = jobs[i + 1]
  /\ UNCHANGED <<maximum, nodeVars, permitVars, slots, batch, born, gone, open, waits, canceled, result>>

\* What TakeJob does.
LEMMA Hires ==
  ASSUME BatchInv, NEW w \in Workers, TakeJob(w)
  PROVE  Hired(w, Head(jobs))
<1>1. jobs \in Seq(FrameRec) /\ jobs # <<>> /\ stack \in [Threads -> Seq(FrameRec)] /\ w \in Threads
  BY Constants DEF TakeJob, BatchInv, Shapes
<1>2. PICK g : g = Head(jobs)
  OBVIOUS
<1>3. /\ Len(jobs) \in Nat \ {0} /\ Tail(jobs) \in Seq(FrameRec) /\ Len(Tail(jobs)) = Len(jobs) - 1 /\ g = jobs[1]
      /\ g \in FrameRec /\ \A i \in 1 .. Len(Tail(jobs)) : Tail(jobs)[i] = jobs[i + 1]
  BY <1>1, <1>2, HeadTailProperties, EmptySeq
<1>4. jobs' = Tail(jobs) /\ stack' = [stack EXCEPT ![w] = <<g>>] /\ stack[w] = <<>> /\ w \in born \ gone
      /\ UNCHANGED <<maximum, nodeVars, permitVars, slots, batch, born, gone, open, waits, canceled, result>>
  BY <1>2 DEF TakeJob
<1>5. g.q \in Queries /\ Lane0(g) /\ Local(g)
  <2>1. 1 \in 1 .. Len(jobs)
    BY <1>3
  <2> QED BY <1>3, <2>1, Fields DEF BatchInv, Outs
<1>6. <<g>> \in Seq(FrameRec) /\ Len(<<g>>) = 1 /\ <<g>>[1] = g
  BY <1>3
<1>7. /\ stack' \in [Threads -> Seq(FrameRec)] /\ stack'[w] = <<g>>
      /\ \A u \in Threads : u # w => stack'[u] = stack[u]
  BY <1>1, <1>4, <1>6
<1>8. Pushed(w, g)
  <2>1. PushedOn(<<>>, <<g>>, g)
    BY <1>6 DEF PushedOn
  <2> QED BY <1>4, <1>7, <2>1 DEF Pushed
<1>9. Hired(w, g)
  BY <1>1, <1>3, <1>4, <1>5, <1>6, <1>7, <1>8 DEF Hired
<1> QED BY <1>2, <1>9

\* The frames are those that were there, and the job's.
LEMMA HiredFrames ==
  ASSUME BatchInv, NEW w, NEW g, Hired(w, g), NEW u \in Threads, NEW i \in 1 .. Len(stack'[u])
  PROVE  \/ u # w /\ stack'[u] = stack[u] /\ i \in 1 .. Len(stack[u])
         \/ u = w /\ i = 1 /\ stack'[u][i] = g
<1>1. CASE u # w
  BY <1>1 DEF Hired, Pushed
<1>2. CASE u = w
  <2>1. Len(stack'[w]) = 1 /\ stack'[w][1] = g
    BY DEF Hired
  <2>2. i = 1
    BY <1>2, <2>1
  <2> QED BY <1>2, <2>1, <2>2
<1> QED BY <1>1, <1>2

\* Stacks, ownership and permits do not change.
LEMMA HiredStacks ==
  ASSUME BatchInv, NEW w, NEW g, Hired(w, g)
  PROVE  Shapes' /\ Stacks' /\ Owned' /\ Single' /\ Permits' /\ Answers'
<1>0. Shapes /\ Stacks /\ Owned /\ Single /\ Permits /\ Outs /\ Slotted /\ Manned /\ Answers
  BY DEF BatchInv
<1>1. /\ w \in Threads /\ w \in Workers /\ stack[w] = <<>> /\ Pushed(w, g) /\ stack'[w][1] = g /\ Len(stack'[w]) = 1
      /\ g \in FrameRec /\ g.q \in Queries /\ Lane0(g) /\ Local(g)
      /\ \A u \in Threads : u # w => stack'[u] = stack[u]
  BY DEF Hired, Pushed
<1>2. g.task = <<>> /\ ~Owner(g) /\ g.pc = "lane"
  BY <1>1 DEF Lane0, Owner
<1>3. /\ node' = node /\ owner' = owner /\ attempt' = attempt /\ owns' = owns /\ used' = used /\ batch' = batch
      /\ maximum' = maximum /\ slots' = slots /\ born' = born /\ gone' = gone /\ open' = open
      /\ waits' = waits /\ canceled' = canceled /\ result' = result /\ jobs' \in Seq(FrameRec)
  BY DEF Hired, nodeVars, permitVars
<1>4. Shapes'
  <2>1. stack' \in [Threads -> Seq(FrameRec)]
    BY <1>1 DEF Pushed
  <2> QED BY <1>0, <1>3, <2>1 DEF Shapes
<1>5. Stacks'
  <2>1. PICK s : s = stack'[w]
    OBVIOUS
  <2>2. Len(s) = 1 /\ s[1] = g /\ s # <<>>
    BY <1>1, <2>1
  <2>3. \A i \in 1 .. Len(s) : i = 1
    BY <2>2
  <2>4. \A i \in 2 .. Len(s) : FALSE
    BY <2>2
  <2>5. \A j \in 1 .. 1 - 1 : FALSE
    OBVIOUS
  <2>6. \A p, k : g.task # <<p, k>>
    BY <1>2, Names
  <2>7. Stacked(w, s)
    BY <1>1, <2>2, <2>3, <2>4, <2>5, <2>6 DEF Stacked
  <2> QED BY <1>0, <1>1, <2>1, <2>7 DEF Stacks
<1>6. Owned'
  BY <1>0, <1>1, <1>2, <1>3, OwnedPushed
<1>7. Single'
  <2>1. \A t, u \in Threads : \A i \in 1 .. Len(stack'[t]) : \A j \in 1 .. Len(stack'[u]) :
          stack'[t][i].task = stack'[u][j].task /\ stack'[t][i].task # <<>> => t = u
    <3> SUFFICES ASSUME NEW t \in Threads, NEW u \in Threads, NEW i \in 1 .. Len(stack'[t]), NEW j \in 1 .. Len(stack'[u]),
                        stack'[t][i].task = stack'[u][j].task, stack'[t][i].task # <<>>
                 PROVE  t = u
      OBVIOUS
    <3>1. stack'[t] = stack[t] /\ i \in 1 .. Len(stack[t])
      BY <1>2, HiredFrames
    <3>2. stack'[u] = stack[u] /\ j \in 1 .. Len(stack[u])
      BY <1>2, HiredFrames
    <3> QED BY <1>0, <3>1, <3>2, OneThread
  <2>2. ASSUME NEW t \in Threads, NEW i \in 1 .. Len(stack'[t]), NEW p \in Queries, NEW k \in Nat,
               stack'[t][i].task = <<p, k>>
        PROVE  \A n \in 1 .. Len(batch'[p].queue) : batch'[p].queue[n] # k
    <3>1. stack'[t][i].task # <<>>
      BY <2>2, Names
    <3>2. stack'[t] = stack[t] /\ i \in 1 .. Len(stack[t])
      BY <1>2, <3>1, HiredFrames
    <3>3. \A n \in 1 .. Len(batch[p].queue) : batch[p].queue[n] # k
      BY <1>0, <2>2, <3>2, NotQueued
    <3> QED BY <1>3, <3>3
  <2>3. \A p \in Queries : Indices(p, batch'[p].queue)
    BY <1>0, <1>3 DEF Single
  <2> QED BY <2>1, <2>2, <2>3 DEF Single
<1>8. Permits'
  <2>1. ASSUME NEW t \in Threads, NEW i \in 1 .. Len(stack'[t]) PROVE Permitted(stack'[t], i, owns')
    <3>1. CASE stack'[t] = stack[t] /\ i \in 1 .. Len(stack[t])
      BY <1>0, <1>3, <3>1 DEF Permits
    <3>2. CASE stack'[t][i] = g
      BY <1>2, <3>2 DEF Permitted
    <3> QED BY <3>1, <3>2, HiredFrames
  <2>2. ASSUME NEW task \in owns'
        PROVE  \E t \in Threads : \E i \in 1 .. Len(stack'[t]) : stack'[t][i].task = task /\ stack'[t][i].acquired
    <3>1. PICK t \in Threads : \E i \in 1 .. Len(stack[t]) : stack[t][i].task = task /\ stack[t][i].acquired
      BY <1>0, <1>3 DEF Permits
    <3>2. t # w
      BY <1>1, <3>1
    <3> QED BY <1>1, <3>1, <3>2
  <2> QED BY <1>0, <1>3, <2>1, <2>2 DEF Permits
<1>9. Answers'
  BY <1>0, <1>1, <1>2, <1>3, AnswersPushed
<1> QED BY <1>4, <1>5, <1>6, <1>7, <1>8, <1>9


\* The job is no longer in the channel.
LEMMA JobsTaken ==
  ASSUME BatchInv, NEW w, NEW g, Hired(w, g), NEW p \in Queries
  PROVE  Cardinality(JobsOf(p)') = IF p = g.q THEN Cardinality(JobsOf(p)) - 1 ELSE Cardinality(JobsOf(p))
<1>0. Shapes /\ Manned
  BY DEF BatchInv
<1>1. PICK l, R, T : l = Len(jobs) /\ R = JobsOf(p) \ {1} /\ T = JobsOf(p)'
  OBVIOUS
<1>2. l \in Nat \ {0} /\ Len(jobs') = l - 1 /\ g = jobs[1] /\ \A i \in 1 .. l - 1 : jobs'[i] = jobs[i + 1]
  BY <1>1 DEF Hired
<1>3. IsFiniteSet(JobsOf(p)) /\ IsFiniteSet(R)
  <2>1. IsFiniteSet(JobsOf(p))
    BY <1>0, Finite
  <2> QED BY <1>1, <2>1, FS_Subset
<1>4. \A i : i \in R <=> i \in 1 .. l /\ i # 1 /\ jobs[i].q = p
  BY <1>1 DEF JobsOf
<1>5. \A i : i \in T <=> i \in 1 .. l - 1 /\ jobs'[i].q = p
  BY <1>1, <1>2 DEF JobsOf
<1>6. \A i \in R : i - 1 \in T /\ i \in Int
  <2> SUFFICES ASSUME NEW i \in R PROVE i - 1 \in T /\ i \in Int
    OBVIOUS
  <2>1. i \in 1 .. l /\ i # 1 /\ jobs[i].q = p
    BY <1>4
  <2>2. i - 1 \in 1 .. l - 1 /\ i \in Int /\ (i - 1) + 1 = i
    BY <1>2, <2>1
  <2>3. jobs'[i - 1] = jobs[i]
    BY <1>2, <2>2
  <2> QED BY <1>5, <2>1, <2>2, <2>3
<1>7. \A k \in T : k + 1 \in R /\ (k + 1) - 1 = k
  <2> SUFFICES ASSUME NEW k \in T PROVE k + 1 \in R /\ (k + 1) - 1 = k
    OBVIOUS
  <2>1. k \in 1 .. l - 1 /\ jobs'[k].q = p
    BY <1>5
  <2>2. k + 1 \in 1 .. l /\ k + 1 # 1 /\ (k + 1) - 1 = k
    BY <1>2, <2>1
  <2>3. jobs'[k] = jobs[k + 1]
    BY <1>2, <2>1
  <2> QED BY <1>4, <2>1, <2>2, <2>3
<1>8. ExistsBijection(R, T)
  <2>1. PICK F : F = [i \in R |-> i - 1]
    OBVIOUS
  <2>2. F \in [R -> T]
    BY <1>6, <2>1
  <2>3. \A a, b \in R : F[a] = F[b] => a = b
    BY <1>6, <2>1
  <2>4. \A k \in T : \E i \in R : F[i] = k
    BY <1>7, <2>1
  <2>5. F \in Injection(R, T)
    BY <2>2, <2>3 DEF Injection, IsInjective
  <2>6. F \in Surjection(R, T)
    BY <2>2, <2>4, Zenon DEF Surjection
  <2> QED BY <2>5, <2>6, Zenon DEF ExistsBijection, Bijection
<1>9. Cardinality(T) = Cardinality(R)
  BY <1>3, <1>8, FS_Bijection
<1>a. CASE p = g.q
  <2>1. 1 \in JobsOf(p)
    <3>1. 1 \in 1 .. Len(jobs)
      BY <1>1, <1>2
    <3> QED BY <1>2, <1>a, <3>1 DEF JobsOf
  <2>2. Cardinality(JobsOf(p) \ {1}) = Cardinality(JobsOf(p)) - 1
    BY <1>3, <2>1, FS_RemoveElement
  <2> QED BY <1>1, <1>9, <1>a, <2>2
<1>b. CASE p # g.q
  <2>1. R = JobsOf(p)
    BY <1>1, <1>2, <1>b DEF JobsOf
  <2> QED BY <1>1, <1>9, <1>b, <2>1
<1> QED BY <1>a, <1>b

\* It is in a lane now, on a thread that was idle.
LEMMA LanesTaken ==
  ASSUME BatchInv, NEW w, NEW g, Hired(w, g)
  PROVE  /\ \A p \in Queries : Cardinality(LanesOf(p)') =
              IF p = g.q THEN Cardinality(LanesOf(p)) + 1 ELSE Cardinality(LanesOf(p))
         /\ Busy' = Busy \cup {w} /\ Cardinality(Busy') = Cardinality(Busy) + 1
<1>0. Shapes /\ Manned
  BY DEF BatchInv
<1>1. /\ w \in Threads /\ w \in Workers /\ stack[w] = <<>> /\ stack'[w][1] = g /\ Len(stack'[w]) = 1
      /\ g.q \in Queries /\ \A u \in Threads : u # w => stack'[u] = stack[u]
  BY DEF Hired, Pushed
<1>2. stack'[w] # <<>> /\ \A u \in Workers : u \in Threads
  BY <1>1, Constants
<1>3. Busy' = Busy \cup {w} /\ w \notin Busy
  BY <1>1, <1>2 DEF Busy
<1>4. Cardinality(Busy') = Cardinality(Busy) + 1
  <2>1. IsFiniteSet(Busy)
    BY <1>0, <1>1, Finite
  <2> QED BY <1>3, <2>1, FS_AddElement
<1>5. ASSUME NEW p \in Queries
      PROVE  Cardinality(LanesOf(p)') = IF p = g.q THEN Cardinality(LanesOf(p)) + 1 ELSE Cardinality(LanesOf(p))
  <2>1. CASE p = g.q
    <3>1. LanesOf(p)' = LanesOf(p) \cup {w} /\ w \notin LanesOf(p)
      BY <1>1, <1>2, <2>1 DEF LanesOf
    <3>2. IsFiniteSet(LanesOf(p))
      BY <1>0, Finite
    <3>3. Cardinality(LanesOf(p)') = Cardinality(LanesOf(p)) + 1
      BY <3>1, <3>2, FS_AddElement
    <3> QED BY <2>1, <3>3
  <2>2. CASE p # g.q
    <3>1. LanesOf(p)' = LanesOf(p)
      BY <1>1, <1>2, <2>2 DEF LanesOf
    <3> QED BY <2>2, <3>1
  <2> QED BY <2>1, <2>2
<1> QED BY <1>3, <1>4, <1>5

\* A worker takes a job: it stays counted and keeps its slot.
LEMMA TakeJobStep ==
  ASSUME BatchInv, NEW w \in Workers, TakeJob(w)
  PROVE  BatchInv'
<1>0. Shapes /\ Stacks /\ Owned /\ Single /\ Permits /\ Outs /\ Slotted /\ Manned /\ Answers
  BY DEF BatchInv
<1>1. PICK g : g = Head(jobs)
  OBVIOUS
<1>2. Hired(w, g)
  BY <1>1, Hires
<1>3. /\ w \in Threads /\ w \in born \ gone /\ stack[w] = <<>> /\ Pushed(w, g)
      /\ g \in FrameRec /\ g.q \in Queries /\ Lane0(g) /\ g.task = <<>> /\ g.claim = 0
      /\ \A u \in Threads : u # w => stack'[u] = stack[u]
      /\ jobs # <<>> /\ Len(jobs) \in Nat \ {0} /\ Len(jobs') = Len(jobs) - 1
      /\ \A i \in 1 .. Len(jobs') : jobs'[i] = jobs[i + 1]
      /\ UNCHANGED <<maximum, slots, batch, born, gone, open>>
  BY <1>2 DEF Hired, Pushed, Lane0
<1>4. Shapes' /\ Stacks' /\ Owned' /\ Single' /\ Permits' /\ Answers'
  BY <1>2, HiredStacks
<1>5. Outs'
  <2>1. ASSUME NEW i \in 1 .. Len(jobs') PROVE Lane0(jobs'[i]) /\ Local(jobs'[i])
    <3>1. i + 1 \in 1 .. Len(jobs)
      BY <1>3
    <3> QED BY <1>0, <1>3, <3>1 DEF Outs
  <2>2. ASSUME NEW p \in Queries PROVE batch'[p].out = Cardinality(LanesOf(p)') + Cardinality(JobsOf(p)')
    <3>1. batch[p].out = Cardinality(LanesOf(p)) + Cardinality(JobsOf(p)) /\ batch'[p].out = batch[p].out
      BY <1>0, <1>3 DEF Outs
    <3>2. Cardinality(LanesOf(p)) \in Nat /\ Cardinality(JobsOf(p)) \in Nat
      BY <1>0, Finite
    <3>3. Cardinality(LanesOf(p)') = IF p = g.q THEN Cardinality(LanesOf(p)) + 1 ELSE Cardinality(LanesOf(p))
      BY <1>2, LanesTaken
    <3>4. Cardinality(JobsOf(p)') = IF p = g.q THEN Cardinality(JobsOf(p)) - 1 ELSE Cardinality(JobsOf(p))
      BY <1>2, JobsTaken
    <3> QED BY <3>1, <3>2, <3>3, <3>4
  <2>3. ASSUME NEW p \in Queries, batch'[p].out > 0
        PROVE  \E t \in Threads : \E i \in 1 .. Len(stack'[t]) :
                 stack'[t][i].q = p /\ stack'[t][i].task # <<>> /\ stack'[t][i].pc \in ScopePCs
    <3>1. PICK t \in Threads : \E i \in 1 .. Len(stack[t]) :
            stack[t][i].q = p /\ stack[t][i].task # <<>> /\ stack[t][i].pc \in ScopePCs
      BY <1>0, <1>3, <2>3 DEF Outs
    <3>2. t # w
      BY <1>3, <3>1
    <3> QED BY <1>3, <3>1, <3>2
  <2>4. ASSUME NEW t \in Threads, NEW i \in 1 .. Len(stack'[t])
        PROVE  Within(stack'[t][i], batch'[stack'[t][i].q].out)
    <3>1. CASE stack'[t] = stack[t] /\ i \in 1 .. Len(stack[t])
      BY <1>0, <1>3, <3>1 DEF Outs
    <3>2. CASE stack'[t][i] = g
      BY <1>3, <3>2 DEF Within
    <3> QED BY <1>2, <3>1, <3>2, HiredFrames
  <2> QED BY <2>1, <2>2, <2>3, <2>4 DEF Outs
<1>6. Cardinality(Busy') = Cardinality(Busy) + 1 /\ Busy' = Busy \cup {w} /\ Cardinality(Busy) \in Nat
  BY <1>0, <1>2, <1>3, LanesTaken, Finite
<1>7. Slotted'
  <2>1. ClaimsOf(stack') = ClaimsOf(stack) /\ SpentOf(stack', batch') = SpentOf(stack, batch)
    <3>1. \A p \in Queries : batch'[p].out = batch[p].out
      BY <1>3
    <3> QED BY <1>0, <1>3, <3>1, ClaimsPushed
  <2>2. Len(jobs') + Cardinality(Busy') = Len(jobs) + Cardinality(Busy)
    BY <1>3, <1>6
  <2> QED BY <1>0, <1>3, <2>1, <2>2 DEF Slotted
<1>8. Manned'
  <2>1. Len(jobs') + Cardinality(Busy') = Len(jobs) + Cardinality(Busy)
    BY <1>3, <1>6
  <2>2. gone = {}
    BY <1>0, <1>3 DEF Manned
  <2> QED BY <1>0, <1>3, <1>6, <2>1, <2>2 DEF Manned
<1> QED BY <1>4, <1>5, <1>7, <1>8 DEF BatchInv


\* Nothing that the stacks, batches, permits and queues are made of changes.
Resting ==
  UNCHANGED <<maximum, nodeVars, stack, permitVars, slots, batch, jobs, born, waits, result>>

\* Such a step preserves everything except what it says of the executor.
LEMMA RestingStep ==
  ASSUME BatchInv, Resting, gone' \subseteq born', open' \in BOOLEAN, canceled' \subseteq Roots, Manned'
  PROVE  BatchInv'
<1>0. Shapes /\ Stacks /\ Owned /\ Single /\ Permits /\ Outs /\ Slotted /\ Manned /\ Answers
  BY DEF BatchInv
<1>1. /\ maximum' = maximum /\ node' = node /\ owner' = owner /\ attempt' = attempt /\ stack' = stack
      /\ owns' = owns /\ used' = used /\ slots' = slots /\ batch' = batch /\ jobs' = jobs /\ born' = born
      /\ waits' = waits /\ result' = result
  BY DEF Resting, nodeVars, permitVars
<1>2. Shapes'
  BY <1>0, <1>1 DEF Shapes
<1>3. Stacks'
  BY <1>0, <1>1 DEF Stacks
<1>4. Owned'
  BY <1>0, <1>1 DEF Owned
<1>5. Single'
  BY <1>0, <1>1 DEF Single
<1>6. Permits'
  BY <1>0, <1>1 DEF Permits
<1>7. Outs'
  <2>1. \A p : LanesOf(p)' = LanesOf(p) /\ JobsOf(p)' = JobsOf(p)
    BY <1>1 DEF LanesOf, JobsOf
  <2> QED BY <1>0, <1>1, <2>1 DEF Outs
<1>8. Slotted'
  <2>1. Busy' = Busy
    BY <1>1 DEF Busy
  <2> QED BY <1>0, <1>1, <2>1 DEF Slotted
<1>9. Answers'
  BY <1>0, <1>1 DEF Answers, AnswersAreComplete
<1> QED BY <1>2, <1>3, <1>4, <1>5, <1>6, <1>7, <1>8, <1>9 DEF BatchInv

\* A worker that leaves its loop has no frames, and no job is left for it.
LEMMA WorkerExitsStep ==
  ASSUME BatchInv, NEW w \in Workers, WorkerExits(w)
  PROVE  BatchInv'
<1>0. Shapes /\ Manned
  BY DEF BatchInv
<1>1. /\ Resting /\ gone' = gone \cup {w} /\ open' = open /\ canceled' = canceled /\ born' = born /\ jobs' = jobs
      /\ stack' = stack /\ maximum' = maximum /\ w \in born /\ stack[w] = <<>> /\ jobs = <<>> /\ ~open
  BY DEF WorkerExits, Resting, nodeVars, permitVars
<1>2. Busy' = Busy /\ w \notin Busy
  BY <1>1 DEF Busy
<1>3. Manned'
  BY <1>0, <1>1, <1>2 DEF Manned
<1>4. gone' \subseteq born' /\ open' \in BOOLEAN /\ canceled' \subseteq Roots
  BY <1>0, <1>1 DEF Shapes
<1> QED BY <1>1, <1>3, <1>4, RestingStep

\* Shutdown takes the sender; nobody has left before.
LEMMA ShutdownStep ==
  ASSUME BatchInv, Shutdown
  PROVE  BatchInv'
<1>0. Shapes /\ Manned
  BY DEF BatchInv
<1>1. /\ Resting /\ gone' = gone /\ open' = FALSE /\ canceled' = canceled /\ born' = born /\ jobs' = jobs
      /\ stack' = stack /\ maximum' = maximum
  BY DEF Shutdown, Resting, nodeVars, permitVars
<1>2. Busy' = Busy
  BY <1>1 DEF Busy
<1>3. Manned'
  BY <1>0, <1>1, <1>2 DEF Manned
<1>4. gone' \subseteq born' /\ open' \in BOOLEAN /\ canceled' \subseteq Roots
  BY <1>0, <1>1 DEF Shapes
<1> QED BY <1>1, <1>3, <1>4, RestingStep

\* A canceled token changes nothing until a frame looks at it.
LEMMA CancelStep ==
  ASSUME BatchInv, NEW r \in Roots, Cancel(r)
  PROVE  BatchInv'
<1>0. Shapes /\ Manned
  BY DEF BatchInv
<1>1. /\ Resting /\ gone' = gone /\ open' = open /\ canceled' = canceled \cup {r} /\ born' = born /\ jobs' = jobs
      /\ stack' = stack /\ maximum' = maximum
  BY DEF Cancel, Resting, nodeVars, permitVars, executorVars
<1>2. Busy' = Busy
  BY <1>1 DEF Busy
<1>3. Manned'
  BY <1>0, <1>1, <1>2 DEF Manned
<1>4. gone' \subseteq born' /\ open' \in BOOLEAN /\ canceled' \subseteq Roots
  BY <1>0, <1>1 DEF Shapes
<1> QED BY <1>1, <1>3, <1>4, RestingStep

\* A stuttering step.
LEMMA StutterStep ==
  ASSUME BatchInv, UNCHANGED vars
  PROVE  BatchInv'
<1>0. Shapes /\ Manned
  BY DEF BatchInv
<1>1. /\ Resting /\ gone' = gone /\ open' = open /\ canceled' = canceled /\ born' = born /\ jobs' = jobs
      /\ stack' = stack /\ maximum' = maximum
  BY DEF vars, Resting, nodeVars, permitVars, executorVars
<1>2. Busy' = Busy
  BY <1>1 DEF Busy
<1>3. Manned'
  BY <1>0, <1>1, <1>2 DEF Manned
<1>4. gone' \subseteq born' /\ open' \in BOOLEAN /\ canceled' \subseteq Roots
  BY <1>0, <1>1 DEF Shapes
<1> QED BY <1>1, <1>3, <1>4, RestingStep

\* Every step of a thread preserves the invariant.
LEMMA ThreadStep ==
  ASSUME BatchInv, NEW th \in Threads, Step(th)
  PROVE  BatchInv'
<1>1. CASE LookReturns(th)
  BY <1>1, LookReturnsStep
<1>2. CASE LookClaims(th)
  BY <1>2, LookClaimsStep
<1>3. CASE LookJoins(th)
  BY <1>3, LookJoinsStep
<1>4. CASE JoinEnds(th)
  BY <1>4, JoinEndsStep
<1>5. CASE Rejoin(th)
  BY <1>5, RetryStep, RejoinReturns
<1>6. CASE Acquire(th)
  BY <1>6, AcquireStep
<1>7. CASE Leaf(th)
  BY <1>7, LeafStep
<1>8. CASE End(th)
  BY <1>8, EndStep
<1>9. CASE Demand(th)
  BY <1>9, DemandStep
<1>10. CASE Sequence(th)
  BY <1>10, SequenceEnds, SequencePushes, ZenonT(120)
<1>11. CASE Donate(th)
  BY <1>11, DonateStep
<1>12. CASE Dispatch(th)
  BY <1>12, DispatchStep
<1>13. CASE Lane(th)
  BY <1>13, LaneStep
<1>14. CASE JoinJobs(th)
  BY <1>14, JoinJobsStep
<1>15. CASE Reacquire(th)
  BY <1>15, ReacquireStep
<1>16. CASE Absorb(th)
  BY <1>16, AbsorbStep
<1> QED BY <1>1, <1>2, <1>3, <1>4, <1>5, <1>6, <1>7, <1>8, <1>9, <1>10, <1>11, <1>12, <1>13, <1>14, <1>15, <1>16 DEF Step

\* The invariant is inductive.
LEMMA BatchStep ==
  BatchInv /\ [Next]_vars => BatchInv'
<1> SUFFICES ASSUME BatchInv, [Next]_vars PROVE BatchInv'
  OBVIOUS
<1>1. CASE \E th \in Threads : Step(th)
  BY <1>1, ThreadStep
<1>2. CASE \E w \in Workers : TakeJob(w) \/ WorkerExits(w)
  BY <1>2, TakeJobStep, WorkerExitsStep
<1>3. CASE \E r \in Roots : Cancel(r)
  BY <1>3, CancelStep
<1>4. CASE Shutdown
  BY <1>4, ShutdownStep
<1>5. CASE UNCHANGED vars
  BY <1>5, StutterStep
<1> QED BY <1>1, <1>2, <1>3, <1>4, <1>5 DEF Next

-----------------------------------------------------------------------------
(* The initial states *)

\* Every request has its first frame, and nothing else is there.
LEMMA InitStacks ==
  ASSUME Init
  PROVE  /\ \A t \in Roots : Len(stack[t]) = 1 /\ Fresh(stack[t][1], t, <<t>>, t) /\ stack[t][1] \in FrameRec
         /\ \A w \in Workers : stack[w] = <<>> /\ Len(stack[w]) = 0
         /\ \A t \in Threads : \A i \in 1 .. Len(stack[t]) : i = 1 /\ t \in Roots
         /\ stack \in [Threads -> Seq(FrameRec)]
<1>0. stack = [t \in Threads |-> IF t \in Roots THEN <<Frame(t, <<t>>, t)>> ELSE <<>>]
  BY DEF Init
<1>1. ASSUME NEW t \in Roots PROVE stack[t] = <<Frame(t, <<t>>, t)>>
  <2>1. t \in Threads
    BY Constants
  <2> QED BY <1>0, <2>1, ZenonT(120)
<1>2. \A w \in Workers : stack[w] = <<>>
  BY Constants DEF Init
<1>3. ASSUME NEW t \in Roots
      PROVE  Len(stack[t]) = 1 /\ Fresh(stack[t][1], t, <<t>>, t) /\ stack[t][1] \in FrameRec /\ stack[t] \in Seq(FrameRec)
  <2>1. PICK g : g = Frame(t, <<t>>, t)
    OBVIOUS
  <2>2. stack[t] = <<g>>
    BY <1>1, <2>1
  <2>3. t \in Queries /\ <<t>> \in Tasks
    BY Constants, TaskNames
  <2>4. Fresh(g, t, <<t>>, t) /\ g \in FrameRec
    <3>1. Fresh(Frame(t, <<t>>, t), t, <<t>>, t)
      BY <2>3, NewFrame, Zenon
    <3> QED BY <2>1, <3>1 DEF Fresh
  <2>5. Len(<<g>>) = 1 /\ <<g>>[1] = g /\ <<g>> \in Seq(FrameRec)
    BY <2>4
  <2> QED BY <2>2, <2>4, <2>5
<1>4. \A w \in Workers : Len(stack[w]) = 0 /\ stack[w] \in Seq(FrameRec)
  <2>1. Len(<<>>) = 0 /\ <<>> \in Seq(FrameRec)
    OBVIOUS
  <2> QED BY <1>2, <2>1, ZenonT(120)
<1>5. stack = [t \in Threads |-> stack[t]]
  BY DEF Init
<1>6. stack \in [Threads -> Seq(FrameRec)]
  BY <1>3, <1>4, <1>5 DEF Threads
<1>7. \A t \in Threads : \A i \in 1 .. Len(stack[t]) : i = 1 /\ t \in Roots
  <2> SUFFICES ASSUME NEW t \in Threads, NEW i \in 1 .. Len(stack[t]) PROVE i = 1 /\ t \in Roots
    OBVIOUS
  <2>1. CASE t \in Roots
    <3>1. Len(stack[t]) = 1
      BY <1>3, <2>1
    <3> QED BY <2>1, <3>1
  <2>2. CASE t \in Workers
    <3>1. Len(stack[t]) = 0
      BY <1>4, <2>2
    <3> QED BY <3>1
  <2> QED BY <2>1, <2>2 DEF Threads
<1> QED BY <1>2, <1>3, <1>4, <1>6, <1>7

\* The invariant holds at first.
LEMMA BatchInit ==
  Init => BatchInv
<1> SUFFICES ASSUME Init PROVE BatchInv
  OBVIOUS
<1>1. /\ maximum \in Budgets /\ node = [q \in Queries |-> "none"] /\ owner = [q \in Queries |-> <<>>]
      /\ attempt = [q \in Queries |-> 0] /\ owns = {} /\ used = 0 /\ slots = 0
      /\ batch = [q \in Queries |-> NoBatch] /\ jobs = <<>> /\ born = {} /\ gone = {} /\ open = TRUE
      /\ waits = {} /\ canceled = {} /\ result = [r \in Roots |-> "none"]
  BY DEF Init
<1>2. /\ \A t \in Roots : Len(stack[t]) = 1 /\ Fresh(stack[t][1], t, <<t>>, t) /\ stack[t][1] \in FrameRec
      /\ \A w \in Workers : stack[w] = <<>> /\ Len(stack[w]) = 0
      /\ \A t \in Threads : \A i \in 1 .. Len(stack[t]) : i = 1 /\ t \in Roots
      /\ stack \in [Threads -> Seq(FrameRec)]
  BY InitStacks
<1>3. \A q \in Queries : batch[q].queue = <<>> /\ batch[q].out = 0 /\ batch[q].worst = "ok" /\ batch[q] \in BatchRec
  BY <1>1 DEF NoBatch, BatchRec
<1>4. maximum \in Nat \ {0} /\ Len(jobs) = 0 /\ Cardinality({}) = 0 /\ IsFiniteSet({}) /\ Busy = {}
  BY <1>1, <1>2, Constants, FS_EmptySet DEF Busy
<1>5. \A t \in Roots : /\ stack[t][1].q = t /\ stack[t][1].task = <<t>> /\ stack[t][1].pc = "look"
                       /\ stack[t][1].acquired = FALSE /\ stack[t][1].next = 1 /\ stack[t][1].claim = 0
                       /\ stack[t][1].how = "ok"
  BY <1>2 DEF Fresh
<1>6. Shapes
  <2>1. batch \in [Queries -> BatchRec]
    BY <1>1, <1>3
  <2>2. jobs \in Seq(FrameRec)
    BY <1>1
  <2> QED BY <1>1, <1>2, <2>1, <2>2 DEF Shapes
<1>7. Stacks
  <2> SUFFICES ASSUME NEW t \in Threads PROVE Stacked(t, stack[t])
    BY DEF Stacks
  <2>1. CASE t \in Roots
    <3>1. Len(stack[t]) = 1 /\ 1 .. Len(stack[t]) = {1} /\ 2 .. Len(stack[t]) = {} /\ 1 .. 1 - 1 = {}
      <4>1. Len(stack[t]) = 1
        BY <1>2, <2>1
      <4>2. 1 .. 1 = {1} /\ 2 .. 1 = {} /\ 1 .. 1 - 1 = {}
        OBVIOUS
      <4> QED BY <4>1, <4>2
    <3>2. Local(stack[t][1])
      BY <1>5, <2>1 DEF Local, ClaimPCs
    <3>3. t \notin Workers
      BY <2>1, Constants
    <3>4. \A p, k : stack[t][1].task # <<p, k>>
      BY <1>5, <2>1, Names
    <3> QED BY <1>5, <2>1, <3>1, <3>2, <3>3, <3>4 DEF Stacked
  <2>2. CASE t \in Workers
    <3>1. stack[t] = <<>> /\ 1 .. Len(stack[t]) = {} /\ 2 .. Len(stack[t]) = {}
      BY <1>2, <2>2
    <3> QED BY <3>1 DEF Stacked
  <2> QED BY <2>1, <2>2 DEF Threads
<1>8. Owned
  <2>1. \A t \in Threads : \A i \in 1 .. Len(stack[t]) : ~Owner(stack[t][i])
    BY <1>2, <1>5 DEF Owner, OwnPCs
  <2> QED BY <1>1, <2>1 DEF Owned
<1>9. Single
  <2>1. \A t, u \in Threads : \A i \in 1 .. Len(stack[t]) : \A j \in 1 .. Len(stack[u]) :
          stack[t][i].task = stack[u][j].task /\ stack[t][i].task # <<>> => t = u
    BY <1>2, <1>5, Names
  <2>2. \A q \in Queries : 1 .. Len(batch[q].queue) = {}
    BY <1>3
  <2> QED BY <2>1, <2>2 DEF Single, Indices
<1>10. Permits
  <2>1. ASSUME NEW t \in Threads, NEW i \in 1 .. Len(stack[t]) PROVE Permitted(stack[t], i, owns)
    <3>1. i = 1 /\ t \in Roots
      BY <1>2
    <3>2. First(stack[t], 1)
      BY DEF First
    <3> QED BY <1>1, <1>5, <3>1, <3>2 DEF Permitted, Permit, PermitPCs, OwnPCs
  <2> QED BY <1>1, <1>4, <2>1 DEF Permits
<1>11. Outs
  <2>1. \A q \in Queries : LanesOf(q) = {} /\ JobsOf(q) = {}
    BY <1>1, <1>2 DEF LanesOf, JobsOf
  <2>2. \A t \in Threads : \A i \in 1 .. Len(stack[t]) : Within(stack[t][i], batch[stack[t][i].q].out)
    BY <1>2, <1>5 DEF Within
  <2>3. 1 .. Len(jobs) = {}
    BY <1>4
  <2>4. \A q \in Queries : batch[q].out = Cardinality(LanesOf(q)) + Cardinality(JobsOf(q))
    <3> SUFFICES ASSUME NEW q \in Queries PROVE batch[q].out = Cardinality(LanesOf(q)) + Cardinality(JobsOf(q))
      OBVIOUS
    <3>1. Cardinality(LanesOf(q)) = 0 /\ Cardinality(JobsOf(q)) = 0
      BY <1>4, <2>1
    <3> QED BY <1>3, <3>1
  <2> QED BY <1>3, <2>2, <2>3, <2>4 DEF Outs
<1>12. Slotted
  <2>1. ClaimsOf(stack) = {}
    <3> SUFFICES ASSUME NEW c \in ClaimsOf(stack) PROVE FALSE
      OBVIOUS
    <3>1. PICK t, i, k : t = c[1][1] /\ i = c[1][2] /\ k = c[2]
      OBVIOUS
    <3>2. t \in Threads /\ i \in 1 .. Len(stack[t]) /\ k \in 1 .. stack[t][i].claim
      BY <3>1 DEF ClaimsOf
    <3>3. stack[t][i].claim = 0
      BY <1>2, <1>5, <3>2
    <3> QED BY <3>2, <3>3
  <2>2. SpentOf(stack, batch) = {}
    BY <2>1 DEF SpentOf
  <2>3. Cardinality(ClaimsOf(stack)) = 0 /\ Cardinality(SpentOf(stack, batch)) = 0 /\ Cardinality(Busy) = 0
    BY <1>4, <2>1, <2>2
  <2>4. IsFiniteSet(ClaimsOf(stack))
    BY <1>4, <2>1
  <2> QED BY <1>1, <1>4, <2>3, <2>4 DEF Slotted
<1>13. Manned
  BY <1>1, <1>4 DEF Manned
<1>14. Answers
  <2>1. ASSUME NEW t \in Threads, NEW i \in 1 .. Len(stack[t]) PROVE Answered(stack[t][i], stack, node, batch)
    BY <1>2, <1>5 DEF Answered, BatchPCs, ClaimPCs
  <2> QED BY <1>1, <2>1 DEF Answers, AnswersAreComplete
<1> QED BY <1>6, <1>7, <1>8, <1>9, <1>10, <1>11, <1>12, <1>13, <1>14 DEF BatchInv

\* Every state of the specification satisfies it.
LEMMA BatchAlways ==
  Spec => []BatchInv
BY BatchInit, BatchStep, PTL DEF Spec

-----------------------------------------------------------------------------
(* What the invariant says of the properties *)

\* A frame is a thread and a position of its stack.
LEMMA FramesAre ==
  ASSUME Shapes, NEW x
  PROVE  x \in Frames <=> \E t \in Threads : \E i \in 1 .. Len(stack[t]) : x = <<t, i>>
<1>1. ASSUME NEW t \in Threads PROVE DOMAIN stack[t] = 1 .. Len(stack[t])
  BY DEF Shapes
<1>2. x \in Frames <=> \E t \in Threads : \E i \in DOMAIN stack[t] : x = <<t, i>>
  BY DEF Frames
<1> QED BY <1>1, <1>2

\* The jobs of one batch are among all the jobs, in the channel or on a thread.
LEMMA OutBound ==
  ASSUME BatchInv, NEW q \in Queries
  PROVE  batch[q].out \in 0 .. maximum - 1
<1>0. Shapes /\ Outs /\ Slotted /\ Manned
  BY DEF BatchInv
<1>1. PICK b, j, a, l, s, c, n : /\ b = Cardinality(LanesOf(q)) /\ j = Cardinality(JobsOf(q)) /\ a = Cardinality(Busy)
                                 /\ l = Len(jobs) /\ s = Cardinality(SpentOf(stack, batch))
                                 /\ c = Cardinality(ClaimsOf(stack)) /\ n = maximum
  OBVIOUS
<1>2. b \in Nat /\ j \in Nat /\ a \in Nat /\ l \in Nat /\ IsFiniteSet(Busy)
  BY <1>0, <1>1, Finite
<1>3. b <= a
  <2>1. LanesOf(q) \subseteq Busy
    BY DEF LanesOf, Busy
  <2> QED BY <1>1, <1>2, <2>1, FS_Subset
<1>4. j <= l
  <2>1. JobsOf(q) \subseteq 1 .. l
    BY <1>1 DEF JobsOf
  <2>2. IsFiniteSet(1 .. l) /\ Cardinality(1 .. l) = l
    <3>1. IsFiniteSet(1 .. l) /\ Cardinality(1 .. l) = IF 1 > l THEN 0 ELSE l - 1 + 1
      BY <1>2, FS_Interval
    <3> QED BY <1>2, <3>1
  <2>3. Cardinality(JobsOf(q)) <= Cardinality(1 .. l)
    BY <2>1, <2>2, FS_Subset
  <2> QED BY <1>1, <2>2, <2>3
<1>5. s = l + a /\ c <= n - 1 /\ batch[q].out = b + j
  BY <1>0, <1>1 DEF Slotted, Outs
<1>6. s <= c
  BY <1>0, <1>1, SpentBound DEF Slotted
<1>7. n \in Nat /\ c \in Nat
  <2>1. c \in Nat
    BY <1>0, <1>1, FS_CardinalityType DEF Slotted
  <2> QED BY <1>0, <1>1, <2>1, Constants DEF Shapes
<1>8. s \in Nat
  BY <1>2, <1>5
<1>9. b + j \in 0 .. n - 1
  BY <1>2, <1>3, <1>4, <1>5, <1>6, <1>7, <1>8
<1> QED BY <1>1, <1>5, <1>9

\* The types.
LEMMA BatchTypes ==
  BatchInv => TypeOK
<1> SUFFICES ASSUME BatchInv PROVE TypeOK
  OBVIOUS
<1>0. Shapes /\ Permits /\ Slotted /\ Outs /\ Manned
  BY DEF BatchInv
<1>1. \A th \in Threads : \A i \in DOMAIN stack[th] :
        /\ stack[th][i].q \in Queries /\ stack[th][i].task \in Tasks \cup {<<>>}
        /\ stack[th][i].pc \in PCs /\ stack[th][i].claim \in Nat
  <2> SUFFICES ASSUME NEW th \in Threads, NEW i \in DOMAIN stack[th] PROVE stack[th][i] \in FrameRec
    BY DEF FrameRec
  <2> QED BY <1>0 DEF Shapes
<1>2. \A i \in DOMAIN jobs : jobs[i].q \in Queries
  <2> SUFFICES ASSUME NEW i \in DOMAIN jobs PROVE jobs[i] \in FrameRec
    BY DEF FrameRec
  <2> QED BY <1>0 DEF Shapes
<1>3. maximum \in Nat
  BY <1>0, Constants DEF Shapes
<1>4. used \in 0 .. maximum
  BY <1>0, <1>3, FS_CardinalityType DEF Permits
<1>5. slots \in 0 .. maximum - 1
  BY <1>0, <1>3, FS_CardinalityType DEF Slotted
<1>6. \A q \in Queries : batch[q].out \in 0 .. maximum - 1
  BY OutBound
<1> QED BY <1>0, <1>1, <1>2, <1>4, <1>5, <1>6 DEF TypeOK, Shapes

\* A frame that is not a worker's lane has a task.
LEMMA Tasked ==
  ASSUME BatchInv, NEW t \in Threads, NEW i \in 1 .. Len(stack[t])
  PROVE  stack[t][i].task # <<>> \/ (t \in Workers /\ i = 1 /\ stack[t][i].pc = "lane")
<1>0. Shapes /\ Stacked(t, stack[t]) /\ Len(stack[t]) \in Nat
  BY DEF BatchInv, Stacks, Shapes
<1>1. CASE i = 1
  <2>1. stack[t] # <<>>
    <3>1. Len(stack[t]) # 0 /\ Len(<<>>) = 0
      BY <1>0
    <3> QED BY <3>1
  <2>2. IF t \in Workers THEN Lane0(stack[t][1]) ELSE stack[t][1].task = <<t>>
    BY <1>0, <2>1 DEF Stacked
  <2> QED BY <1>1, <2>2, Names DEF Lane0
<1>2. CASE i # 1
  <2>1. i \in 2 .. Len(stack[t])
    BY <1>0, <1>2
  <2> QED BY <1>0, <2>1 DEF Stacked
<1> QED BY <1>1, <1>2

\* Permits.
LEMMA BatchPermits ==
  BatchInv => BodiesHavePermits
<1> SUFFICES ASSUME BatchInv PROVE BodiesHavePermits
  OBVIOUS
<1>0. Shapes /\ Permits
  BY DEF BatchInv
<1>1. ASSUME NEW x \in Frames, FrameAt(x).pc \in {"body", "sequence", "donate", "absorb"}, x[2] = Len(stack[x[1]])
      PROVE  FrameAt(x).task \in owns
  <2>1. PICK t \in Threads : \E i \in 1 .. Len(stack[t]) : x = <<t, i>>
    BY <1>0, FramesAre
  <2>2. PICK i \in 1 .. Len(stack[t]) : x = <<t, i>>
    BY <2>1
  <2>3. x[1] = t /\ x[2] = i /\ FrameAt(x) = stack[t][i]
    BY <2>2 DEF FrameAt
  <2>4. i = Len(stack[t]) /\ Len(stack[t]) \in Nat
    BY <1>0, <1>1, <2>3 DEF Shapes
  <2>5. Last(stack[t], i)
    BY <2>4 DEF Last
  <2>6. stack[t][i].task # <<>>
    BY <1>1, <2>3, Tasked
  <2>7. Permitted(stack[t], i, owns)
    BY <1>0 DEF Permits
  <2> QED BY <1>1, <2>3, <2>5, <2>6, <2>7 DEF Permitted, Permit
<1>2. ASSUME NEW task \in owns PROVE \E x \in Frames : FrameAt(x).task = task /\ FrameAt(x).acquired
  <2>1. PICK t \in Threads : \E i \in 1 .. Len(stack[t]) : stack[t][i].task = task /\ stack[t][i].acquired
    BY <1>0 DEF Permits
  <2>2. PICK i \in 1 .. Len(stack[t]) : stack[t][i].task = task /\ stack[t][i].acquired
    BY <2>1
  <2>3. PICK x : x = <<t, i>>
    OBVIOUS
  <2>4. x \in Frames
    BY <1>0, <2>3, FramesAre
  <2>5. FrameAt(x) = stack[t][i]
    BY <2>3 DEF FrameAt
  <2> QED BY <2>2, <2>4, <2>5
<1>3. used = Cardinality(owns)
  BY <1>0 DEF Permits
<1> QED BY <1>1, <1>2, <1>3, BatchTypes DEF BodiesHavePermits

\* Slots and threads.
LEMMA BatchThreads ==
  BatchInv => JobsHaveThreads
<1> SUFFICES ASSUME BatchInv PROVE JobsHaveThreads
  OBVIOUS
<1>0. Shapes /\ Slotted /\ Manned
  BY DEF BatchInv
<1>1. ASSUME NEW c PROVE c \in Claimed <=> \E t \in Threads : \E i \in 1 .. Len(stack[t]) :
                                             \E k \in 1 .. stack[t][i].claim : c = <<<<t, i>>, k>>
  <2>1. c \in Claimed <=> \E x \in Frames : \E k \in 1 .. FrameAt(x).claim : c = <<x, k>>
    BY DEF Claimed
  <2>2. \A t, i : FrameAt(<<t, i>>) = stack[t][i]
    BY DEF FrameAt
  <2>3. \A x : x \in Frames <=> \E t \in Threads : \E i \in 1 .. Len(stack[t]) : x = <<t, i>>
    BY <1>0, FramesAre
  <2>4. ASSUME NEW x \in Frames, NEW k \in 1 .. FrameAt(x).claim, c = <<x, k>>
        PROVE  \E t \in Threads : \E i \in 1 .. Len(stack[t]) : \E n \in 1 .. stack[t][i].claim : c = <<<<t, i>>, n>>
    <3>1. PICK t \in Threads : \E i \in 1 .. Len(stack[t]) : x = <<t, i>>
      BY <2>3
    <3>2. PICK i \in 1 .. Len(stack[t]) : x = <<t, i>>
      BY <3>1
    <3>3. k \in 1 .. stack[t][i].claim /\ c = <<<<t, i>>, k>>
      BY <2>2, <2>4, <3>2
    <3> QED BY <3>3
  <2>5. ASSUME NEW t \in Threads, NEW i \in 1 .. Len(stack[t]), NEW k \in 1 .. stack[t][i].claim, c = <<<<t, i>>, k>>
        PROVE  \E x \in Frames : \E n \in 1 .. FrameAt(x).claim : c = <<x, n>>
    <3>1. <<t, i>> \in Frames /\ k \in 1 .. FrameAt(<<t, i>>).claim
      BY <2>2, <2>3
    <3> QED BY <2>5, <3>1
  <2> QED BY <2>1, <2>4, <2>5, ZenonT(120)
<1>2. ASSUME NEW t \in Threads PROVE Len(stack[t]) \in Nat /\ \A i \in 1 .. Len(stack[t]) : stack[t][i].claim \in Nat
  <2>1. stack[t] \in Seq(FrameRec)
    BY <1>0 DEF Shapes
  <2>2. \A i \in 1 .. Len(stack[t]) : stack[t][i] \in FrameRec
    BY <2>1
  <2> QED BY <2>1, <2>2 DEF FrameRec
<1>3. Claimed \in SUBSET ((Threads \X Nat) \X Nat)
  <2> SUFFICES ASSUME NEW c \in Claimed PROVE c \in (Threads \X Nat) \X Nat
    OBVIOUS
  <2>1. PICK t \in Threads : \E i \in 1 .. Len(stack[t]) : \E k \in 1 .. stack[t][i].claim : c = <<<<t, i>>, k>>
    BY <1>1
  <2>2. PICK i \in 1 .. Len(stack[t]) : \E k \in 1 .. stack[t][i].claim : c = <<<<t, i>>, k>>
    BY <2>1
  <2>3. PICK k \in 1 .. stack[t][i].claim : c = <<<<t, i>>, k>>
    BY <2>2
  <2>4. i \in Nat /\ k \in Nat
    BY <1>2
  <2> QED BY <2>3, <2>4
<1>4. ClaimsOf(stack) \in SUBSET ((Threads \X Nat) \X Nat)
  BY DEF ClaimsOf
<1>5. ASSUME NEW t \in Threads, NEW i \in Nat, NEW k \in Nat
      PROVE  <<<<t, i>>, k>> \in Claimed <=> <<<<t, i>>, k>> \in ClaimsOf(stack)
  <2>1. <<<<t, i>>, k>> \in Claimed <=> i \in 1 .. Len(stack[t]) /\ k \in 1 .. stack[t][i].claim
    <3>1. \A u, j, n : <<<<t, i>>, k>> = <<<<u, j>>, n>> => t = u /\ i = j /\ k = n
      BY Names
    <3> QED BY <1>1, <3>1, Zenon
  <2>2. <<<<t, i>>, k>> \in ClaimsOf(stack) <=> i \in 1 .. Len(stack[t]) /\ k \in 1 .. stack[t][i].claim
    BY DEF ClaimsOf
  <2> QED BY <2>1, <2>2
<1>6. Claimed = ClaimsOf(stack)
  BY <1>3, <1>4, <1>5, ClaimsEqual, Zenon
<1>7. Len(jobs) <= Cardinality({w \in born \ gone : stack[w] = <<>>})
  <2>1. PICK I : I = {w \in born \ gone : stack[w] = <<>>}
    OBVIOUS
  <2>2. I \subseteq born /\ IsFiniteSet(born) /\ Busy \subseteq born
    BY <1>0, <2>1 DEF Manned
  <2>3. IsFiniteSet(I) /\ IsFiniteSet(Busy)
    BY <2>2, FS_Subset
  <2>4. Cardinality(I) \in Nat /\ Cardinality(born) \in Nat /\ Cardinality(Busy) \in Nat
    BY <2>2, <2>3, FS_CardinalityType
  <2>5. Len(jobs) \in Nat
    BY <1>0 DEF Shapes
  <2>6. CASE gone # {}
    <3>1. jobs = <<>> /\ Len(<<>>) = 0
      BY <1>0, <2>6 DEF Manned
    <3> QED BY <2>1, <2>4, <3>1
  <2>7. CASE gone = {}
    <3>1. I = born \ Busy
      BY <1>0, <2>1, <2>7 DEF Busy, Shapes
    <3>2. Cardinality(born \ Busy) = Cardinality(born) - Cardinality(born \cap Busy)
      BY <2>2, FS_Difference
    <3>3. born \cap Busy = Busy
      BY <2>2
    <3>4. Cardinality(I) = Cardinality(born) - Cardinality(Busy)
      BY <3>1, <3>2, <3>3
    <3>5. Len(jobs) + Cardinality(Busy) <= Cardinality(born)
      BY <1>0, <2>7 DEF Manned
    <3> QED BY <2>1, <2>4, <2>5, <3>4, <3>5
  <2> QED BY <2>6, <2>7
<1> QED BY <1>0, <1>6, <1>7 DEF JobsHaveThreads, Slotted

\* A batch with a frame of its parent in it is in scope.
LEMMA ParentInScope ==
  ASSUME Shapes, NEW p, NEW u \in Threads, NEW n \in 1 .. Len(stack[u]),
         stack[u][n].q = p, stack[u][n].task # <<>>, stack[u][n].pc \in ScopePCs
  PROVE  InScope(p)
<1>1. PICK y : y = <<u, n>>
  OBVIOUS
<1>2. y \in Frames /\ FrameAt(y) = stack[u][n]
  BY <1>1, FramesAre DEF FrameAt
<1> QED BY <1>2 DEF InScope, ScopePCs

\* A batch with a job out, in a lane or in the channel, is in scope.
LEMMA OutInScope ==
  ASSUME Shapes, Stacks, Outs, Manned, NEW p \in Queries, LanesOf(p) # {} \/ JobsOf(p) # {}
  PROVE  InScope(p)
<1>1. /\ IsFiniteSet(LanesOf(p)) /\ Cardinality(LanesOf(p)) \in Nat
      /\ IsFiniteSet(JobsOf(p)) /\ Cardinality(JobsOf(p)) \in Nat
  BY Finite
<1>2. Cardinality(LanesOf(p)) # 0 \/ Cardinality(JobsOf(p)) # 0
  BY <1>1, FS_EmptySet
<1>3. batch[p].out = Cardinality(LanesOf(p)) + Cardinality(JobsOf(p))
  BY DEF Outs
<1>4. batch[p].out > 0
  BY <1>1, <1>2, <1>3
<1>5. PICK u \in Threads : \E n \in 1 .. Len(stack[u]) :
         stack[u][n].q = p /\ stack[u][n].task # <<>> /\ stack[u][n].pc \in ScopePCs
  BY <1>4 DEF Outs
<1>6. PICK n \in 1 .. Len(stack[u]) : stack[u][n].q = p /\ stack[u][n].task # <<>> /\ stack[u][n].pc \in ScopePCs
  BY <1>5
<1> QED BY <1>6, ParentInScope

\* Scopes.
LEMMA BatchScopes ==
  BatchInv => BatchesAreScopes
<1> SUFFICES ASSUME BatchInv PROVE BatchesAreScopes
  OBVIOUS
<1>0. Shapes /\ Stacks /\ Outs /\ Manned
  BY DEF BatchInv
<1>1. ASSUME NEW t \in Threads, NEW j \in 1 .. Len(stack[t]), stack[t][j].task = <<>>
      PROVE  InScope(stack[t][j].q)
  <2>1. t \in Workers /\ j = 1
    BY <1>0, <1>1, Tasked
  <2>2. stack[t] # <<>>
    <3>1. Len(stack[t]) # 0 /\ Len(<<>>) = 0
      BY <1>0 DEF Shapes
    <3> QED BY <3>1
  <2>3. stack[t][j].q \in Queries
    <3>1. stack[t][j] \in FrameRec
      BY <1>0 DEF Shapes
    <3> QED BY <3>1 DEF FrameRec
  <2>4. t \in LanesOf(stack[t][j].q)
    BY <2>1, <2>2 DEF LanesOf
  <2> QED BY <1>0, <2>3, <2>4, OutInScope
<1>2. ASSUME NEW t \in Threads, NEW i \in 1 .. Len(stack[t]),
             stack[t][i].task \notin {<<>>} \cup {<<r>> : r \in Roots}
      PROVE  InScope(stack[t][i].task[1])
  <2>1. stack[t][i].task \in Tasks
    <3>1. stack[t][i] \in FrameRec
      BY <1>0 DEF Shapes
    <3> QED BY <1>2, <3>1 DEF FrameRec
  <2>2. PICK p \in Queries : stack[t][i].task \in Items(p)
    BY <1>2, <2>1 DEF Tasks
  <2>3. PICK k \in DOMAIN Demands[p] : stack[t][i].task = <<p, k>>
    BY <2>2 DEF Items
  <2>4. k \in Nat /\ stack[t][i].task[1] = p
    BY <2>3, Constants
  <2>5. PICK j \in 1 .. i - 1 : stack[t][j].pc = "lane" /\ stack[t][j].q = p
    BY <1>0, <2>3, <2>4 DEF Stacks, Stacked
  <2>6. j \in 1 .. Len(stack[t]) /\ Len(stack[t]) \in Nat
    BY <1>0 DEF Shapes
  <2>7. CASE stack[t][j].task # <<>>
    <3>1. stack[t][j].pc \in ScopePCs
      BY <2>5 DEF ScopePCs
    <3> QED BY <1>0, <2>4, <2>5, <2>6, <2>7, <3>1, ParentInScope
  <2>8. CASE stack[t][j].task = <<>>
    BY <1>1, <2>4, <2>5, <2>6, <2>8
  <2> QED BY <2>7, <2>8
<1>3. ASSUME NEW x \in Frames
      PROVE  \E t \in Threads : \E i \in 1 .. Len(stack[t]) : FrameAt(x) = stack[t][i]
  <2>1. PICK t \in Threads : \E i \in 1 .. Len(stack[t]) : x = <<t, i>>
    BY <1>0, <1>3, FramesAre
  <2> QED BY <2>1 DEF FrameAt
<1>4. ASSUME NEW i \in DOMAIN jobs PROVE InScope(jobs[i].q)
  <2>1. jobs \in Seq(FrameRec) /\ DOMAIN jobs = 1 .. Len(jobs)
    BY <1>0 DEF Shapes
  <2>2. jobs[i] \in FrameRec
    BY <1>4, <2>1
  <2>3. jobs[i].q \in Queries
    BY <2>2 DEF FrameRec
  <2>4. i \in JobsOf(jobs[i].q)
    BY <1>4, <2>1 DEF JobsOf
  <2> QED BY <1>0, <2>3, <2>4, OutInScope
<1> QED BY <1>1, <1>2, <1>3, <1>4 DEF BatchesAreScopes

-----------------------------------------------------------------------------
(* Theorems *)

\* Bodies run only with a permit of their task, permits in use are exactly those
\* that tasks own, at most `maximum' at a time, and each is held for a frame that
\* acquired it (acquire_permit, release_permit, ParentPermitDonation), whatever
\* joins, batches, panics and cancellations come between. With it, every variable
\* has its type.
THEOREM PermitsAreExact ==
  Spec => []BodiesHavePermits
BY BatchAlways, BatchPermits, PTL

\* The slots taken are those that batches under way have claimed, and a job in
\* the executor's channel finds an idle worker (BatchWorkerClaim, submit): no
\* batch waits for a thread that another batch holds.
THEOREM JobsFindThreads ==
  Spec => []JobsHaveThreads
BY BatchAlways, BatchThreads, PTL

\* While an item of a batch is evaluated, a worker is in one of its lanes or a job
\* of it is in the channel, its parent is in the batch (query_registered_batch,
\* StructuredWaitGuard).
THEOREM ItemsRunInScope ==
  Spec => []BatchesAreScopes
BY BatchAlways, BatchScopes, PTL

\* A query with a terminal has the terminals of all it demanded, in sequence or
\* through a batch (run_registered_batch_worker, the absorption of its results).
THEOREM TerminalsRestOnTerminals ==
  Spec => []AnswersAreComplete
<1>1. BatchInv => AnswersAreComplete
  BY DEF BatchInv, Answers
<1> QED BY <1>1, BatchAlways, PTL
=============================================================================
