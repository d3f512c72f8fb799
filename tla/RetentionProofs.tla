--------------------------- MODULE RetentionProofs ---------------------------
(* The sweep's claim is a lock, the families' counters are exact and every family
   that is over its limit has somebody left to enforce it, for any number of
   workers, families, terminals and pins. *)
EXTENDS Retention, FiniteSetTheorems, SequenceTheorems, WellFoundedInduction, TLAPS

\* Every leaf may take its time.
USE SMTT(120), ZenonT(120)

PCs == {"idle", "enqueue", "count", "watermark", "release", "families", "over", "evict", "rearm",
        "probe", "measure", "request", "claim", "reclaim", "clear", "sweep", "round", "pass",
        "settle", "check", "unclaim", "recheck"}
Thens == {"idle", "probe", "families"}

Record ==
  [pc : PCs, held : SUBSET Nat, due : SUBSET Families, fam : Families, margin : {1, Quantum},
   then : Thens, total : Int, start : Int, offset : Int, progress : BOOLEAN]

Shared ==
  /\ home \in Seq(Families) /\ Len(home) <= MaxPublished
  /\ queue \in [Families -> Seq(Nat)]
  /\ retained_count \in [Families -> Int]
  /\ next_publish_sweep \in [Families -> Nat \ {0}]
  /\ pending \in BOOLEAN /\ claimed \in BOOLEAN
  /\ cursor \in Families /\ next_sweep \in Nat

Shapes == Shared /\ workers \in [Workers -> Record]

\* A terminal of family f is in f's queue at most once.
Queued ==
  \A f \in Families :
    /\ \A i \in 1 .. Len(queue[f]) : queue[f][i] \in 1 .. Len(home) /\ home[queue[f][i]] = f
    /\ \A i, j \in 1 .. Len(queue[f]) : queue[f][i] = queue[f][j] => i = j

\* A publisher about to enqueue has a terminal that no queue has and nobody else
\* enqueues, and is bound to enforce its family's limit.
Publishing ==
  /\ \A w \in Workers : At(w, "enqueue") =>
       /\ workers[w].total \in 1 .. Len(home) /\ home[workers[w].total] = workers[w].fam
       /\ \A f \in Families : \A i \in 1 .. Len(queue[f]) : queue[f][i] # workers[w].total
       /\ workers[w].total \in workers[w].held \/ workers[w].fam \in workers[w].due
  /\ \A v, w \in Workers :
       At(v, "enqueue") /\ At(w, "enqueue") /\ workers[v].total = workers[w].total => v = w

HeldPublished == \A w \in Workers : workers[w].held \subseteq 1 .. Len(home)

Publishers(f) == {w \in Workers : At(w, "enqueue") /\ workers[w].fam = f}

Counted ==
  \A f \in Families :
    /\ retained_count[f] = Len(queue[f]) + Cardinality(Publishers(f))
    /\ retained_count[f] <= Len(home)

\* Somebody protects a terminal of f, owes f a pass or is in one.
Bound(w, f) ==
  \/ \E id \in workers[w].held : home[id] = f
  \/ f \in workers[w].due
  \/ workers[w].pc \in {"over", "evict"} /\ workers[w].fam = f

Owed == \A f \in Families : retained_count[f] > Limit[f] => \E w \in Workers : Bound(w, f)

RetentionInv ==
  Shapes /\ Queued /\ Publishing /\ HeldPublished /\ Counted /\ SweepExclusive /\ Owed

-----------------------------------------------------------------------------
(* Numbers, sequences and records *)

\* What holds of the constants.
LEMMA Constants ==
  /\ IsFiniteSet(Workers) /\ FamilyCount \in Nat \ {0} /\ 1 \in Families
  /\ \A f \in Families : Limit[f] \in Nat /\ f \in Nat
  /\ Budget \in Nat /\ MaxPublished \in Nat /\ Quantum \in Nat \ {0} /\ Never \in Nat \ {0}
  BY RetentionAssumption DEF Families

\* A set of natural numbers that is not empty has a least element.
LEMMA LeastIsIn ==
  ASSUME NEW S \in SUBSET Nat, S # {}
  PROVE  Min(S) \in S
<1> DEFINE R == {ss \in Nat \X Nat : ss[1] < ss[2]}
<1>1. IsWellFoundedOn(R, Nat)
  BY NatLessThanWellFounded, Zenon DEF OpToRel
<1>2. \A x, y \in Nat : x < y => <<x, y>> \in R
  OBVIOUS
<1> HIDE DEF R
<1>3. PICK x \in S : \A y \in S : ~(<<y, x>> \in R)
  BY <1>1, WFMin
<1>4. \A y \in S : x =< y
  <2> TAKE y \in S
  <2>1. x \in Nat /\ y \in Nat /\ ~(y < x)
    BY <1>2, <1>3
  <2> QED BY <2>1
<1> QED BY <1>3, <1>4 DEF Min

\* What all families retain is a number.
LEMMA ChargeIsNat == Charge \in Nat
<1>1. IsFiniteSet(Families) /\ IsFiniteSet(Terminals)
  BY FS_Interval, Constants DEF Families, Terminals
<1>2. IsFiniteSet(Families \X Terminals)
  BY <1>1, FS_Product
<1> DEFINE S == {x \in Families \X Terminals : x[2] <= Len(queue[x[1]])}
<1>3. S \in SUBSET (Families \X Terminals)
  OBVIOUS
<1>4. IsFiniteSet(S)
  BY <1>2, <1>3, FS_Subset
<1> QED BY <1>4, FS_CardinalityType DEF Charge

\* Evicting the k-th entry: the others stay, from one position each.
LEMMA EvictedQueue ==
  ASSUME NEW s \in Seq(Nat), NEW k \in 1 .. Len(s)
  PROVE  LET t == SubSeq(s, k + 1, Len(s)) \o SubSeq(s, 1, k - 1)
         IN /\ t \in Seq(Nat) /\ Len(t) = Len(s) - 1
            /\ \A i \in 1 .. Len(t) :
                 t[i] = s[IF i <= Len(s) - k THEN k + i ELSE i - (Len(s) - k)]
<1> DEFINE n == Len(s)
           a == SubSeq(s, k + 1, n)
           b == SubSeq(s, 1, k - 1)
<1>1. n \in Nat /\ k \in Nat /\ k >= 1 /\ k <= n
  OBVIOUS
<1>2. \A i \in 1 .. n : s[i] \in Nat
  OBVIOUS
<1> HIDE DEF n
<1>3. /\ k + 1 \in Int /\ k - 1 \in Int /\ n \in Int
      /\ \A i \in k + 1 .. n : s[i] \in Nat
      /\ \A i \in 1 .. k - 1 : s[i] \in Nat
  BY <1>1, <1>2
<1>4. /\ a \in Seq(Nat) /\ Len(a) = (IF k + 1 <= n THEN n - (k + 1) + 1 ELSE 0)
      /\ \A i \in 1 .. n - (k + 1) + 1 : a[i] = s[(k + 1) + i - 1]
  BY <1>3, SubSeqProperties
<1>5. /\ b \in Seq(Nat) /\ Len(b) = (IF 1 <= k - 1 THEN (k - 1) - 1 + 1 ELSE 0)
      /\ \A i \in 1 .. (k - 1) - 1 + 1 : b[i] = s[1 + i - 1]
  BY <1>3, SubSeqProperties
<1> HIDE DEF a, b
<1>6. Len(a) = n - k /\ \A i \in 1 .. n - k : a[i] = s[k + i]
  BY <1>1, <1>4
<1>7. Len(b) = k - 1 /\ \A i \in 1 .. k - 1 : b[i] = s[i]
  BY <1>1, <1>5
<1>8. /\ a \o b \in Seq(Nat) /\ Len(a \o b) = Len(a) + Len(b)
      /\ \A i \in 1 .. Len(a) + Len(b) : (a \o b)[i] = IF i <= Len(a) THEN a[i] ELSE b[i - Len(a)]
  BY <1>4, <1>5, ConcatProperties
<1> DEFINE t == a \o b
<1> HIDE DEF t
<1>9. t \in Seq(Nat) /\ Len(t) = n - 1
  BY <1>1, <1>6, <1>7, <1>8 DEF t
<1>10. ASSUME NEW i \in 1 .. n - 1
       PROVE  t[i] = s[IF i <= n - k THEN k + i ELSE i - (n - k)]
  <2>1. t[i] = IF i <= n - k THEN a[i] ELSE b[i - (n - k)]
    BY <1>1, <1>6, <1>7, <1>8 DEF t
  <2>2. CASE i <= n - k
    <3>1. i \in 1 .. n - k
      BY <1>1, <2>2
    <3> QED BY <1>6, <2>1, <2>2, <3>1
  <2>3. CASE ~(i <= n - k)
    <3>1. i - (n - k) \in 1 .. k - 1
      BY <1>1, <2>3
    <3> QED BY <1>7, <2>1, <2>3, <3>1
  <2> QED BY <2>2, <2>3
<1> QED BY <1>9, <1>10 DEF t, a, b, n

\* The step of worker w: the others stay where they are.
Moves(w, pc, held, due) ==
  /\ workers' \in [Workers -> Record]
  /\ \A v \in Workers \ {w} : workers'[v] = workers[v]
  /\ workers'[w].pc = pc /\ workers'[w].held = held /\ workers'[w].due = due

\* Goto keeps what the request owns, and the locals unless the worker is back in
\* its request.
LEMMA GotoEffect ==
  ASSUME Shapes, NEW w \in Workers, NEW pc \in PCs, workers' = Goto(w, pc)
  PROVE  /\ Moves(w, pc, workers[w].held, workers[w].due)
         /\ pc # "idle" => workers'[w].fam = workers[w].fam
<1> DEFINE me == workers[w]
           back == [Idle EXCEPT !.held = me.held, !.due = me.due]
           on == [me EXCEPT !.pc = pc]
<1>1. me \in Record
  BY DEF Shapes
<1>2. Idle \in Record
  BY Constants DEF Idle, Record, PCs, Thens
<1>3. Idle.pc = "idle"
  BY DEF Idle
<1>4. workers' = [workers EXCEPT ![w] = IF pc = "idle" THEN back ELSE on]
  BY DEF Goto, Locals
<1>5. me.held \in SUBSET Nat /\ me.due \in SUBSET Families
  BY <1>1 DEF Record
<1> HIDE DEF me
<1>6. on \in Record /\ on.pc = pc /\ on.held = me.held /\ on.due = me.due /\ on.fam = me.fam
  BY <1>1 DEF Record
<1>7. back \in Record /\ back.pc = "idle" /\ back.held = me.held /\ back.due = me.due
  BY <1>2, <1>3, <1>5 DEF Record
<1> HIDE DEF back, on
<1> QED BY <1>4, <1>6, <1>7 DEF Moves, Shapes, me


-----------------------------------------------------------------------------
(* What a step of one worker leaves true *)

SweepPCs == {"clear", "sweep", "round", "pass", "settle", "check", "unclaim"}

\* The worker keeps its side of the claim, takes it while it is free, or gives it up.
ClaimStep(w, pc) ==
  \/ claimed' = claimed /\ (Sweeping(w) <=> pc \in SweepPCs)
  \/ claimed = FALSE /\ claimed' = TRUE /\ pc \in SweepPCs
  \/ Sweeping(w) /\ pc \notin SweepPCs /\ claimed' = FALSE

\* The claim stays a lock.
LEMMA KeepSweep ==
  ASSUME Shapes, SweepExclusive, NEW w \in Workers, NEW pc, NEW held, NEW due,
         Moves(w, pc, held, due), ClaimStep(w, pc)
  PROVE  SweepExclusive'
<1>1. \A v \in Workers \ {w} : Sweeping(v)' <=> Sweeping(v)
  BY DEF Moves, Sweeping
<1>2. Sweeping(w)' <=> pc \in SweepPCs
  BY DEF Moves, Sweeping, SweepPCs
<1>3. claimed \in BOOLEAN
  BY DEF Shapes, Shared
<1>4. CASE claimed' = claimed /\ (Sweeping(w) <=> pc \in SweepPCs)
  BY <1>1, <1>2, <1>3, <1>4, Zenon DEF SweepExclusive
<1>5. CASE claimed = FALSE /\ claimed' = TRUE /\ pc \in SweepPCs
  BY <1>1, <1>2, <1>5 DEF SweepExclusive
<1>6. CASE Sweeping(w) /\ pc \notin SweepPCs /\ claimed' = FALSE
  BY <1>1, <1>2, <1>6 DEF SweepExclusive
<1> QED BY <1>4, <1>5, <1>6 DEF ClaimStep

\* A step that neither publishes, enqueues nor evicts keeps the accounts.
LEMMA KeepAccounts ==
  ASSUME Queued, Publishing, HeldPublished, Counted, NEW w \in Workers, NEW pc, NEW held, NEW due,
         Moves(w, pc, held, due), ~At(w, "enqueue"), pc # "enqueue", held \subseteq 1 .. Len(home),
         home' = home, queue' = queue, retained_count' = retained_count
  PROVE  Queued' /\ Publishing' /\ HeldPublished' /\ Counted'
<1>1. \A v \in Workers : At(v, "enqueue")' <=> At(v, "enqueue")
  BY DEF Moves, At
<1>2. \A v \in Workers : At(v, "enqueue") => workers'[v] = workers[v]
  BY DEF Moves, At
<1>3. Queued'
  BY DEF Queued
<1>4. Publishing'
  BY <1>1, <1>2 DEF Publishing
<1>5. HeldPublished'
  BY DEF HeldPublished, Moves
<1>6. \A f \in Families : Publishers(f)' = Publishers(f)
  BY <1>1, <1>2 DEF Publishers
<1>7. Counted'
  BY <1>6 DEF Counted
<1> QED BY <1>3, <1>4, <1>5, <1>7

\* Whatever only another worker is bound to do stays owed.
LEMMA KeepOwed ==
  ASSUME Owed, NEW w \in Workers, NEW pc, NEW held, NEW due, Moves(w, pc, held, due),
         home' = home,
         \A f \in Families : retained_count'[f] > Limit[f] => retained_count[f] > Limit[f],
         \A f \in Families : retained_count'[f] > Limit[f] /\ Bound(w, f) =>
                               \E v \in Workers : Bound(v, f)'
  PROVE  Owed'
<1> SUFFICES ASSUME NEW f \in Families, retained_count'[f] > Limit[f]
             PROVE  \E v \in Workers : Bound(v, f)'
  BY DEF Owed
<1>1. PICK v \in Workers : Bound(v, f)
  BY DEF Owed
<1>2. CASE v = w
  BY <1>1, <1>2
<1>3. CASE v # w
  <2>1. workers'[v] = workers[v]
    BY <1>3 DEF Moves
  <2>2. Bound(v, f)'
    BY <1>1, <2>1 DEF Bound
  <2> QED BY <2>2
<1> QED BY <1>2, <1>3

\* A step that only moves a worker on, outside a pass over its family.
LEMMA QuietStep ==
  ASSUME RetentionInv, NEW w \in Workers, NEW pc, Moves(w, pc, workers[w].held, workers[w].due),
         ClaimStep(w, pc), Shared', home' = home, queue' = queue, retained_count' = retained_count,
         ~At(w, "enqueue"), pc # "enqueue", ~At(w, "over"), ~At(w, "evict")
  PROVE  RetentionInv'
<1>1. workers[w].held \subseteq 1 .. Len(home)
  BY DEF RetentionInv, HeldPublished
<1>2. Shapes'
  BY DEF Shapes, Moves
<1>3. SweepExclusive'
  BY KeepSweep DEF RetentionInv
<1>4. Queued' /\ Publishing' /\ HeldPublished' /\ Counted'
  BY <1>1, KeepAccounts DEF RetentionInv
<1>5. ASSUME NEW f \in Families, Bound(w, f)
      PROVE  Bound(w, f)'
  BY <1>5 DEF Bound, Moves, At
<1>6. Owed'
  <2>1. Owed
    BY DEF RetentionInv
  <2>2. \A f \in Families : retained_count'[f] > Limit[f] /\ Bound(w, f) => \E v \in Workers : Bound(v, f)'
    BY <1>5
  <2> QED BY <2>1, <2>2, KeepOwed
<1> QED BY <1>2, <1>3, <1>4, <1>6 DEF RetentionInv

-----------------------------------------------------------------------------
(* The actions that only move a worker on *)

\* A worker that goes on by Goto, outside a pass over its family.
LEMMA QuietGoto ==
  ASSUME RetentionInv, NEW w \in Workers, NEW pc \in PCs, workers' = Goto(w, pc),
         ClaimStep(w, pc), Shared', home' = home, queue' = queue, retained_count' = retained_count,
         ~At(w, "enqueue"), pc # "enqueue", ~At(w, "over"), ~At(w, "evict")
  PROVE  RetentionInv'
<1>1. Moves(w, pc, workers[w].held, workers[w].due)
  BY GotoEffect DEF RetentionInv
<1> QED BY <1>1, QuietStep

\* EndRequest, Released and FamiliesEnforced.
LEMMA RequestSteps ==
  ASSUME RetentionInv, NEW w \in Workers, EndRequest(w) \/ Released(w) \/ FamiliesEnforced(w)
  PROVE  RetentionInv'
<1>1. Shared'
  BY DEF RetentionInv, Shapes, Shared, EndRequest, Released, FamiliesEnforced, shared
<1>2. PICK pc \in {"release", "idle", "families", "measure"} :
        workers' = Goto(w, pc) /\ (At(w, "idle") \/ At(w, "release") \/ At(w, "families"))
  BY DEF EndRequest, Released, FamiliesEnforced
<1>3. /\ pc \in PCs /\ pc # "enqueue"
      /\ ~At(w, "enqueue") /\ ~At(w, "over") /\ ~At(w, "evict")
  BY <1>2 DEF At, PCs
<1>4. home' = home /\ queue' = queue /\ retained_count' = retained_count /\ claimed' = claimed
  BY DEF EndRequest, Released, FamiliesEnforced, shared
<1>5. ClaimStep(w, pc)
  BY <1>2, <1>4 DEF ClaimStep, Sweeping, SweepPCs, At
<1> QED BY <1>1, <1>2, <1>3, <1>4, <1>5, QuietGoto

\* ClaimWatermark and Rearm.
LEMMA WatermarkSteps ==
  ASSUME RetentionInv, NEW w \in Workers, ClaimWatermark(w) \/ Rearm(w)
  PROVE  RetentionInv'
<1>1. workers[w] \in Record
  BY DEF RetentionInv, Shapes
<1>2. workers[w].then \in Thens /\ workers[w].fam \in Families /\ workers[w].margin \in {1, Quantum}
  BY <1>1 DEF Record
<1>3. PICK pc \in Thens \cup {"over"} :
        workers' = Goto(w, pc) /\ (At(w, "watermark") \/ At(w, "rearm"))
  BY <1>2 DEF ClaimWatermark, Rearm
<1>4. /\ pc \in PCs /\ pc # "enqueue"
      /\ ~At(w, "enqueue") /\ ~At(w, "over") /\ ~At(w, "evict")
  BY <1>3 DEF At, PCs, Thens
<1>5. /\ home' = home /\ queue' = queue /\ retained_count' = retained_count /\ claimed' = claimed
      /\ pending' = pending /\ cursor' = cursor /\ next_sweep' = next_sweep
  BY DEF ClaimWatermark, Rearm
<1>6. ClaimStep(w, pc)
  BY <1>3, <1>5 DEF ClaimStep, Sweeping, SweepPCs, At, Thens
<1>7. Shared
  BY DEF RetentionInv, Shapes
<1>8. next_publish_sweep' \in [Families -> Nat \ {0}]
  <2> DEFINE f == workers[w].fam
             n == retained_count[f]
             m == workers[w].margin
  <2>1. n \in Int /\ Limit[f] \in Nat /\ m \in Nat \ {0} /\ f \in Families
    <3>1. f \in Families /\ n \in Int
      BY <1>2, <1>7 DEF Shared
    <3>2. Limit[f] \in Nat /\ Quantum \in Nat \ {0}
      BY <3>1, Constants
    <3>3. m \in Nat \ {0}
      BY <1>2, <3>2
    <3> QED BY <3>1, <3>2, <3>3
  <2> HIDE DEF n, m
  <2>2. (IF n > Limit[f] THEN 2 * n ELSE Limit[f] + m) \in Nat \ {0}
    BY <2>1
  <2>3. CASE ClaimWatermark(w)
    <3>1. next_publish_sweep' = next_publish_sweep \/ next_publish_sweep' = [next_publish_sweep EXCEPT ![f] = Never]
      BY <2>3 DEF ClaimWatermark
    <3> QED BY <1>7, <2>1, <3>1, Constants DEF Shared
  <2>4. CASE Rearm(w)
    <3>1. next_publish_sweep' = [next_publish_sweep EXCEPT ![f] = IF n > Limit[f] THEN 2 * n ELSE Limit[f] + m]
      BY <2>4 DEF Rearm, n, m
    <3> QED BY <1>7, <2>1, <2>2, <3>1 DEF Shared
  <2> QED BY <2>3, <2>4
<1>9. Shared'
  BY <1>5, <1>7, <1>8 DEF Shared
<1> QED BY <1>3, <1>4, <1>5, <1>6, <1>9, QuietGoto

\* The runtime's enforcement, by Goto.
SweepGoto(w) ==
  \/ Probe(w) \/ Measure(w) \/ RequestSweep(w) \/ ClaimSweep(w) \/ ClearPending(w)
  \/ Settle(w) \/ CheckPending(w) \/ Unclaim(w) \/ Recheck(w)

\* Every step of the runtime's enforcement that goes on by Goto respects the claim.
LEMMA SweepSteps ==
  ASSUME RetentionInv, NEW w \in Workers, SweepGoto(w)
  PROVE  RetentionInv'
<1>1. Shared
  BY DEF RetentionInv, Shapes
<1>2. /\ home' = home /\ queue' = queue /\ retained_count' = retained_count
      /\ next_publish_sweep' = next_publish_sweep /\ cursor' = cursor
  BY DEF SweepGoto, Probe, Measure, RequestSweep, ClaimSweep, ClearPending, Settle, CheckPending,
         Unclaim, Recheck, shared
<1>3. pending' \in BOOLEAN /\ claimed' \in BOOLEAN
  BY <1>1 DEF Shared, SweepGoto, Probe, Measure, RequestSweep, ClaimSweep, ClearPending, Settle,
              CheckPending, Unclaim, Recheck, shared
<1>4. next_sweep' \in Nat
  <2> DEFINE c == Charge
  <2>1. c \in Nat /\ Budget \in Nat
    BY ChargeIsNat, Constants
  <2> HIDE DEF c
  <2>2. (IF c > Budget THEN 2 * c ELSE Budget + 1) \in Nat
    BY <2>1
  <2>3. CASE Settle(w)
    BY <2>2, <2>3 DEF Settle, c
  <2>4. CASE ~Settle(w)
    <3>1. next_sweep' = next_sweep
      BY <2>4 DEF SweepGoto, Probe, Measure, RequestSweep, ClaimSweep, ClearPending, CheckPending,
                  Unclaim, Recheck, shared
    <3> QED BY <1>1, <3>1 DEF Shared
  <2> QED BY <2>3, <2>4
<1>5. Shared'
  BY <1>1, <1>2, <1>3, <1>4 DEF Shared
<1>6. ASSUME NEW pc \in PCs, workers' = Goto(w, pc), ClaimStep(w, pc), pc # "enqueue"
      PROVE  RetentionInv'
  <2>1. ~At(w, "enqueue") /\ ~At(w, "over") /\ ~At(w, "evict")
    BY DEF At, SweepGoto, Probe, Measure, RequestSweep, ClaimSweep, ClearPending, Settle,
           CheckPending, Unclaim, Recheck
  <2> QED BY <1>2, <1>5, <1>6, <2>1, QuietGoto
<1>7. CASE Probe(w) \/ Measure(w)
  <2>1. PICK pc \in {"idle", "measure", "request"} : workers' = Goto(w, pc)
    BY <1>7 DEF Probe, Measure
  <2>2. ClaimStep(w, pc)
    BY <1>7, <2>1 DEF Probe, Measure, ClaimStep, Sweeping, SweepPCs, At, shared
  <2>3. pc \in PCs /\ pc # "enqueue"
    BY <2>1 DEF PCs
  <2> QED BY <1>6, <2>1, <2>2, <2>3
<1>8. CASE RequestSweep(w)
  <2>1. workers' = Goto(w, "claim") /\ ClaimStep(w, "claim")
    BY <1>8 DEF RequestSweep, ClaimStep, Sweeping, SweepPCs, At
  <2> QED BY <1>6, <2>1 DEF PCs
<1>9. CASE ClaimSweep(w)
  <2>1. PICK pc \in {"idle", "clear"} : workers' = Goto(w, pc) /\ pc = IF claimed THEN "idle" ELSE "clear"
    BY <1>9 DEF ClaimSweep
  <2>2. ~Sweeping(w) /\ claimed' = TRUE /\ claimed \in BOOLEAN
    BY <1>1, <1>9 DEF ClaimSweep, Sweeping, Shared
  <2>3. ClaimStep(w, pc)
    BY <2>1, <2>2 DEF ClaimStep, SweepPCs
  <2> QED BY <1>6, <2>1, <2>3 DEF PCs
<1>10. CASE ClearPending(w) \/ Settle(w)
  <2>1. PICK pc \in {"sweep", "check"} : workers' = Goto(w, pc)
    BY <1>10 DEF ClearPending, Settle
  <2>2. ClaimStep(w, pc)
    BY <1>10, <2>1 DEF ClearPending, Settle, ClaimStep, Sweeping, SweepPCs, At
  <2> QED BY <1>6, <2>1, <2>2 DEF PCs
<1>11. CASE CheckPending(w)
  <2>1. PICK pc \in {"clear", "unclaim"} : workers' = Goto(w, pc)
    BY <1>11 DEF CheckPending
  <2>2. ClaimStep(w, pc)
    BY <1>11, <2>1 DEF CheckPending, ClaimStep, Sweeping, SweepPCs, At
  <2> QED BY <1>6, <2>1, <2>2 DEF PCs
<1>12. CASE Unclaim(w)
  <2>1. workers' = Goto(w, "recheck") /\ ClaimStep(w, "recheck")
    BY <1>12 DEF Unclaim, ClaimStep, Sweeping, SweepPCs, At
  <2> QED BY <1>6, <2>1 DEF PCs
<1>13. CASE Recheck(w)
  <2>1. PICK pc \in {"reclaim", "idle"} : workers' = Goto(w, pc)
    BY <1>13 DEF Recheck
  <2>2. ClaimStep(w, pc)
    BY <1>13, <2>1 DEF Recheck, ClaimStep, Sweeping, SweepPCs, At
  <2> QED BY <1>6, <2>1, <2>2 DEF PCs
<1> QED BY <1>7, <1>8, <1>9, <1>10, <1>11, <1>12, <1>13 DEF SweepGoto

-----------------------------------------------------------------------------
(* The actions that update a worker's locals one by one *)

\* What the update of a worker's record says of the step.
LEMMA RecordEffect ==
  ASSUME Shapes, NEW w \in Workers, NEW r \in Record, workers' = [workers EXCEPT ![w] = r]
  PROVE  Moves(w, r.pc, r.held, r.due) /\ workers'[w] = r
  BY DEF Shapes, Moves

\* LoadCount
LEMMA LoadCountStep ==
  ASSUME RetentionInv, NEW w \in Workers, LoadCount(w)
  PROVE  RetentionInv'
<1> DEFINE me == workers[w]
           n == retained_count[me.fam]
           r == [me EXCEPT !.pc = "watermark", !.total = n]
<1>1. me \in Record /\ Shapes
  BY DEF RetentionInv, Shapes
<1>2. n \in Int
  BY <1>1 DEF Shapes, Shared, Record
<1>3. workers' = [workers EXCEPT ![w] = r]
  BY DEF LoadCount
<1> HIDE DEF n, me
<1>4. r \in Record /\ r.pc = "watermark" /\ r.held = me.held /\ r.due = me.due
  BY <1>1, <1>2 DEF Record, PCs
<1> HIDE DEF r
<1>5. Moves(w, "watermark", workers[w].held, workers[w].due)
  BY <1>1, <1>3, <1>4, RecordEffect DEF me
<1>6. /\ home' = home /\ queue' = queue /\ retained_count' = retained_count /\ Shared'
      /\ ClaimStep(w, "watermark")
  BY <1>1 DEF LoadCount, Shapes, Shared, shared, ClaimStep, Sweeping, SweepPCs, At
<1>7. ~At(w, "enqueue") /\ ~At(w, "over") /\ ~At(w, "evict")
  BY DEF LoadCount, At
<1> QED BY <1>5, <1>6, <1>7, QuietStep

\* BeginSweep, BeginRound and EndRound: the sweep's locals.
LEMMA RoundSteps ==
  ASSUME RetentionInv, NEW w \in Workers, BeginSweep(w) \/ BeginRound(w) \/ EndRound(w)
  PROVE  RetentionInv'
<1> DEFINE me == workers[w]
           c == Charge
           first == Cardinality({f \in Families : f < cursor})
<1>1. me \in Record /\ Shapes
  BY DEF RetentionInv, Shapes
<1>2. c \in Int /\ FamilyCount \in Nat \ {0} /\ me.start \in Int /\ me.progress \in BOOLEAN
  BY <1>1, ChargeIsNat, Constants DEF Record
<1>3. first \in Nat
  <2>1. IsFiniteSet(Families)
    BY FS_Interval, Constants DEF Families
  <2>2. {f \in Families : f < cursor} \in SUBSET Families
    OBVIOUS
  <2> QED BY <2>1, <2>2, FS_Subset, FS_CardinalityType
<1>4. first % FamilyCount \in Int /\ (me.start + 1) % FamilyCount \in Int
  BY <1>2, <1>3
<1> HIDE DEF first, c
<1>5. SweepPCs \subseteq PCs
  BY DEF SweepPCs, PCs
<1>6. me.start \in Int /\ me.total \in Int /\ me.offset \in Int /\ me.progress \in BOOLEAN
  BY <1>1 DEF Record
<1>7. PICK pc \in SweepPCs : Moves(w, pc, workers[w].held, workers[w].due)
  <2>1. CASE BeginSweep(w)
    <3> DEFINE pc == IF c > Budget THEN "round" ELSE "check"
               s == first % FamilyCount
    <3>1. workers' = [workers EXCEPT ![w].pc = pc, ![w].start = s]
      BY <2>1 DEF BeginSweep, first, c
    <3>2. pc \in SweepPCs /\ s \in Int
      BY <1>4 DEF SweepPCs
    <3> HIDE DEF pc, s
    <3> DEFINE r == [me EXCEPT !.pc = pc, !.start = s]
    <3>3. workers' = [workers EXCEPT ![w] = r]
      BY <3>1
    <3> HIDE DEF me
    <3>4. r \in Record /\ r.pc = pc /\ r.held = me.held /\ r.due = me.due
      BY <1>1, <1>2, <1>5, <3>2 DEF Record
    <3> HIDE DEF r
    <3>5. Moves(w, pc, me.held, me.due)
      BY <1>1, <3>3, <3>4, RecordEffect
    <3> QED BY <3>2, <3>5 DEF me
  <2>2. CASE BeginRound(w)
    <3> DEFINE pc == IF c > Budget THEN "pass" ELSE "settle"
    <3>1. workers' = [workers EXCEPT ![w].pc = pc, ![w].total = c, ![w].offset = 0, ![w].progress = FALSE]
      BY <2>2 DEF BeginRound, c
    <3>2. pc \in SweepPCs
      BY DEF SweepPCs
    <3> HIDE DEF pc
    <3> DEFINE r == [me EXCEPT !.pc = pc, !.total = c, !.offset = 0, !.progress = FALSE]
    <3>3. workers' = [workers EXCEPT ![w] = r]
      BY <3>1
    <3> HIDE DEF me
    <3>4. r \in Record /\ r.pc = pc /\ r.held = me.held /\ r.due = me.due
      <4>1. pc \in PCs /\ c \in Int /\ me \in Record
        BY <1>1, <1>2, <1>5, <3>2
      <4> DEFINE q == [me EXCEPT !.pc = pc, !.total = c]
      <4>2. q \in Record /\ q.pc = pc /\ q.held = me.held /\ q.due = me.due
        BY <4>1 DEF Record
      <4> DEFINE z == [q EXCEPT !.offset = 0]
      <4> HIDE DEF q
      <4>3. z \in Record /\ z.pc = pc /\ z.held = me.held /\ z.due = me.due
        BY <4>2 DEF Record
      <4>4. r = [z EXCEPT !.progress = FALSE]
        BY <4>1 DEF q, Record
      <4> HIDE DEF z, r
      <4>5. ASSUME NEW b \in BOOLEAN
            PROVE  LET y == [z EXCEPT !.progress = b]
                   IN y \in Record /\ y.pc = pc /\ y.held = me.held /\ y.due = me.due
        BY <4>3 DEF Record
      <4> QED BY <4>4, <4>5, Zenon
    <3> HIDE DEF r
    <3>5. Moves(w, pc, me.held, me.due)
      BY <1>1, <3>3, <3>4, RecordEffect
    <3> QED BY <3>2, <3>5 DEF me
  <2>3. CASE EndRound(w)
    <3> DEFINE pc == IF me.progress THEN "round" ELSE "settle"
               s == IF me.progress THEN (me.start + 1) % FamilyCount ELSE me.start
    <3>1. workers' = [workers EXCEPT ![w].pc = pc, ![w].start = s]
      BY <2>3 DEF EndRound
    <3>2. pc \in SweepPCs /\ s \in Int
      BY <1>4, <1>6 DEF SweepPCs
    <3> HIDE DEF pc, s
    <3> DEFINE r == [me EXCEPT !.pc = pc, !.start = s]
    <3>3. workers' = [workers EXCEPT ![w] = r]
      BY <3>1
    <3> HIDE DEF me
    <3>4. r \in Record /\ r.pc = pc /\ r.held = me.held /\ r.due = me.due
      BY <1>1, <1>2, <1>5, <3>2 DEF Record
    <3> HIDE DEF r
    <3>5. Moves(w, pc, me.held, me.due)
      BY <1>1, <3>3, <3>4, RecordEffect
    <3> QED BY <3>2, <3>5 DEF me
  <2> QED BY <2>1, <2>2, <2>3
<1>8. /\ home' = home /\ queue' = queue /\ retained_count' = retained_count /\ Shared'
      /\ ~At(w, "enqueue") /\ ~At(w, "over") /\ ~At(w, "evict")
  BY <1>1 DEF BeginSweep, BeginRound, EndRound, Shapes, Shared, shared, At
<1>9. ClaimStep(w, pc) /\ pc # "enqueue"
  BY <1>7 DEF BeginSweep, BeginRound, EndRound, shared, At, ClaimStep, Sweeping, SweepPCs
<1> QED BY <1>7, <1>8, <1>9, QuietStep

-----------------------------------------------------------------------------
(* Pins and families due *)

\* A step that leaves the queues and the counts alone and hands on what it owed.
LEMMA PinStep ==
  ASSUME RetentionInv, NEW w \in Workers, NEW pc, NEW held, NEW due, Moves(w, pc, held, due),
         UNCHANGED shared, ~At(w, "enqueue"), pc # "enqueue", ~Sweeping(w), pc \notin SweepPCs,
         held \subseteq 1 .. Len(home),
         \A f \in Families : retained_count[f] > Limit[f] /\ Bound(w, f) =>
                               \E v \in Workers : Bound(v, f)'
  PROVE  RetentionInv'
<1>1. Shapes'
  BY DEF RetentionInv, Shapes, Shared, Moves, shared
<1>2. ClaimStep(w, pc)
  BY DEF ClaimStep, shared
<1>3. SweepExclusive'
  BY <1>2, KeepSweep DEF RetentionInv
<1>4. home' = home /\ queue' = queue /\ retained_count' = retained_count
  BY DEF shared
<1>5. Queued' /\ Publishing' /\ HeldPublished' /\ Counted'
  BY <1>4, KeepAccounts DEF RetentionInv
<1>6. Owed'
  <2>1. Owed
    BY DEF RetentionInv
  <2> QED BY <1>4, <2>1, KeepOwed
<1> QED BY <1>1, <1>3, <1>5, <1>6 DEF RetentionInv

\* Pin
LEMMA PinKeeps ==
  ASSUME RetentionInv, NEW w \in Workers, NEW id \in Terminals, Pin(w, id)
  PROVE  RetentionInv'
<1> DEFINE me == workers[w]
           r == [me EXCEPT !.held = me.held \cup {id}]
<1>1. me \in Record /\ Shapes
  BY DEF RetentionInv, Shapes
<1>2. id \in 1 .. Len(home)
  <2>1. PICK f \in Families : id \in Range(queue[f])
    BY DEF Pin
  <2>2. queue[f] \in Seq(Nat)
    BY <1>1 DEF Shapes, Shared
  <2>3. PICK i \in 1 .. Len(queue[f]) : id = queue[f][i]
    BY <2>1, <2>2 DEF Range
  <2> QED BY <2>3 DEF RetentionInv, Queued
<1>3. me.held \subseteq 1 .. Len(home) /\ Len(home) \in Nat
  BY <1>1 DEF RetentionInv, HeldPublished, Shapes, Shared
<1>4. workers' = [workers EXCEPT ![w] = r] /\ me.pc = "idle"
  BY DEF Pin, At
<1>5. r \in Record /\ r.pc = "idle" /\ r.held = me.held \cup {id} /\ r.due = me.due
  <2> HIDE DEF me
  <2>1. me.held \cup {id} \in SUBSET Nat
    BY <1>2, <1>3
  <2> QED BY <1>1, <1>4, <2>1 DEF Record
<1> HIDE DEF r
<1>6. Moves(w, "idle", me.held \cup {id}, me.due)
  BY <1>1, <1>4, <1>5, RecordEffect
<1>7. UNCHANGED shared /\ ~At(w, "enqueue") /\ ~Sweeping(w) /\ "idle" \notin SweepPCs
  BY <1>4 DEF Pin, At, Sweeping, SweepPCs
<1>8. ASSUME NEW f \in Families, Bound(w, f)
      PROVE  Bound(w, f)'
  BY <1>4, <1>6, <1>7, <1>8 DEF Bound, Moves, shared
<1>9. me.held \cup {id} \subseteq 1 .. Len(home)
  BY <1>2, <1>3
<1>10. \A f \in Families : retained_count[f] > Limit[f] /\ Bound(w, f) => \E v \in Workers : Bound(v, f)'
  BY <1>8
<1> HIDE DEF me
<1> QED BY <1>6, <1>7, <1>9, <1>10, PinStep

\* ReleasePin: the last pin leaves its family due, any other leaves a pin.
LEMMA ReleaseKeeps ==
  ASSUME RetentionInv, NEW w \in Workers, NEW id \in Terminals, ReleasePin(w, id)
  PROVE  RetentionInv'
<1> DEFINE me == workers[w]
           last == \A v \in Workers \ {w} : id \notin workers[v].held
           due == IF last THEN me.due \cup {home[id]} ELSE me.due
           r == [me EXCEPT !.held = me.held \ {id}, !.due = due]
<1>1. me \in Record /\ Shapes
  BY DEF RetentionInv, Shapes
<1>2. me.held \subseteq 1 .. Len(home) /\ id \in me.held /\ me.pc = "release"
  BY DEF RetentionInv, HeldPublished, ReleasePin, At
<1>3. home[id] \in Families
  BY <1>1, <1>2 DEF Shapes, Shared
<1>4. workers' = [workers EXCEPT ![w] = r]
  BY DEF ReleasePin
<1>5. due \in SUBSET Families /\ (last => home[id] \in due) /\ me.due \subseteq due
  BY <1>1, <1>3 DEF Record
<1>6. me.held \ {id} \in SUBSET Nat
  BY <1>1 DEF Record
<1> HIDE DEF due
<1>7. r \in Record /\ r.pc = "release" /\ r.held = me.held \ {id} /\ r.due = due
  <2> HIDE DEF me
  <2> QED BY <1>1, <1>2, <1>5, <1>6 DEF Record
<1> HIDE DEF r
<1>8. Moves(w, "release", me.held \ {id}, due)
  BY <1>1, <1>4, <1>7, RecordEffect
<1>9. UNCHANGED shared /\ ~At(w, "enqueue") /\ ~Sweeping(w) /\ "release" \notin SweepPCs
  BY <1>2 DEF ReleasePin, At, Sweeping, SweepPCs
<1>10. ASSUME NEW f \in Families, Bound(w, f)
       PROVE  \E v \in Workers : Bound(v, f)'
  <2>1. home' = home
    BY <1>9 DEF shared
  <2>2. CASE f \in me.due
    <3>1. Bound(w, f)'
      BY <1>5, <1>8, <2>2 DEF Bound, Moves
    <3> QED BY <3>1
  <2>3. CASE \E t \in me.held \ {id} : home[t] = f
    <3>1. Bound(w, f)'
      BY <1>8, <2>1, <2>3 DEF Bound, Moves
    <3> QED BY <3>1
  <2>4. CASE home[id] = f /\ last
    <3>1. Bound(w, f)'
      BY <1>5, <1>8, <2>4 DEF Bound, Moves
    <3> QED BY <3>1
  <2>5. CASE home[id] = f /\ ~last
    <3>1. PICK v \in Workers \ {w} : id \in workers[v].held
      BY <2>5
    <3>2. workers'[v] = workers[v]
      BY <1>8 DEF Moves
    <3>3. Bound(v, f)'
      BY <2>1, <2>5, <3>1, <3>2 DEF Bound
    <3> QED BY <3>3
  <2> QED BY <1>2, <1>10, <2>2, <2>3, <2>4, <2>5 DEF Bound
<1>11. me.held \ {id} \subseteq 1 .. Len(home)
  BY <1>2
<1>12. \A f \in Families : retained_count[f] > Limit[f] /\ Bound(w, f) => \E v \in Workers : Bound(v, f)'
  BY <1>10
<1> HIDE DEF me
<1> QED BY <1>8, <1>9, <1>11, <1>12, PinStep

\* EnforceFamily: the family is within its limit or the worker starts a pass over it.
LEMMA EnforceKeeps ==
  ASSUME RetentionInv, NEW w \in Workers, NEW f \in Families, EnforceFamily(w, f)
  PROVE  RetentionInv'
<1> DEFINE me == workers[w]
           pc == IF Converged(f) THEN "families" ELSE "over"
           q == [me EXCEPT !.due = me.due \ {f}, !.fam = f, !.margin = 1]
           r == [q EXCEPT !.then = "families", !.pc = pc]
<1>1. me \in Record /\ Shapes
  BY DEF RetentionInv, Shapes
<1>2. me.held \subseteq 1 .. Len(home) /\ me.pc = "families"
  BY DEF RetentionInv, HeldPublished, EnforceFamily, At
<1>3. pc \in PCs /\ pc \in {"families", "over"}
  BY DEF PCs
<1>4. me.due \ {f} \in SUBSET Families
  BY <1>1 DEF Record
<1>5. workers' = [workers EXCEPT ![w] = r]
  BY <1>1 DEF EnforceFamily, Record
<1>6. Converged(f) => retained_count[f] <= Limit[f]
  BY DEF Converged
<1>7. ~Converged(f) => pc = "over"
  OBVIOUS
<1> HIDE DEF pc
<1>8. q \in Record /\ q.fam = f /\ q.held = me.held /\ q.due = me.due \ {f}
  <2> HIDE DEF me
  <2> QED BY <1>1, <1>4 DEF Record
<1>9. r \in Record /\ r.pc = pc /\ r.fam = f /\ r.held = me.held /\ r.due = me.due \ {f}
  <2> HIDE DEF me, q
  <2> QED BY <1>3, <1>8 DEF Record, Thens
<1> HIDE DEF r
<1>10. Moves(w, pc, me.held, me.due \ {f}) /\ workers'[w].fam = f
  <2>1. Moves(w, r.pc, r.held, r.due) /\ workers'[w] = r
    BY <1>1, <1>5, <1>9, RecordEffect
  <2> HIDE DEF me
  <2> QED BY <1>9, <2>1
<1>11. UNCHANGED shared /\ ~At(w, "enqueue") /\ ~Sweeping(w) /\ pc \notin SweepPCs /\ pc # "enqueue"
  BY <1>2, <1>3 DEF EnforceFamily, At, Sweeping, SweepPCs
<1>12. ASSUME NEW g \in Families, retained_count[g] > Limit[g], Bound(w, g)
       PROVE  Bound(w, g)'
  <2>1. home' = home
    BY <1>11 DEF shared
  <2>2. CASE g = f
    <3>1. retained_count[f] \in Int /\ Limit[f] \in Nat
      BY <1>1, Constants DEF Shapes, Shared
    <3>2. ~(retained_count[f] <= Limit[f])
      BY <1>12, <2>2, <3>1
    <3>3. pc = "over"
      BY <1>6, <1>7, <3>2
    <3> QED BY <1>10, <2>2, <3>3 DEF Bound, Moves
  <2>3. CASE g # f
    BY <1>2, <1>10, <1>12, <2>1, <2>3 DEF Bound, Moves
  <2> QED BY <2>2, <2>3
<1>13. \A g \in Families : retained_count[g] > Limit[g] /\ Bound(w, g) => \E v \in Workers : Bound(v, g)'
  BY <1>12
<1> HIDE DEF me, q
<1> QED BY <1>2, <1>10, <1>11, <1>13, PinStep DEF me

-----------------------------------------------------------------------------
(* A pass over a family *)

\* An eviction takes one entry off its family's queue and its family's count.
LEMMA Evicts ==
  ASSUME RetentionInv, NEW f \in Families, Evictable(f) # {}, EvictOne(f)
  PROVE  /\ queue' \in [Families -> Seq(Nat)] /\ retained_count' \in [Families -> Int]
         /\ \A g \in Families \ {f} : queue'[g] = queue[g] /\ retained_count'[g] = retained_count[g]
         /\ retained_count'[f] = retained_count[f] - 1 /\ Len(queue'[f]) = Len(queue[f]) - 1
         /\ \A i \in 1 .. Len(queue'[f]) : \E j \in 1 .. Len(queue[f]) : queue'[f][i] = queue[f][j]
         /\ \A i, j \in 1 .. Len(queue'[f]) : queue'[f][i] = queue'[f][j] => i = j
<1> DEFINE s == queue[f]
           k == Oldest(f)
           t == SubSeq(s, k + 1, Len(s)) \o SubSeq(s, 1, k - 1)
           n == Len(s)
           At0(i) == IF i <= n - k THEN k + i ELSE i - (n - k)
<1>1. queue \in [Families -> Seq(Nat)] /\ retained_count \in [Families -> Int]
  BY DEF RetentionInv, Shapes, Shared
<1>2. s \in Seq(Nat)
  BY <1>1
<1>3. k \in 1 .. Len(s)
  <2>1. Evictable(f) \subseteq 1 .. Len(s)
    BY <1>2 DEF Evictable
  <2>2. Evictable(f) \in SUBSET Nat
    BY <2>1
  <2>3. Min(Evictable(f)) \in Evictable(f)
    BY <2>2, LeastIsIn
  <2> QED BY <2>1, <2>3 DEF Oldest
<1>4. queue' = [queue EXCEPT ![f] = t] /\ retained_count' = [retained_count EXCEPT ![f] = @ - 1]
  BY DEF EvictOne
<1>5. \A i, j \in 1 .. n : s[i] = s[j] => i = j
  BY DEF RetentionInv, Queued
<1> HIDE DEF k, s
<1>6. /\ t \in Seq(Nat) /\ Len(t) = n - 1
      /\ \A i \in 1 .. Len(t) : t[i] = s[At0(i)]
  BY <1>2, <1>3, EvictedQueue
<1> HIDE DEF t
<1>7. n \in Nat /\ k \in Nat /\ k >= 1 /\ k <= n
  BY <1>2, <1>3
<1> HIDE DEF n
<1>8. \A i \in 1 .. n - 1 : At0(i) \in 1 .. n
  BY <1>7
<1>9. \A i, j \in 1 .. n - 1 : At0(i) = At0(j) => i = j
  BY <1>7
<1> HIDE DEF At0
<1>10. queue' \in [Families -> Seq(Nat)] /\ queue'[f] = t
  BY <1>1, <1>4, <1>6
<1>11. retained_count' \in [Families -> Int] /\ retained_count'[f] = retained_count[f] - 1
  BY <1>1, <1>4
<1>12. \A g \in Families \ {f} : queue'[g] = queue[g] /\ retained_count'[g] = retained_count[g]
  BY <1>1, <1>4
<1>13. \A i \in 1 .. Len(t) : \E j \in 1 .. n : t[i] = s[j]
  BY <1>6, <1>8
<1>14. ASSUME NEW i \in 1 .. Len(t), NEW j \in 1 .. Len(t), t[i] = t[j]
       PROVE  i = j
  <2>1. i \in 1 .. n - 1 /\ j \in 1 .. n - 1
    BY <1>6
  <2>2. s[At0(i)] = s[At0(j)]
    BY <1>6, <1>14
  <2>3. At0(i) \in 1 .. n /\ At0(j) \in 1 .. n
    BY <1>8, <2>1
  <2>4. At0(i) = At0(j)
    BY <1>5, <2>2, <2>3
  <2> QED BY <1>9, <2>1, <2>4
<1> QED BY <1>6, <1>10, <1>11, <1>12, <1>13, <1>14 DEF s, n

\* The accounts after an eviction by a worker that keeps its pins.
LEMMA EvictKeepsAccounts ==
  ASSUME RetentionInv, NEW f \in Families, Evictable(f) # {}, EvictOne(f), home' = home,
         NEW w \in Workers, NEW pc, Moves(w, pc, workers[w].held, workers[w].due),
         ~At(w, "enqueue"), pc # "enqueue"
  PROVE  Queued' /\ Publishing' /\ HeldPublished' /\ Counted'
<1>1. /\ \A g \in Families \ {f} : queue'[g] = queue[g] /\ retained_count'[g] = retained_count[g]
      /\ retained_count'[f] = retained_count[f] - 1 /\ Len(queue'[f]) = Len(queue[f]) - 1
      /\ \A i \in 1 .. Len(queue'[f]) : \E j \in 1 .. Len(queue[f]) : queue'[f][i] = queue[f][j]
      /\ \A i, j \in 1 .. Len(queue'[f]) : queue'[f][i] = queue'[f][j] => i = j
  BY Evicts
<1>2. \A g \in Families : \A i \in 1 .. Len(queue'[g]) :
        \E j \in 1 .. Len(queue[g]) : queue'[g][i] = queue[g][j]
  BY <1>1
<1>3. Queued'
  <2> SUFFICES ASSUME NEW g \in Families
               PROVE  /\ \A i \in 1 .. Len(queue'[g]) : queue'[g][i] \in 1 .. Len(home) /\ home[queue'[g][i]] = g
                      /\ \A i, j \in 1 .. Len(queue'[g]) : queue'[g][i] = queue'[g][j] => i = j
    BY DEF Queued
  <2>1. Queued
    BY DEF RetentionInv
  <2>2. \A i \in 1 .. Len(queue'[g]) : queue'[g][i] \in 1 .. Len(home) /\ home[queue'[g][i]] = g
    <3> TAKE i \in 1 .. Len(queue'[g])
    <3>1. PICK j \in 1 .. Len(queue[g]) : queue'[g][i] = queue[g][j]
      BY <1>2
    <3>2. queue[g][j] \in 1 .. Len(home) /\ home[queue[g][j]] = g
      BY <2>1 DEF Queued
    <3> QED BY <3>1, <3>2
  <2>3. \A i, j \in 1 .. Len(queue'[g]) : queue'[g][i] = queue'[g][j] => i = j
    BY <1>1, <2>1 DEF Queued
  <2> QED BY <2>2, <2>3
<1>4. \A v \in Workers : At(v, "enqueue")' <=> At(v, "enqueue")
  BY DEF Moves, At
<1>5. \A v \in Workers : At(v, "enqueue") => workers'[v] = workers[v]
  BY DEF Moves, At
<1>6. Publishing'
  <2>1. Publishing
    BY DEF RetentionInv
  <2>2. ASSUME NEW v \in Workers, At(v, "enqueue")
        PROVE  \A g \in Families : \A i \in 1 .. Len(queue'[g]) : queue'[g][i] # workers[v].total
    BY <1>2, <2>1, <2>2 DEF Publishing
  <2> QED BY <1>4, <1>5, <2>1, <2>2 DEF Publishing
<1>7. HeldPublished'
  BY DEF RetentionInv, HeldPublished, Moves
<1>8. Counted'
  <2> SUFFICES ASSUME NEW g \in Families
               PROVE  /\ retained_count'[g] = Len(queue'[g]) + Cardinality(Publishers(g)')
                      /\ retained_count'[g] <= Len(home)
    BY DEF Counted
  <2>1. Publishers(g)' = Publishers(g)
    BY <1>4, <1>5 DEF Publishers
  <2>2. retained_count[g] = Len(queue[g]) + Cardinality(Publishers(g)) /\ retained_count[g] <= Len(home)
    BY DEF RetentionInv, Counted
  <2>3. Publishers(g) \in SUBSET Workers
    BY DEF Publishers
  <2>4. Cardinality(Publishers(g)) \in Nat
    BY <2>3, Constants, FS_Subset, FS_CardinalityType
  <2>5. retained_count[g] \in Int /\ Len(queue[g]) \in Nat /\ Len(home) \in Nat
    BY DEF RetentionInv, Shapes, Shared
  <2> DEFINE a == retained_count[g]
             b == Len(queue[g])
             c == Cardinality(Publishers(g))
             h == Len(home)
  <2>6. CASE g = f
    <3>1. retained_count'[g] = a - 1 /\ Len(queue'[g]) = b - 1
      BY <1>1, <2>6
    <3> HIDE DEF a, b, c, h
    <3>2. a - 1 = (b - 1) + c /\ a - 1 <= h
      BY <2>2, <2>4, <2>5 DEF a, b, c, h
    <3> QED BY <2>1, <3>1, <3>2 DEF c, h
  <2>7. CASE g # f
    BY <1>1, <2>1, <2>2, <2>7
  <2> QED BY <2>6, <2>7
<1> QED BY <1>3, <1>6, <1>7, <1>8

\* Nothing of the family can go, although it is over its limit: a pin or the
\* request of a publisher that has not enqueued yet protects it.
LEMMA StuckFamily ==
  ASSUME RetentionInv, NEW f \in Families, Evictable(f) = {}, retained_count[f] > Limit[f]
  PROVE  \E v \in Workers : (\E id \in workers[v].held : home[id] = f) \/ f \in workers[v].due
<1>1. /\ queue[f] \in Seq(Nat) /\ Limit[f] \in Nat /\ retained_count[f] \in Int
      /\ Len(queue[f]) \in Nat
  BY Constants DEF RetentionInv, Shapes, Shared
<1>2. CASE Len(queue[f]) > 0
  <2>1. 1 \in DOMAIN queue[f] /\ 1 \in 1 .. Len(queue[f])
    BY <1>1, <1>2
  <2>2. Pinned(queue[f][1])
    BY <2>1 DEF Evictable
  <2>3. home[queue[f][1]] = f
    BY <2>1 DEF RetentionInv, Queued
  <2> QED BY <2>2, <2>3 DEF Pinned
<1>3. CASE Publishers(f) # {}
  <2>1. PICK v \in Workers : At(v, "enqueue") /\ workers[v].fam = f
    BY <1>3 DEF Publishers
  <2>2. /\ home[workers[v].total] = f
        /\ workers[v].total \in workers[v].held \/ f \in workers[v].due
    BY <2>1 DEF RetentionInv, Publishing
  <2> QED BY <2>2
<1>4. CASE ~(Len(queue[f]) > 0) /\ Publishers(f) = {}
  <2>1. retained_count[f] = Len(queue[f]) + Cardinality(Publishers(f))
    BY DEF RetentionInv, Counted
  <2>2. Cardinality(Publishers(f)) = 0
    BY <1>4, FS_EmptySet
  <2> DEFINE a == retained_count[f]
             l == Len(queue[f])
             m == Limit[f]
  <2>3. a \in Int /\ l \in Nat /\ m \in Nat /\ a > m /\ ~(l > 0) /\ a = l + 0
    BY <1>1, <1>4, <2>1, <2>2
  <2> HIDE DEF a, l, m
  <2>4. FALSE
    BY <2>3
  <2> QED BY <2>4
<1> QED BY <1>2, <1>3, <1>4

\* TestLimit: it leaves the pass only when the family is within its limit.
LEMMA TestLimitKeeps ==
  ASSUME RetentionInv, NEW w \in Workers, TestLimit(w)
  PROVE  RetentionInv'
<1> DEFINE f == workers[w].fam
           held == workers[w].held
           due == workers[w].due
<1>1. workers[w] \in Record /\ Shapes /\ workers[w].pc = "over"
  BY DEF RetentionInv, Shapes, TestLimit, At
<1>2. f \in Families /\ held \subseteq 1 .. Len(home)
  BY <1>1 DEF Record, RetentionInv, HeldPublished
<1>3. PICK pc \in {"evict", "rearm"} :
        workers' = Goto(w, pc) /\ pc = IF retained_count[f] > Limit[f] THEN "evict" ELSE "rearm"
  BY DEF TestLimit
<1>4. pc \in PCs
  BY <1>3 DEF PCs
<1>5. Moves(w, pc, held, due) /\ workers'[w].fam = f
  BY <1>1, <1>3, <1>4, GotoEffect
<1>6. UNCHANGED shared /\ ~At(w, "enqueue") /\ ~Sweeping(w) /\ pc \notin SweepPCs /\ pc # "enqueue"
  BY <1>1, <1>3 DEF TestLimit, At, Sweeping, SweepPCs
<1>7. ASSUME NEW g \in Families, retained_count[g] > Limit[g], Bound(w, g)
      PROVE  Bound(w, g)'
  <2>1. home' = home
    BY <1>6 DEF shared
  <2>2. CASE g = f
    <3>1. pc = "evict"
      BY <1>3, <1>7, <2>2
    <3> QED BY <1>5, <2>2, <3>1 DEF Bound, Moves
  <2>3. CASE g # f
    BY <1>5, <1>7, <2>1, <2>3 DEF Bound, Moves
  <2> QED BY <2>2, <2>3
<1>8. \A g \in Families : retained_count[g] > Limit[g] /\ Bound(w, g) => \E v \in Workers : Bound(v, g)'
  BY <1>7
<1> HIDE DEF held, due, f
<1> QED BY <1>2, <1>5, <1>6, <1>8, PinStep

\* FamilyEvict: it leaves the pass only when the family is stuck.
LEMMA FamilyEvictKeeps ==
  ASSUME RetentionInv, NEW w \in Workers, FamilyEvict(w)
  PROVE  RetentionInv'
<1>1. workers[w] \in Record /\ Shapes /\ workers[w].pc = "evict"
  BY DEF RetentionInv, Shapes, FamilyEvict, At
<1>2. PICK f \in Families : f = workers[w].fam
  BY <1>1 DEF Record
<1>3. workers[w].held \subseteq 1 .. Len(home)
  BY DEF RetentionInv, HeldPublished
<1>4. home' = home /\ claimed' = claimed
  BY DEF FamilyEvict
<1>5. ~At(w, "enqueue") /\ ~Sweeping(w)
  BY <1>1 DEF At, Sweeping
<1>6. CASE Evictable(f) = {}
  <2>1. workers' = Goto(w, "rearm") /\ UNCHANGED shared
    BY <1>2, <1>6 DEF FamilyEvict, shared
  <2>2. Moves(w, "rearm", workers[w].held, workers[w].due)
    BY <1>1, <2>1, GotoEffect DEF PCs
  <2>3. ASSUME NEW g \in Families, retained_count[g] > Limit[g], Bound(w, g)
        PROVE  \E v \in Workers : Bound(v, g)'
    <3>1. CASE g = f
      <4>1. PICK v \in Workers : (\E id \in workers[v].held : home[id] = f) \/ f \in workers[v].due
        BY <1>6, <2>3, <3>1, StuckFamily
      <4>2. workers'[v].held = workers[v].held /\ workers'[v].due = workers[v].due
        BY <2>2 DEF Moves
      <4>3. Bound(v, g)'
        BY <1>4, <3>1, <4>1, <4>2 DEF Bound
      <4> QED BY <4>3
    <3>2. CASE g # f
      <4>1. Bound(w, g)'
        BY <1>2, <1>4, <2>2, <2>3, <3>2 DEF Bound, Moves
      <4> QED BY <4>1
    <3> QED BY <3>1, <3>2
  <2>4. \A g \in Families : retained_count[g] > Limit[g] /\ Bound(w, g) => \E v \in Workers : Bound(v, g)'
    BY <2>3
  <2>5. "rearm" \notin SweepPCs
    BY DEF SweepPCs
  <2> QED BY <1>3, <1>5, <2>1, <2>2, <2>4, <2>5, PinStep
<1>7. CASE Evictable(f) # {}
  <2>1. workers' = Goto(w, "over") /\ EvictOne(f)
    BY <1>2, <1>7 DEF FamilyEvict
  <2>2. Moves(w, "over", workers[w].held, workers[w].due) /\ workers'[w].fam = f
    BY <1>1, <1>2, <2>1, GotoEffect DEF PCs
  <2>3. Queued' /\ Publishing' /\ HeldPublished' /\ Counted'
    BY <1>4, <1>5, <1>7, <2>1, <2>2, EvictKeepsAccounts
  <2>4. /\ queue' \in [Families -> Seq(Nat)] /\ retained_count' \in [Families -> Int]
        /\ \A g \in Families \ {f} : retained_count'[g] = retained_count[g]
        /\ retained_count'[f] = retained_count[f] - 1
    BY <1>7, <2>1, Evicts
  <2>5. Shapes'
    BY <1>1, <2>2, <2>4 DEF Shapes, Shared, FamilyEvict, Moves
  <2>6. ClaimStep(w, "over")
    BY <1>4, <1>5 DEF ClaimStep, SweepPCs
  <2>7. SweepExclusive'
    BY <2>2, <2>6, KeepSweep DEF RetentionInv
  <2>8. ASSUME NEW g \in Families
        PROVE  /\ retained_count'[g] > Limit[g] => retained_count[g] > Limit[g]
               /\ Bound(w, g) => Bound(w, g)'
    <3>1. retained_count[g] \in Int /\ Limit[g] \in Nat
      BY <1>1, Constants DEF Shapes, Shared
    <3>2. retained_count'[g] = retained_count[g] \/ retained_count'[g] = retained_count[g] - 1
      BY <2>4
    <3>3. Bound(w, g) => Bound(w, g)'
      BY <1>2, <1>4, <2>2 DEF Bound, Moves
    <3> QED BY <3>1, <3>2, <3>3
  <2>9. Owed'
    <3>1. Owed
      BY DEF RetentionInv
    <3>2. \A g \in Families : retained_count'[g] > Limit[g] => retained_count[g] > Limit[g]
      BY <2>8
    <3>3. \A g \in Families : retained_count'[g] > Limit[g] /\ Bound(w, g) => \E v \in Workers : Bound(v, g)'
      BY <2>8
    <3> QED BY <1>4, <2>2, <3>1, <3>2, <3>3, KeepOwed
  <2> QED BY <2>3, <2>5, <2>7, <2>9 DEF RetentionInv
<1> QED BY <1>6, <1>7

-----------------------------------------------------------------------------
(* A round of the sweep *)

\* SweepFamily
LEMMA SweepFamilyKeeps ==
  ASSUME RetentionInv, NEW w \in Workers, SweepFamily(w)
  PROVE  RetentionInv'
<1> DEFINE me == workers[w]
           f == ((me.start + me.offset) % FamilyCount) + 1
<1>1. me \in Record /\ Shapes /\ me.pc = "pass"
  BY DEF RetentionInv, Shapes, SweepFamily, At
<1>2. f \in Families /\ FamilyAfter(f) \in Families
  <2>1. me.start \in Int /\ me.offset \in Int /\ FamilyCount \in Nat \ {0}
    BY <1>1, Constants DEF Record
  <2> DEFINE n == me.start + me.offset
  <2>2. n \in Int
    BY <2>1
  <2> HIDE DEF n
  <2>3. n % FamilyCount \in 0 .. FamilyCount - 1
    BY <2>1, <2>2
  <2>4. f \in Families /\ f = (n % FamilyCount) + 1
    BY <2>1, <2>3 DEF Families, n
  <2> HIDE DEF f
  <2>5. f \in Nat
    BY <2>4 DEF Families
  <2>6. f % FamilyCount \in 0 .. FamilyCount - 1
    BY <2>1, <2>5
  <2>7. FamilyAfter(f) \in Families
    BY <2>1, <2>6 DEF FamilyAfter, Families
  <2> QED BY <2>4, <2>7
<1> DEFINE q == [me EXCEPT !.offset = me.offset + 1]
           z == [q EXCEPT !.total = me.total - 1]
<1>3. q \in Record /\ q.pc = "pass" /\ q.held = me.held /\ q.due = me.due
  <2>1. me.offset + 1 \in Int
    BY <1>1 DEF Record
  <2> HIDE DEF me
  <2> QED BY <1>1, <2>1 DEF Record
<1>4. z \in Record /\ z.pc = "pass" /\ z.held = me.held /\ z.due = me.due
  <2>1. me.total - 1 \in Int
    BY <1>1 DEF Record
  <2> HIDE DEF me, q
  <2> QED BY <1>3, <2>1 DEF Record
<1>5. ASSUME NEW b \in BOOLEAN
      PROVE  LET y == [z EXCEPT !.progress = b]
             IN y \in Record /\ y.pc = "pass" /\ y.held = me.held /\ y.due = me.due
  <2> HIDE DEF me, q, z
  <2> QED BY <1>4 DEF Record
<1>6. home' = home /\ claimed' = claimed
  BY DEF SweepFamily
<1>7. ~At(w, "enqueue") /\ ~At(w, "over") /\ ~At(w, "evict") /\ Sweeping(w) /\ "pass" \in SweepPCs
  BY <1>1 DEF At, Sweeping, SweepPCs
<1>8. ClaimStep(w, "pass")
  BY <1>6, <1>7 DEF ClaimStep
<1>9. CASE Evictable(f) = {}
  <2>1. workers' = [workers EXCEPT ![w] = q] /\ UNCHANGED shared
    BY <1>9 DEF SweepFamily, shared
  <2> HIDE DEF q, me
  <2>2. Moves(w, "pass", me.held, me.due)
    BY <1>1, <1>3, <2>1, RecordEffect
  <2>3. Shared' /\ queue' = queue /\ retained_count' = retained_count
    BY <1>1, <2>1 DEF Shapes, Shared, shared
  <2> QED BY <1>6, <1>7, <1>8, <2>2, <2>3, QuietStep DEF me
<1>10. CASE Evictable(f) # {}
  <2>1. workers' = [workers EXCEPT ![w] = [z EXCEPT !.progress = TRUE]]
    BY <1>1, <1>10 DEF SweepFamily, Record
  <2>2. EvictOne(f) /\ cursor' = FamilyAfter(f)
    BY <1>10 DEF SweepFamily
  <2> DEFINE y == [z EXCEPT !.progress = TRUE]
  <2>3. y \in Record /\ y.pc = "pass" /\ y.held = me.held /\ y.due = me.due
    BY <1>5, Zenon
  <2> HIDE DEF z, y
  <2>4. workers' = [workers EXCEPT ![w] = y]
    BY <2>1 DEF y
  <2>5. Moves(w, "pass", workers[w].held, workers[w].due)
    <3>1. Moves(w, y.pc, y.held, y.due)
      BY <1>1, <2>3, <2>4, RecordEffect
    <3> QED BY <2>3, <3>1
  <2> HIDE DEF f
  <2>6. Queued' /\ Publishing' /\ HeldPublished' /\ Counted'
    BY <1>2, <1>6, <1>7, <1>10, <2>2, <2>5, EvictKeepsAccounts
  <2>7. /\ queue' \in [Families -> Seq(Nat)] /\ retained_count' \in [Families -> Int]
        /\ \A g \in Families \ {f} : retained_count'[g] = retained_count[g]
        /\ retained_count'[f] = retained_count[f] - 1
    BY <1>2, <1>10, <2>2, Evicts
  <2>8. next_publish_sweep' = next_publish_sweep /\ pending' = pending /\ next_sweep' = next_sweep
    BY DEF SweepFamily
  <2>9. Shapes'
    BY <1>1, <1>2, <1>6, <2>2, <2>5, <2>7, <2>8 DEF Shapes, Shared, Moves
  <2>10. SweepExclusive'
    BY <1>1, <1>8, <2>5, KeepSweep DEF RetentionInv
  <2>11. ASSUME NEW g \in Families
         PROVE  /\ retained_count'[g] > Limit[g] => retained_count[g] > Limit[g]
                /\ Bound(w, g) => Bound(w, g)'
    <3>1. retained_count[g] \in Int /\ Limit[g] \in Nat
      BY <1>1, Constants DEF Shapes, Shared
    <3>2. retained_count'[g] = retained_count[g] \/ retained_count'[g] = retained_count[g] - 1
      BY <2>7
    <3>3. Bound(w, g) => Bound(w, g)'
      BY <1>6, <1>7, <2>5 DEF Bound, Moves, At
    <3> QED BY <3>1, <3>2, <3>3
  <2>12. Owed'
    <3>1. Owed
      BY DEF RetentionInv
    <3>2. \A g \in Families : retained_count'[g] > Limit[g] => retained_count[g] > Limit[g]
      BY <2>11
    <3>3. \A g \in Families : retained_count'[g] > Limit[g] /\ Bound(w, g) => \E v \in Workers : Bound(v, g)'
      BY <2>11
    <3> QED BY <1>6, <2>5, <3>1, <3>2, <3>3, KeepOwed
  <2> QED BY <2>6, <2>9, <2>10, <2>12 DEF RetentionInv
<1> QED BY <1>9, <1>10

-----------------------------------------------------------------------------
(* Publication *)

\* What a publication does to its worker.
LEMMA PublishEffect ==
  ASSUME RetentionInv, NEW w \in Workers, NEW f \in Families, NEW lease \in BOOLEAN, Publish(w, f, lease)
  PROVE  LET id == Len(home) + 1
         IN \E held \in SUBSET (1 .. id), due \in SUBSET Families :
              /\ Moves(w, "enqueue", held, due)
              /\ workers'[w].fam = f /\ workers'[w].total = id
              /\ id \in held \/ f \in due
              /\ workers[w].held \subseteq held /\ workers[w].due \subseteq due
<1> DEFINE me == workers[w]
           id == Len(home) + 1
           m == IF lease THEN 1 ELSE Quantum
           held == IF lease THEN me.held \cup {id} ELSE me.held
           due == IF lease THEN me.due ELSE me.due \cup {f}
           q == [me EXCEPT !.pc = "enqueue", !.fam = f, !.margin = m]
           r == [q EXCEPT !.total = id, !.held = held, !.due = due]
<1>1. me \in Record /\ Shapes
  BY DEF RetentionInv, Shapes
<1>2. Len(home) \in Nat /\ me.held \subseteq 1 .. Len(home) /\ me.due \subseteq Families
  <2>1. Len(home) \in Nat
    BY <1>1 DEF Shapes, Shared
  <2>2. me.held \subseteq 1 .. Len(home)
    BY DEF RetentionInv, HeldPublished
  <2>3. me.due \subseteq Families
    BY <1>1 DEF Record
  <2> QED BY <2>1, <2>2, <2>3
<1>3. workers' = [workers EXCEPT ![w] = r]
  BY <1>1 DEF Publish, Record
<1>4. m \in {1, Quantum} /\ id \in Nat
  BY <1>2
<1>5. held \subseteq 1 .. id /\ due \subseteq Families /\ me.held \subseteq held /\ me.due \subseteq due
  BY <1>2
<1>6. id \in held \/ f \in due
  OBVIOUS
<1>7. held \in SUBSET Nat /\ id \in Int
  BY <1>4, <1>5
<1> HIDE DEF m, held, due, id
<1>8. q \in Record /\ q.pc = "enqueue" /\ q.fam = f
  <2> HIDE DEF me
  <2> QED BY <1>1, <1>4 DEF Record, PCs
<1>9. r \in Record /\ r.pc = "enqueue" /\ r.fam = f /\ r.total = id /\ r.held = held /\ r.due = due
  <2> HIDE DEF q
  <2> QED BY <1>5, <1>7, <1>8 DEF Record
<1> HIDE DEF r
<1>10. Moves(w, r.pc, r.held, r.due) /\ workers'[w] = r
  BY <1>1, <1>3, <1>9, RecordEffect
<1> HIDE DEF me
<1>11. Moves(w, "enqueue", held, due) /\ workers'[w].fam = f /\ workers'[w].total = id
  BY <1>9, <1>10
<1>12. /\ Moves(w, "enqueue", held, due)
       /\ workers'[w].fam = f /\ workers'[w].total = id
       /\ id \in held \/ f \in due
       /\ workers[w].held \subseteq held /\ workers[w].due \subseteq due
  BY <1>5, <1>6, <1>11 DEF me
<1>13. held \in SUBSET (1 .. id) /\ due \in SUBSET Families
  BY <1>5
<1> QED BY <1>12, <1>13 DEF id

\* Publish: the count goes up before the entry is queued, and the publisher is bound.
LEMMA PublishKeeps ==
  ASSUME RetentionInv, NEW w \in Workers, NEW f \in Families, NEW lease \in BOOLEAN, Publish(w, f, lease)
  PROVE  RetentionInv'
<1> DEFINE n == Len(home)
           id == n + 1
<1>1. Shapes /\ home \in Seq(Families) /\ n \in Nat /\ n <= MaxPublished
  BY DEF RetentionInv, Shapes, Shared
<1>2. PICK held \in SUBSET (1 .. id), due \in SUBSET Families :
        /\ Moves(w, "enqueue", held, due)
        /\ workers'[w].fam = f /\ workers'[w].total = id
        /\ id \in held \/ f \in due
        /\ workers[w].held \subseteq held /\ workers[w].due \subseteq due
  BY PublishEffect
<1>3. /\ home' \in Seq(Families) /\ Len(home') = id
      /\ \A i \in 1 .. n : home'[i] = home[i]
      /\ home'[id] = f
  <2>1. home' = Append(home, f)
    BY DEF Publish
  <2> QED BY <1>1, <2>1, AppendProperties
<1>4. id \in Terminals
  BY DEF Publish
<1>5. /\ queue' = queue /\ next_publish_sweep' = next_publish_sweep /\ pending' = pending
      /\ claimed' = claimed /\ cursor' = cursor /\ next_sweep' = next_sweep
      /\ retained_count' = [retained_count EXCEPT ![f] = @ + 1]
  BY DEF Publish
<1>6. workers[w].pc = "idle"
  BY DEF Publish, At
<1>7. retained_count \in [Families -> Int]
  BY <1>1 DEF Shapes, Shared
<1>8. Shapes'
  <2>1. Len(home') <= MaxPublished
    BY <1>1, <1>3, <1>4, Constants DEF Terminals
  <2>2. retained_count' \in [Families -> Int]
    BY <1>5, <1>7
  <2> QED BY <1>1, <1>2, <1>3, <1>5, <2>1, <2>2 DEF Shapes, Shared, Moves
<1> HIDE DEF id
<1>9. id \in Nat /\ id = n + 1 /\ ~(id \in 1 .. n) /\ id \in 1 .. id /\ 1 .. n \subseteq 1 .. id
  BY <1>1 DEF id
<1> HIDE DEF n
<1>10. Queued /\ Publishing /\ HeldPublished /\ Counted /\ Owed
  BY DEF RetentionInv
<1>11. Queued'
  <2>1. \A g \in Families : \A i \in 1 .. Len(queue[g]) : queue[g][i] \in 1 .. n /\ home[queue[g][i]] = g
    BY <1>10 DEF Queued, n
  <2>2. \A g \in Families : \A i \in 1 .. Len(queue[g]) :
          queue[g][i] \in 1 .. Len(home') /\ home'[queue[g][i]] = g
    BY <1>3, <1>9, <2>1
  <2> QED BY <1>5, <1>10, <2>2 DEF Queued
<1>12. HeldPublished'
  <2> SUFFICES ASSUME NEW v \in Workers PROVE workers'[v].held \subseteq 1 .. id
    BY <1>3 DEF HeldPublished
  <2>1. workers[v].held \subseteq 1 .. n
    BY <1>10 DEF HeldPublished, n
  <2>2. CASE v = w
    BY <1>2, <2>2 DEF Moves
  <2>3. CASE v # w
    BY <1>2, <1>9, <2>1, <2>3 DEF Moves
  <2> QED BY <2>2, <2>3
<1>13. \A v \in Workers \ {w} : workers'[v] = workers[v]
  BY <1>2 DEF Moves
<1>14. workers'[w].pc = "enqueue" /\ workers'[w].held = held /\ workers'[w].due = due
  BY <1>2 DEF Moves
<1>15. ASSUME NEW v \in Workers \ {w}, workers[v].pc = "enqueue"
       PROVE  /\ workers[v].total \in 1 .. n /\ home[workers[v].total] = workers[v].fam
              /\ \A g \in Families : \A i \in 1 .. Len(queue[g]) : queue[g][i] # workers[v].total
              /\ workers[v].total \in workers[v].held \/ workers[v].fam \in workers[v].due
  BY <1>10, <1>15 DEF Publishing, At, n
<1>16. Publishing'
  <2>1. ASSUME NEW v \in Workers, workers'[v].pc = "enqueue"
        PROVE  /\ workers'[v].total \in 1 .. Len(home') /\ home'[workers'[v].total] = workers'[v].fam
               /\ \A g \in Families : \A i \in 1 .. Len(queue'[g]) : queue'[g][i] # workers'[v].total
               /\ workers'[v].total \in workers'[v].held \/ workers'[v].fam \in workers'[v].due
    <3>1. CASE v = w
      <4>1. \A g \in Families : \A i \in 1 .. Len(queue[g]) : queue[g][i] # id
        BY <1>9, <1>10 DEF Queued, n
      <4> QED BY <1>2, <1>3, <1>5, <1>9, <1>14, <3>1, <4>1
    <3>2. CASE v # w
      <4>1. workers'[v] = workers[v] /\ workers[v].pc = "enqueue"
        BY <1>13, <2>1, <3>2
      <4> QED BY <1>3, <1>5, <1>9, <1>15, <3>2, <4>1
    <3> QED BY <3>1, <3>2
  <2>2. ASSUME NEW u \in Workers, NEW v \in Workers, workers'[u].pc = "enqueue",
               workers'[v].pc = "enqueue", workers'[u].total = workers'[v].total
        PROVE  u = v
    <3>1. ASSUME NEW x \in Workers \ {w}, workers'[x].pc = "enqueue"
          PROVE  workers'[x].total # id
      BY <1>9, <1>13, <1>15, <3>1
    <3>2. CASE u = w \/ v = w
      BY <1>2, <2>2, <3>1, <3>2
    <3>3. CASE u # w /\ v # w
      BY <1>10, <1>13, <2>2, <3>3 DEF Publishing, At
    <3> QED BY <3>2, <3>3
  <2> QED BY <2>1, <2>2 DEF Publishing, At
<1>17. Counted'
  <2> SUFFICES ASSUME NEW g \in Families
               PROVE  /\ retained_count'[g] = Len(queue'[g]) + Cardinality(Publishers(g)')
                      /\ retained_count'[g] <= id
    BY <1>3 DEF Counted
  <2> DEFINE a == retained_count[g]
             b == Len(queue[g])
             c == Cardinality(Publishers(g))
  <2>1. a = b + c /\ a <= n
    BY <1>10 DEF Counted, n
  <2>2. IsFiniteSet(Publishers(g))
    <3>1. Publishers(g) \in SUBSET Workers
      BY DEF Publishers
    <3> QED BY <3>1, Constants, FS_Subset
  <2>3. a \in Int /\ b \in Nat /\ c \in Nat
    BY <1>1, <2>2, FS_CardinalityType DEF Shapes, Shared
  <2>4. CASE g = f
    <3>1. Publishers(g)' = Publishers(g) \cup {w} /\ w \notin Publishers(g)
      BY <1>2, <1>6, <1>13, <1>14, <2>4 DEF Publishers, At
    <3>2. Cardinality(Publishers(g)') = c + 1
      BY <2>2, <3>1, FS_AddElement
    <3>3. retained_count'[g] = a + 1
      BY <1>5, <1>7, <2>4
    <3> HIDE DEF a, b, c
    <3>4. a + 1 = b + (c + 1) /\ a + 1 <= id
      BY <1>1, <1>9, <2>1, <2>3
    <3> QED BY <1>5, <3>2, <3>3, <3>4 DEF b
  <2>5. CASE g # f
    <3>1. Publishers(g)' = Publishers(g)
      BY <1>2, <1>6, <1>13, <1>14, <2>5 DEF Publishers, At
    <3>2. retained_count'[g] = a
      BY <1>5, <1>7, <2>5
    <3> HIDE DEF a
    <3>3. a <= id
      BY <1>1, <1>9, <2>1, <2>3
    <3> QED BY <1>5, <2>1, <3>1, <3>2, <3>3
  <2> QED BY <2>4, <2>5
<1>18. SweepExclusive'
  <2>1. ClaimStep(w, "enqueue")
    BY <1>5, <1>6 DEF ClaimStep, SweepPCs, Sweeping
  <2> QED BY <1>1, <1>2, <2>1, KeepSweep DEF RetentionInv
<1>19. Owed'
  <2> SUFFICES ASSUME NEW g \in Families, retained_count'[g] > Limit[g]
               PROVE  \E v \in Workers : Bound(v, g)'
    BY DEF Owed
  <2>1. CASE g = f
    <3>1. Bound(w, g)'
      BY <1>2, <1>3, <1>14, <2>1 DEF Bound
    <3> QED BY <3>1
  <2>2. CASE g # f
    <3>1. retained_count'[g] = retained_count[g]
      BY <1>5, <1>7, <2>2
    <3>2. PICK v \in Workers : Bound(v, g)
      BY <1>10, <3>1 DEF Owed
    <3>3. \A i \in workers[v].held : home'[i] = home[i]
      BY <1>3, <1>10 DEF HeldPublished, n
    <3>4. CASE v = w
      <4>1. Bound(w, g)'
        BY <1>2, <1>6, <1>14, <3>2, <3>3, <3>4 DEF Bound
      <4> QED BY <4>1
    <3>5. CASE v # w
      <4>1. Bound(v, g)'
        BY <1>13, <3>2, <3>3, <3>5 DEF Bound
      <4> QED BY <4>1
    <3> QED BY <3>4, <3>5
  <2> QED BY <2>1, <2>2
<1> QED BY <1>8, <1>11, <1>12, <1>16, <1>17, <1>18, <1>19 DEF RetentionInv

\* Enqueue: the publisher's terminal is in its family's queue instead.
LEMMA EnqueueKeeps ==
  ASSUME RetentionInv, NEW w \in Workers, NEW probe \in BOOLEAN, Enqueue(w, probe)
  PROVE  RetentionInv'
<1> DEFINE me == workers[w]
           th == IF probe THEN "probe" ELSE "idle"
           r == [me EXCEPT !.pc = "count", !.then = th]
<1>1. me \in Record /\ Shapes /\ me.pc = "enqueue"
  BY DEF RetentionInv, Shapes, Enqueue, At
<1>2. th \in Thens
  BY DEF Thens
<1>3. workers' = [workers EXCEPT ![w] = r]
  BY DEF Enqueue
<1> HIDE DEF th
<1>4. r \in Record /\ r.pc = "count" /\ r.held = me.held /\ r.due = me.due
  <2> HIDE DEF me
  <2> QED BY <1>1, <1>2 DEF Record, PCs
<1> HIDE DEF r
<1>5. Moves(w, "count", workers[w].held, workers[w].due)
  BY <1>1, <1>3, <1>4, RecordEffect
<1>6. PICK f \in Families, id \in 1 .. Len(home) :
        f = workers[w].fam /\ id = workers[w].total /\ home[id] = f
  BY <1>1 DEF RetentionInv, Publishing, At, Record
<1>7. \A g \in Families : \A i \in 1 .. Len(queue[g]) : queue[g][i] # id
  BY <1>1, <1>6 DEF RetentionInv, Publishing, At
<1>8. /\ home' = home /\ retained_count' = retained_count /\ next_publish_sweep' = next_publish_sweep
      /\ pending' = pending /\ claimed' = claimed /\ cursor' = cursor /\ next_sweep' = next_sweep
      /\ queue' = [queue EXCEPT ![f] = Append(@, id)]
  BY <1>6 DEF Enqueue
<1>9. queue \in [Families -> Seq(Nat)] /\ Len(home) \in Nat /\ id \in Nat
  BY <1>1 DEF Shapes, Shared
<1> DEFINE n == Len(queue[f])
<1>10. /\ queue' \in [Families -> Seq(Nat)]
       /\ \A g \in Families \ {f} : queue'[g] = queue[g]
       /\ n \in Nat /\ Len(queue'[f]) = n + 1 /\ queue'[f][n + 1] = id
       /\ \A i \in 1 .. n : queue'[f][i] = queue[f][i]
  <2>1. ASSUME NEW s \in Seq(Nat)
        PROVE  /\ Append(s, id) \in Seq(Nat) /\ Len(Append(s, id)) = Len(s) + 1
               /\ Append(s, id)[Len(s) + 1] = id /\ Len(s) \in Nat
               /\ \A i \in 1 .. Len(s) : Append(s, id)[i] = s[i]
    BY <1>9, AppendProperties
  <2>2. queue[f] \in Seq(Nat) /\ queue'[f] = Append(queue[f], id)
    BY <1>8, <1>9
  <2>3. queue' \in [Families -> Seq(Nat)] /\ \A g \in Families \ {f} : queue'[g] = queue[g]
    BY <1>8, <1>9, <2>1
  <2> QED BY <2>1, <2>2, <2>3
<1> HIDE DEF n, me
<1>11. Shapes'
  BY <1>1, <1>5, <1>8, <1>10 DEF Shapes, Shared, Moves
<1>12. Queued /\ Publishing /\ HeldPublished /\ Counted /\ Owed
  BY DEF RetentionInv
<1>13. \A i \in 1 .. n + 1 : i = n + 1 \/ i \in 1 .. n
  BY <1>10
<1>14. /\ \A i \in 1 .. n : queue[f][i] \in 1 .. Len(home) /\ home[queue[f][i]] = f /\ queue[f][i] # id
       /\ \A i, j \in 1 .. n : queue[f][i] = queue[f][j] => i = j
  BY <1>7, <1>12 DEF Queued, n
<1>15. Queued'
  <2> SUFFICES ASSUME NEW g \in Families
               PROVE  /\ \A i \in 1 .. Len(queue'[g]) : queue'[g][i] \in 1 .. Len(home) /\ home[queue'[g][i]] = g
                      /\ \A i, j \in 1 .. Len(queue'[g]) : queue'[g][i] = queue'[g][j] => i = j
    BY <1>8 DEF Queued
  <2>1. CASE g = f
    <3>1. \A i \in 1 .. n + 1 : queue'[f][i] \in 1 .. Len(home) /\ home[queue'[f][i]] = f
      <4> TAKE i \in 1 .. n + 1
      <4>1. CASE i = n + 1
        BY <1>6, <1>10, <4>1
      <4>2. CASE i \in 1 .. n
        BY <1>10, <1>14, <4>2
      <4> QED BY <1>13, <4>1, <4>2
    <3>2. \A i, j \in 1 .. n + 1 : queue'[f][i] = queue'[f][j] => i = j
      BY <1>10, <1>13, <1>14
    <3> QED BY <1>10, <2>1, <3>1, <3>2
  <2>2. CASE g # f
    BY <1>10, <1>12, <2>2 DEF Queued
  <2> QED BY <2>1, <2>2
<1>16. HeldPublished'
  BY <1>5, <1>8, <1>12 DEF HeldPublished, Moves
<1>17. \A v \in Workers : workers'[v].pc = "enqueue" => v # w /\ workers'[v] = workers[v]
  BY <1>5 DEF Moves
<1>18. Publishing'
  <2>1. ASSUME NEW v \in Workers, workers'[v].pc = "enqueue"
        PROVE  \A g \in Families : \A i \in 1 .. Len(queue'[g]) : queue'[g][i] # workers[v].total
    <3>1. workers[v].pc = "enqueue" /\ v # w
      BY <1>17, <2>1
    <3>2. workers[v].total # id
      BY <1>1, <1>6, <1>12, <3>1 DEF Publishing, At, me
    <3>3. \A g \in Families : \A i \in 1 .. Len(queue[g]) : queue[g][i] # workers[v].total
      BY <1>12, <3>1 DEF Publishing, At
    <3> TAKE g \in Families
    <3>4. CASE g = f
      BY <1>10, <1>13, <3>2, <3>3, <3>4 DEF n
    <3>5. CASE g # f
      BY <1>10, <3>3, <3>5
    <3> QED BY <3>4, <3>5
  <2> QED BY <1>8, <1>12, <1>17, <2>1 DEF Publishing, At
<1>19. Counted'
  <2> SUFFICES ASSUME NEW g \in Families
               PROVE  /\ retained_count[g] = Len(queue'[g]) + Cardinality(Publishers(g)')
                      /\ retained_count[g] <= Len(home)
    BY <1>8 DEF Counted
  <2> DEFINE a == retained_count[g]
             c == Cardinality(Publishers(g))
  <2>1. a = Len(queue[g]) + c /\ a <= Len(home)
    BY <1>12 DEF Counted
  <2>2. IsFiniteSet(Publishers(g))
    <3>1. Publishers(g) \in SUBSET Workers
      BY DEF Publishers
    <3> QED BY <3>1, Constants, FS_Subset
  <2>3. a \in Int /\ c \in Nat
    BY <1>1, <2>2, FS_CardinalityType DEF Shapes, Shared
  <2>4. CASE g = f
    <3>1. Publishers(g)' = Publishers(g) \ {w} /\ w \in Publishers(g)
      BY <1>1, <1>5, <1>6, <1>17, <2>4 DEF Publishers, At, Moves, me
    <3>2. Cardinality(Publishers(g)') = c - 1
      BY <2>2, <3>1, FS_RemoveElement
    <3>3. a = n + c
      BY <2>1, <2>4 DEF n
    <3> HIDE DEF a, c
    <3>4. a = (n + 1) + (c - 1)
      BY <1>10, <2>3, <3>3
    <3> QED BY <1>10, <2>1, <2>4, <3>2, <3>4 DEF a
  <2>5. CASE g # f
    <3>1. Publishers(g)' = Publishers(g)
      BY <1>1, <1>5, <1>6, <1>17, <2>5 DEF Publishers, At, Moves, me
    <3> QED BY <1>10, <2>1, <2>5, <3>1
  <2> QED BY <2>4, <2>5
<1>20. SweepExclusive'
  <2>1. ClaimStep(w, "count")
    BY <1>1, <1>8 DEF ClaimStep, SweepPCs, Sweeping, me
  <2> QED BY <1>1, <1>5, <2>1, KeepSweep DEF RetentionInv
<1>21. Owed'
  <2>1. ASSUME NEW g \in Families, Bound(w, g)
        PROVE  Bound(w, g)'
    BY <1>1, <1>5, <1>8, <2>1 DEF Bound, Moves, me
  <2>2. \A g \in Families : retained_count'[g] > Limit[g] /\ Bound(w, g) => \E v \in Workers : Bound(v, g)'
    BY <2>1
  <2>3. \A g \in Families : retained_count'[g] > Limit[g] => retained_count[g] > Limit[g]
    BY <1>8
  <2> QED BY <1>5, <1>8, <1>12, <2>2, <2>3, KeepOwed
<1> QED BY <1>11, <1>15, <1>16, <1>18, <1>19, <1>20, <1>21 DEF RetentionInv

-----------------------------------------------------------------------------
(* The theorems *)

\* The invariant holds at the start.
LEMMA RetentionInit == Init => RetentionInv
<1> SUFFICES ASSUME Init PROVE RetentionInv
  OBVIOUS
<1>1. /\ home = << >> /\ queue = [f \in Families |-> << >>] /\ retained_count = [f \in Families |-> 0]
      /\ workers = [w \in Workers |-> Idle]
  BY DEF Init
<1>2. Idle \in Record
  BY Constants DEF Idle, Record, PCs, Thens
<1>3. Idle.pc = "idle" /\ Idle.held = {}
  BY DEF Idle
<1>4. \A f \in Families : queue[f] = << >> /\ retained_count[f] = 0
  BY <1>1
<1>5. \A w \in Workers : workers[w] = Idle /\ workers[w].pc = "idle" /\ workers[w].held = {}
  BY <1>1, <1>3
<1>6. Shapes
  <2>1. home \in Seq(Families) /\ Len(home) <= MaxPublished
    BY <1>1, Constants
  <2>2. queue \in [Families -> Seq(Nat)] /\ retained_count \in [Families -> Int]
    BY <1>1
  <2>3. next_publish_sweep \in [Families -> Nat \ {0}]
    BY Constants DEF Init
  <2>4. pending \in BOOLEAN /\ claimed \in BOOLEAN /\ cursor \in Families /\ next_sweep \in Nat
    <3>1. pending = FALSE /\ claimed = FALSE /\ cursor = 1 /\ next_sweep = Budget + 1
      BY DEF Init
    <3>2. cursor \in Families /\ next_sweep \in Nat
      BY <3>1, Constants
    <3> QED BY <3>1, <3>2, Zenon
  <2>5. workers \in [Workers -> Record]
    BY <1>1, <1>2
  <2> QED BY <2>1, <2>2, <2>3, <2>4, <2>5 DEF Shapes, Shared
<1>7. Queued
  BY <1>4 DEF Queued
<1>8. Publishing
  BY <1>5 DEF Publishing, At
<1>9. HeldPublished
  BY <1>5 DEF HeldPublished
<1>10. Counted
  <2> SUFFICES ASSUME NEW f \in Families
               PROVE  /\ retained_count[f] = Len(queue[f]) + Cardinality(Publishers(f))
                      /\ retained_count[f] <= Len(home)
    BY DEF Counted
  <2>1. Publishers(f) = {}
    BY <1>5 DEF Publishers, At
  <2>2. Cardinality(Publishers(f)) = 0
    BY <2>1, FS_EmptySet
  <2> QED BY <1>1, <1>4, <2>2
<1>11. SweepExclusive
  BY <1>5 DEF Init, SweepExclusive, Sweeping
<1>12. Owed
  BY <1>4, Constants DEF Owed
<1> QED BY <1>6, <1>7, <1>8, <1>9, <1>10, <1>11, <1>12 DEF RetentionInv

\* Every step of every worker keeps the invariant.
LEMMA RetentionNext == RetentionInv /\ [Next]_vars => RetentionInv'
<1> SUFFICES ASSUME RetentionInv, [Next]_vars PROVE RetentionInv'
  OBVIOUS
<1>1. CASE UNCHANGED vars
  <2>1. Shapes' /\ Queued' /\ Publishing' /\ HeldPublished'
    BY <1>1 DEF vars, RetentionInv, Shapes, Shared, Queued, Publishing, HeldPublished, At
  <2>2. \A f \in Families : Publishers(f)' = Publishers(f)
    BY <1>1 DEF vars, Publishers, At
  <2>3. Counted'
    BY <1>1, <2>2 DEF vars, RetentionInv, Counted
  <2>4. SweepExclusive' /\ Owed'
    BY <1>1 DEF vars, RetentionInv, SweepExclusive, Sweeping, Owed, Bound
  <2> QED BY <2>1, <2>3, <2>4 DEF RetentionInv
<1>2. CASE Next
  <2>1. PICK w \in Workers : Use(w) \/ Enforce(w)
    BY <1>2 DEF Next
  <2>2. CASE Use(w)
    BY <2>2, PublishKeeps, PinKeeps, RequestSteps DEF Use
  <2>3. CASE Enforce(w)
    <3>1. \/ \E probe \in BOOLEAN : Enqueue(w, probe)
          \/ \E id \in Terminals : ReleasePin(w, id)
          \/ Released(w) \/ LoadCount(w) \/ ClaimWatermark(w)
          \/ \E f \in Families : EnforceFamily(w, f)
          \/ FamiliesEnforced(w) \/ TestLimit(w) \/ FamilyEvict(w) \/ Rearm(w)
          \/ SweepGoto(w)
          \/ BeginSweep(w) \/ BeginRound(w) \/ SweepFamily(w) \/ EndRound(w)
      BY <2>3 DEF Enforce, SweepGoto
    <3> QED BY <3>1, EnqueueKeeps, ReleaseKeeps, RequestSteps, LoadCountStep, WatermarkSteps, EnforceKeeps,
               TestLimitKeeps, FamilyEvictKeeps, SweepSteps, RoundSteps, SweepFamilyKeeps
  <2> QED BY <2>1, <2>2, <2>3
<1> QED BY <1>1, <1>2

\* The invariant behind the theorems below.
LEMMA RetentionInvHolds == Spec => []RetentionInv
  BY RetentionInit, RetentionNext, PTL DEF Spec

\* Among any number of workers the claim of the runtime's sweep is a lock: it is
\* taken exactly while one worker sweeps (run_runtime_retention_sweep and the
\* handoff around it).
THEOREM SweepIsExclusive == Spec => []SweepExclusive
<1>1. RetentionInv => SweepExclusive
  BY DEF RetentionInv
<1> QED BY <1>1, RetentionInvHolds, PTL

\* The families' counters are exact: what a family counts is what its queue holds
\* and its publishers are about to enqueue, and no terminal is queued twice or in
\* a family that is not its own.
THEOREM CountersAreExact == Spec => []CountsAreExact
<1>1. ASSUME RetentionInv PROVE CountsAreExact
  <2>1. Shapes /\ Queued /\ HeldPublished /\ Counted
    BY <1>1 DEF RetentionInv
  <2>2. \A f \in Families : queue[f] \in Seq(Nat) /\ retained_count[f] \in Int
    BY <2>1 DEF Shapes, Shared
  <2>3. home \in Seq(Families) /\ Len(home) \in Nat /\ DOMAIN home = 1 .. Len(home) /\ Len(home) <= MaxPublished
    BY <2>1 DEF Shapes, Shared
  <2>4. ASSUME NEW f \in Families
        PROVE  queue[f] \in Seq(DOMAIN home) /\ retained_count[f] \in 0 .. MaxPublished
    <3>1. queue[f] \in [1 .. Len(queue[f]) -> DOMAIN home] /\ Len(queue[f]) \in Nat
      BY <2>1, <2>2, <2>3 DEF Queued
    <3>2. queue[f] \in Seq(DOMAIN home)
      BY <3>1, SeqDef
    <3>3. Publishers(f) \in SUBSET Workers
      BY DEF Publishers
    <3>4. Cardinality(Publishers(f)) \in Nat
      BY <3>3, Constants, FS_Subset, FS_CardinalityType
    <3> DEFINE a == retained_count[f]
               b == Len(queue[f])
               c == Cardinality(Publishers(f))
               h == Len(home)
    <3>5. a \in Int /\ b \in Nat /\ c \in Nat /\ h \in Nat /\ h <= MaxPublished /\ MaxPublished \in Nat
      BY <2>2, <2>3, <3>1, <3>4, Constants
    <3>6. a = b + c /\ a <= h
      BY <2>1 DEF Counted
    <3> HIDE DEF a, b, c, h
    <3>7. a \in 0 .. MaxPublished
      BY <3>5, <3>6
    <3> QED BY <3>2, <3>7 DEF a
  <2>5. ASSUME NEW w \in Workers
        PROVE  workers[w].held \subseteq DOMAIN home /\ workers[w].due \subseteq Families
    BY <2>1, <2>3 DEF HeldPublished, Shapes, Record
  <2>6. TypeOK
    BY <2>1, <2>3, <2>4, <2>5 DEF TypeOK, Shapes, Shared
  <2>7. ASSUME NEW f \in Families
        PROVE  IsInjective(queue[f]) /\ \A id \in Range(queue[f]) : home[id] = f
    <3>1. DOMAIN queue[f] = 1 .. Len(queue[f])
      BY <2>2
    <3> QED BY <2>1, <3>1 DEF Queued, IsInjective, Range
  <2>8. \A f \in Families :
          retained_count[f] = Len(queue[f]) + Cardinality({w \in Workers : At(w, "enqueue") /\ workers[w].fam = f})
    BY <2>1 DEF Counted, Publishers
  <2> QED BY <2>6, <2>7, <2>8 DEF CountsAreExact
<1> QED BY <1>1, RetentionInvHolds, PTL

\* Whatever the interleaving of publishers, pins and passes, a family over its
\* limit is protected, due or in a pass: once every request has ended and every
\* pass has run, every family is within its limit.
THEOREM FamiliesReachTheirLimits == Spec => []FamiliesConverge
<1>1. ASSUME RetentionInv, AtRest, NEW f \in Families PROVE retained_count[f] <= Limit[f]
  <2>1. retained_count[f] \in Int /\ Limit[f] \in Nat
    BY <1>1, Constants DEF RetentionInv, Shapes, Shared
  <2>2. \A w \in Workers : ~Bound(w, f)
    BY <1>1 DEF AtRest, Bound, At
  <2>3. ~(retained_count[f] > Limit[f])
    BY <1>1, <2>2 DEF RetentionInv, Owed
  <2> QED BY <2>1, <2>3
<1>2. RetentionInv => FamiliesConverge
  BY <1>1 DEF FamiliesConverge
<1> QED BY <1>2, RetentionInvHolds, PTL
=============================================================================
