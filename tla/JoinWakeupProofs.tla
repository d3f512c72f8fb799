-------------------------- MODULE JoinWakeupProofs --------------------------
(***************************************************************************)
(* No wake-up is lost and no waiter count is leaked, for any number of     *)
(* joiners and any sharing of cancellation tokens. What a joiner tested    *)
(* before it parks may change until it is parked; the invariant says that  *)
(* whoever changes it has its notification still ahead, because it needs   *)
(* the generation that the joiner holds from its test to its parking.      *)
(***************************************************************************)
EXTENDS JoinWakeup, FiniteSetTheorems, TLAPS

\* Every leaf may take its time.
USE SMTT(120), ZenonT(120)

JoinLabels == {"enter", "watch", "watched", "self", "wake", "check", "wait", "predicate", "peek",
               "park", "parked", "unwatch", "done"}
OwnerLabels == {"computing", "notify", "wake", "done"}
TokenLabels == {"live", "lock", "each", "notify", "wake", "done"}

\* The type invariant without the waiter count, and where each actor can be.
Shapes ==
  /\ attempt \in {"computing", "terminal", "gone"}
  /\ canceled \in [Tokens -> BOOLEAN]
  /\ watchers \in [Tokens -> SUBSET Joiners] /\ todo \in [Tokens -> SUBSET Joiners]
  /\ state \in Joiners \cup {None} /\ generation \in Joiners \cup {None}
  /\ registry \in [Tokens -> Tokens \cup {None}]
  /\ outcome \in [Joiners -> {"none", "canceled", "retry", "joined"}]

Labels ==
  /\ pc \in [Actors -> JoinLabels \cup OwnerLabels \cup TokenLabels]
  /\ \A j \in Joiners : pc[j] \in JoinLabels
  /\ pc[Owner] \in OwnerLabels
  /\ \A k \in Tokens : pc[k] \in TokenLabels

\* The joins that have not returned.
Joining == {j \in Joiners : outcome[j] = "none"}

\* Each of them is counted as a waiter, until the attempt is gone.
Counted ==
  /\ At(Owner, "computing") <=> attempt = "computing"
  /\ \A j \in Joiners : outcome[j] = "none" <=> pc[j] \notin {"unwatch", "done"}
  /\ waiters = IF attempt = "gone" THEN 0 ELSE Cardinality(Joining)

\* A joiner in the loop is registered with its token.
Registered == \A j \in Joiners : pc[j] \notin {"enter", "watch", "done"} => j \in watchers[TokenOf[j]]

\* From its test to its parking a joiner holds the generation.
HoldsGeneration == \A j \in Joiners : pc[j] \in {"predicate", "peek", "park"} => generation = j

\* A token that was canceled since the test has its notification ahead.
CancelAhead ==
  \A j \in Joiners :
    pc[j] \in {"peek", "park", "parked"} /\ canceled[TokenOf[j]] =>
      LET k == TokenOf[j]
      IN \/ At(k, "lock") \/ At(k, "notify")
         \/ At(k, "each") /\ j \in todo[k]
         \/ At(k, "wake") /\ At(j, "parked")

\* So has the owner, when the attempt ended since.
EndAhead ==
  \A j \in Joiners :
    pc[j] \in {"park", "parked"} /\ attempt # "computing" =>
      At(Owner, "notify") \/ (At(Owner, "wake") /\ At(j, "parked"))

WakeupInv == Shapes /\ Labels /\ Counted /\ Registered /\ HoldsGeneration /\ CancelAhead /\ EndAhead

-----------------------------------------------------------------------------
\* Joiners, tokens and the owner are different actors.
LEMMA ActorKinds ==
  /\ Joiners \subseteq Actors /\ Tokens \subseteq Actors /\ Owner \in Actors
  /\ \A j \in Joiners : j \notin Tokens /\ j # Owner /\ TokenOf[j] \in Tokens /\ j # None
  /\ \A k \in Tokens : k # Owner /\ k # None
  BY WakeupAssumption DEF Actors

\* The invariant holds initially: every joiner is counted and none waits.
LEMMA InvInit == Init => WakeupInv
  <1> SUFFICES ASSUME Init
               PROVE  WakeupInv
    OBVIOUS
  <1>1. /\ \A j \in Joiners : pc[j] = "enter"
        /\ pc[Owner] = "computing" /\ \A k \in Tokens : pc[k] = "live"
    BY ActorKinds DEF Init
  <1>2. Joining = Joiners
    BY DEF Init, Joining
  <1>3. Shapes
    BY DEF Init, Shapes
  <1>4. Labels
    BY <1>1 DEF Init, Labels, JoinLabels, OwnerLabels, TokenLabels
  <1>5. Counted
    BY <1>1, <1>2 DEF Init, Counted, At
  <1>6. Registered /\ HoldsGeneration /\ CancelAhead /\ EndAhead
    BY <1>1 DEF Registered, HoldsGeneration, CancelAhead, EndAhead
  <1> QED
    BY <1>3, <1>4, <1>5, <1>6 DEF WakeupInv

\* What Ends does, read off its cases.
LEMMA EndsCases ==
  ASSUME NEW j, NEW leave, NEW stay, Ends(j, leave, stay)
  PROVE  \/ /\ ~canceled[TokenOf[j]] /\ attempt = "computing"
            /\ outcome' = [outcome EXCEPT ![j] = @] /\ waiters' = waiters
            /\ pc' = [pc EXCEPT ![j] = stay]
         \/ /\ \E why \in {"canceled", "retry", "joined"} : outcome' = [outcome EXCEPT ![j] = why]
            /\ waiters' = IF attempt # "gone" THEN waiters - 1 ELSE waiters
            /\ pc' = [pc EXCEPT ![j] = leave]
  BY DEF Ends, Goto

\* Every step keeps flags, mutex holders, watcher lists and outcomes in range.
LEMMA ShapesStep == Shapes /\ Labels /\ [Next]_vars => Shapes'
  <1> SUFFICES ASSUME Shapes, Labels, [Next]_vars
               PROVE  Shapes'
    OBVIOUS
  <1>1. ASSUME NEW j \in Joiners, Enter(j) \/ Check(j)
        PROVE  Shapes'
    <2>1. \E l, s : Ends(j, l, s)
      BY <1>1 DEF Enter, Check
    <2>2. outcome' \in [Joiners -> {"none", "canceled", "retry", "joined"}]
      BY <2>1, EndsCases DEF Shapes
    <2> QED
      BY <1>1, <2>2 DEF Enter, Check, Shapes
  <1>2. ASSUME NEW j \in Joiners, Watch(j) \/ Unwatch(j)
        PROVE  Shapes'
    BY <1>2 DEF Watch, Unwatch, Shapes
  <1>3. ASSUME NEW j \in Joiners, Watched(j) \/ Wait(j) \/ Predicate(j) \/ Peek(j) \/ Park(j)
        PROVE  Shapes'
    BY <1>3 DEF Watched, Wait, Predicate, Peek, Park, Shapes
  <1>4. ASSUME NEW a \in Actors, Notify(a)
        PROVE  Shapes'
    BY <1>4 DEF Notify, Bump, Wake, Shapes
  <1>5. ASSUME NEW result \in {"terminal", "gone"}, End(result)
        PROVE  Shapes'
    BY <1>5 DEF End, Shapes
  <1>6. ASSUME NEW k \in Tokens, Cancel(k)
        PROVE  Shapes'
    BY <1>6 DEF Cancel, Shapes
  <1>7. ASSUME NEW k \in Tokens, CancelLock(k)
        PROVE  Shapes'
    BY <1>7 DEF CancelLock, Shapes
  <1>8. ASSUME NEW k \in Tokens, CancelEach(k)
        PROVE  Shapes'
    BY <1>8 DEF CancelEach, Shapes
  <1>9. CASE UNCHANGED vars
    BY <1>9 DEF vars, Shapes
  <1> QED
    BY <1>1, <1>2, <1>3, <1>4, <1>5, <1>6, <1>7, <1>8, <1>9 DEF Next, JoinStep, CancelStep

\* Every actor stays in its own program.
LEMMA LabelsStep == Shapes /\ Labels /\ [Next]_vars => Labels'
  <1> SUFFICES ASSUME Shapes, Labels, [Next]_vars
               PROVE  Labels'
    OBVIOUS
  <1> USE DEF JoinLabels, OwnerLabels, TokenLabels, Goto, At
  <1>g. ASSUME NEW a \in Actors, NEW l, pc' = [pc EXCEPT ![a] = l],
               a \in Joiners => l \in JoinLabels, a \in Tokens => l \in TokenLabels,
               a = Owner => l \in OwnerLabels
        PROVE  Labels'
    BY <1>g, ActorKinds DEF Labels, Actors
  <1>1. ASSUME NEW j \in Joiners, Enter(j) \/ Check(j)
        PROVE  Labels'
    <2>1. Ends(j, "done", "watch") \/ Ends(j, "unwatch", "wait")
      BY <1>1 DEF Enter, Check
    <2>2. \E l \in {"done", "watch", "unwatch", "wait"} : pc' = [pc EXCEPT ![j] = l]
      BY <2>1 DEF Ends
    <2> QED
      BY <2>2, <1>g, ActorKinds
  <1>2. ASSUME NEW j \in Joiners,
               Watch(j) \/ Watched(j) \/ Wait(j) \/ Predicate(j) \/ Peek(j) \/ Park(j) \/ Unwatch(j)
        PROVE  Labels'
    BY <1>2, <1>g, ActorKinds DEF Watch, Watched, Wait, Predicate, Peek, Park, Unwatch
  <1>3. ASSUME NEW a \in Actors, Bump(a)
        PROVE  Labels'
    BY <1>3, <1>g DEF Bump
  <1>4. ASSUME NEW a \in Actors, Wake(a)
        PROVE  Labels'
    BY <1>4, ActorKinds DEF Wake, Woken, Labels
  <1>5. ASSUME NEW result \in {"terminal", "gone"}, End(result)
        PROVE  Labels'
    BY <1>5, <1>g, ActorKinds DEF End
  <1>6. ASSUME NEW k \in Tokens, Cancel(k) \/ CancelLock(k) \/ CancelEach(k)
        PROVE  Labels'
    BY <1>6, <1>g, ActorKinds DEF Cancel, CancelLock, CancelEach
  <1>7. CASE UNCHANGED vars
    BY <1>7 DEF vars, Labels
  <1> QED
    BY <1>1, <1>2, <1>3, <1>4, <1>5, <1>6, <1>7 DEF Next, JoinStep, CancelStep, Notify

\* A join that returns gives its count back in the same step, and the count of a
\* lost attempt is dropped at once.
LEMMA CountedStep == Shapes /\ Labels /\ Counted /\ [Next]_vars => Counted'
  <1> SUFFICES ASSUME Shapes, Labels, Counted, [Next]_vars
               PROVE  Counted'
    OBVIOUS
  <1> USE DEF At, Goto
  <1>q. ASSUME UNCHANGED <<attempt, outcome, waiters>>, pc'[Owner] = "computing" <=> pc[Owner] = "computing",
               \A j \in Joiners : pc'[j] \in {"unwatch", "done"} <=> pc[j] \in {"unwatch", "done"}
        PROVE  Counted'
    BY <1>q DEF Counted, Joining
  <1>1. ASSUME NEW j \in Joiners, NEW leave \in {"unwatch", "done"}, NEW stay \in {"watch", "wait"},
               Ends(j, leave, stay), pc[j] \in {"enter", "check"}, UNCHANGED attempt
        PROVE  Counted'
    <2>1. outcome[j] = "none"
      BY <1>1 DEF Counted
    <2>2. CASE outcome' = [outcome EXCEPT ![j] = @] /\ waiters' = waiters /\ pc' = [pc EXCEPT ![j] = stay]
      <3>1. outcome' = outcome
        BY <2>2 DEF Shapes
      <3>2. \A i \in Joiners : pc'[i] \in {"unwatch", "done"} <=> pc[i] \in {"unwatch", "done"}
        BY <1>1, <2>2 DEF Labels
      <3>3. pc'[Owner] = pc[Owner]
        BY <2>2, ActorKinds DEF Labels
      <3> QED
        BY <1>1, <2>2, <3>1, <3>2, <3>3, <1>q
    <2>3. ASSUME NEW why \in {"canceled", "retry", "joined"}, outcome' = [outcome EXCEPT ![j] = why],
                 waiters' = IF attempt # "gone" THEN waiters - 1 ELSE waiters,
                 pc' = [pc EXCEPT ![j] = leave]
          PROVE  Counted'
      <3>1. Joining' = Joining \ {j} /\ j \in Joining
        BY <2>1, <2>3 DEF Joining, Shapes
      <3>2. IsFiniteSet(Joining)
        BY WakeupAssumption, FS_Subset DEF Joining
      <3>3. Cardinality(Joining') = Cardinality(Joining) - 1
        BY <3>1, <3>2, FS_RemoveElement
      <3>4. \A i \in Joiners : outcome'[i] = "none" <=> pc'[i] \notin {"unwatch", "done"}
        BY <2>3, ActorKinds DEF Counted, Shapes, Labels
      <3>5. pc'[Owner] = pc[Owner]
        BY <2>3, ActorKinds DEF Labels
      <3> QED
        BY <1>1, <2>3, <3>3, <3>4, <3>5 DEF Counted
    <2> QED
      BY <1>1, EndsCases, <2>2, <2>3
  <1>2. ASSUME NEW j \in Joiners, Enter(j) \/ Check(j)
        PROVE  Counted'
    BY <1>2, <1>1 DEF Enter, Check
  <1>3. ASSUME NEW j \in Joiners,
               Watch(j) \/ Watched(j) \/ Wait(j) \/ Predicate(j) \/ Peek(j) \/ Park(j) \/ Unwatch(j)
        PROVE  Counted'
    <2>1. /\ UNCHANGED <<attempt, outcome, waiters>> /\ pc'[Owner] = pc[Owner]
      BY <1>3, ActorKinds DEF Watch, Watched, Wait, Predicate, Peek, Park, Unwatch, Labels
    <2>2. \A i \in Joiners : pc'[i] \in {"unwatch", "done"} <=> pc[i] \in {"unwatch", "done"}
      BY <1>3, ActorKinds DEF Watch, Watched, Wait, Predicate, Peek, Park, Unwatch, Labels
    <2> QED
      BY <2>1, <2>2, <1>q
  <1>4. ASSUME NEW a \in Actors, Bump(a)
        PROVE  Counted'
    <2>1. /\ UNCHANGED <<attempt, outcome, waiters>> /\ (pc'[Owner] = "computing" <=> pc[Owner] = "computing")
          /\ \A i \in Joiners : pc'[i] \in {"unwatch", "done"} <=> pc[i] \in {"unwatch", "done"}
      BY <1>4, ActorKinds DEF Bump, Labels
    <2> QED
      BY <2>1, <1>q
  <1>5. ASSUME NEW a \in Actors, Wake(a)
        PROVE  Counted'
    <2>1. /\ UNCHANGED <<attempt, outcome, waiters>> /\ (pc'[Owner] = "computing" <=> pc[Owner] = "computing")
          /\ \A i \in Joiners : pc'[i] \in {"unwatch", "done"} <=> pc[i] \in {"unwatch", "done"}
      BY <1>5, ActorKinds DEF Wake, Woken, Labels
    <2> QED
      BY <2>1, <1>q
  <1>6. ASSUME NEW result \in {"terminal", "gone"}, End(result)
        PROVE  Counted'
    <2>1. attempt = "computing" /\ attempt' = result /\ pc'[Owner] = "notify" /\ outcome' = outcome
          /\ \A j \in Joiners : pc'[j] = pc[j]
      BY <1>6, ActorKinds DEF End, Counted, Labels
    <2> QED
      BY <1>6, <2>1 DEF End, Counted, Joining
  <1>7. ASSUME NEW k \in Tokens, Cancel(k) \/ CancelLock(k) \/ CancelEach(k)
        PROVE  Counted'
    <2>1. UNCHANGED <<attempt, outcome, waiters>> /\ pc'[Owner] = pc[Owner] /\ \A j \in Joiners : pc'[j] = pc[j]
      BY <1>7, ActorKinds DEF Cancel, CancelLock, CancelEach, Labels
    <2> QED
      BY <2>1, <1>q
  <1>8. CASE UNCHANGED vars
    BY <1>8, <1>q DEF vars
  <1> QED
    BY <1>2, <1>3, <1>4, <1>5, <1>6, <1>7, <1>8 DEF Next, JoinStep, CancelStep, Notify

\* No step parts a parked joiner from the notification it needs: a test and the
\* parking after it happen under the generation, which notify_all takes too.
LEMMA AheadStep ==
  WakeupInv /\ [Next]_vars => Registered' /\ HoldsGeneration' /\ CancelAhead' /\ EndAhead'
  <1> DEFINE Reg(j) == pc[j] \notin {"enter", "watch", "done"} => j \in watchers[TokenOf[j]]
             Gen(j) == pc[j] \in {"predicate", "peek", "park"} => generation = j
             Can(j) == pc[j] \in {"peek", "park", "parked"} /\ canceled[TokenOf[j]] =>
                         \/ pc[TokenOf[j]] = "lock" \/ pc[TokenOf[j]] = "notify"
                         \/ pc[TokenOf[j]] = "each" /\ j \in todo[TokenOf[j]]
                         \/ pc[TokenOf[j]] = "wake" /\ pc[j] = "parked"
             Fin(j) == pc[j] \in {"park", "parked"} /\ attempt # "computing" =>
                         pc[Owner] = "notify" \/ (pc[Owner] = "wake" /\ pc[j] = "parked")
             All(j) == Reg(j) /\ Gen(j) /\ Can(j) /\ Fin(j)
  <1>0. WakeupInv => \A j \in Joiners : All(j)
    BY DEF WakeupInv, Registered, HoldsGeneration, CancelAhead, EndAhead, At
  <1> SUFFICES ASSUME WakeupInv, [Next]_vars, NEW j \in Joiners
               PROVE  All(j)'
    BY DEF Registered, HoldsGeneration, CancelAhead, EndAhead, At
  <1> DEFINE k == TokenOf[j]
  <1>a. Shapes /\ Labels /\ Counted /\ All(j)
    BY <1>0 DEF WakeupInv
  <1>b. /\ k \in Tokens /\ k # Owner /\ j # Owner /\ j # k /\ j # None /\ k # None
        /\ j \in Actors /\ k \in Actors /\ Owner \in Actors
    BY ActorKinds
  <1>c. pc[j] \in JoinLabels /\ pc[k] \in TokenLabels /\ pc[Owner] \in OwnerLabels
    BY <1>a, <1>b DEF Labels
  <1> HIDE DEF k
  <1>k. TokenOf[j] = k
    BY DEF k
  \* A step of somebody else that leaves j, its token and the owner alone.
  <1>f. ASSUME pc'[j] = pc[j], pc'[k] = pc[k], pc'[Owner] = pc[Owner],
               UNCHANGED <<attempt, canceled, todo>>, j \in watchers[k] => j \in watchers'[k],
               generation = j => generation' = j
        PROVE  All(j)'
    BY <1>f, <1>a, <1>k
  <1> USE DEF At, Goto
  \* A step of j that leaves the mutexes of others alone.
  <1>1. ASSUME Enter(j)
        PROVE  All(j)'
    <2>1. pc'[j] \in {"done", "watch"}
      BY <1>1, <1>a, <1>b DEF Enter, Ends, Labels
    <2> QED
      BY <2>1
  <1>2. ASSUME Watch(j)
        PROVE  All(j)'
    <2>1. pc'[j] = "watched" /\ j \in watchers'[k]
      BY <1>2, <1>a, <1>b, <1>k DEF Watch, Labels, Shapes
    <2> QED
      BY <2>1, <1>k
  <1>3. ASSUME Watched(j) \/ Check(j)
        PROVE  All(j)'
    <2>1. pc'[j] \in {"self", "check", "unwatch", "wait"} /\ watchers' = watchers /\ pc[j] \in {"watched", "check"}
      BY <1>3, <1>a, <1>b DEF Watched, Check, Ends, Labels
    <2> QED
      BY <2>1, <1>a
  <1>4. ASSUME Wait(j)
        PROVE  All(j)'
    <2>1. pc[j] = "wait" /\ pc'[j] = "predicate" /\ generation' = j /\ watchers' = watchers
      BY <1>4, <1>a, <1>b DEF Wait, Labels
    <2> QED
      BY <2>1, <1>a
  <1>5. ASSUME Predicate(j)
        PROVE  All(j)'
    <2>1. /\ pc[j] = "predicate" /\ watchers' = watchers /\ canceled' = canceled
          /\ pc'[j] = "check" \/ (pc'[j] = "peek" /\ generation' = j /\ ~canceled[k])
      BY <1>5, <1>a, <1>b, <1>k DEF Predicate, Labels
    <2> QED
      BY <2>1, <1>a, <1>k
  <1>6. ASSUME Peek(j)
        PROVE  All(j)'
    <2>1. /\ pc[j] = "peek" /\ UNCHANGED <<watchers, canceled, attempt, todo>>
          /\ pc'[j] = "check" \/ (pc'[j] = "park" /\ generation' = j /\ attempt = "computing")
          /\ pc'[k] = pc[k] /\ pc'[Owner] = pc[Owner]
      BY <1>6, <1>a, <1>b DEF Peek, Labels
    <2> QED
      BY <2>1, <1>a, <1>k
  <1>7. ASSUME Park(j)
        PROVE  All(j)'
    <2>1. /\ pc[j] = "park" /\ UNCHANGED <<watchers, canceled, attempt, todo>> /\ pc'[j] = "parked"
          /\ pc'[k] = pc[k] /\ pc'[Owner] = pc[Owner]
      BY <1>7, <1>a, <1>b DEF Park, Labels
    <2> QED
      BY <2>1, <1>a, <1>k
  <1>8. ASSUME Unwatch(j)
        PROVE  All(j)'
    <2>1. pc'[j] = "done"
      BY <1>8, <1>a, <1>b DEF Unwatch, Labels
    <2> QED
      BY <2>1
  \* A step of another joiner takes the generation only when it is free.
  <1>9. ASSUME NEW i \in Joiners, i # j, JoinStep(i)
        PROVE  All(j)'
    <2>1. i # k /\ i # Owner /\ i # None
      BY ActorKinds, <1>b
    <2>2. pc'[j] = pc[j] /\ pc'[k] = pc[k] /\ pc'[Owner] = pc[Owner]
      <3>1. \E l : pc' = [pc EXCEPT ![i] = l]
        BY <1>9 DEF JoinStep, Enter, Watch, Watched, Check, Ends, Wait, Predicate, Peek, Park, Unwatch
      <3> QED
        BY <3>1, <2>1, <1>9, <1>a, <1>b DEF Labels
    <2>3. UNCHANGED <<attempt, canceled, todo>>
      BY <1>9 DEF JoinStep, Enter, Watch, Watched, Check, Ends, Wait, Predicate, Peek, Park, Unwatch
    <2>4. j \in watchers[k] => j \in watchers'[k]
      BY <1>9, <1>a, <1>b DEF JoinStep, Enter, Watch, Watched, Check, Ends, Wait, Predicate, Peek, Park, Unwatch, Shapes
    <2>5. pc[i] \in {"predicate", "peek", "park"} => generation = i
      BY <1>0
    <2>6. generation = j => generation' = j
      BY <1>9, <1>b, <2>5 DEF JoinStep, Enter, Watch, Watched, Check, Ends, Wait, Predicate, Peek, Park, Unwatch
    <2> QED
      BY <2>2, <2>3, <2>4, <2>6, <1>f
  \* A notification waits for the generation, so it finds j parked or before its test.
  <1>10. ASSUME NEW a \in Actors, Bump(a)
         PROVE  All(j)'
    <2>1. /\ UNCHANGED <<attempt, canceled, todo, watchers, generation>> /\ generation = None
          /\ pc' = [pc EXCEPT ![a] = "wake"] /\ pc[a] \in {"notify", "self"}
      BY <1>10 DEF Bump
    <2>2. pc[j] \notin {"predicate", "peek", "park"}
      BY <2>1, <1>a, <1>b
    <2>3. CASE a = j
      <3>1. pc[j] = "self" /\ pc'[j] = "wake"
        BY <2>1, <2>3, <1>c, <1>a, <1>b DEF JoinLabels, Labels
      <3> QED
        BY <3>1, <2>1, <1>a
    <2>4. CASE a # j
      <3>1. /\ pc'[j] = pc[j] /\ pc'[k] = (IF a = k THEN "wake" ELSE pc[k])
            /\ pc'[Owner] = (IF a = Owner THEN "wake" ELSE pc[Owner])
        BY <2>1, <2>4, <1>a, <1>b DEF Labels
      <3>2. Reg(j)' /\ Gen(j)'
        BY <3>1, <2>1, <1>a, <1>k
      <3>3. Can(j)'
        BY <3>1, <2>1, <2>2, <1>a, <1>k
      <3>4. Fin(j)'
        BY <3>1, <2>1, <2>2, <1>a
      <3> QED
        BY <3>2, <3>3, <3>4
    <2> QED
      BY <2>3, <2>4
  \* After notify_all nobody is parked, and nobody parks while it is under way.
  <1>11. ASSUME NEW a \in Actors, Wake(a)
         PROVE  All(j)'
    <2>1. /\ UNCHANGED <<attempt, canceled, todo, watchers, generation>> /\ pc[a] = "wake"
          /\ pc' = Woken(a, IF a \in Joiners THEN "check" ELSE IF a = Owner THEN "done" ELSE "each")
      BY <1>11 DEF Wake
    <2>2. CASE a = j
      <3>1. pc'[j] = "check"
        BY <2>1, <2>2, <1>b DEF Woken
      <3> QED
        BY <3>1, <2>1, <2>2, <1>a
    <2>3. CASE a # j /\ pc[j] = "parked"
      <3>1. pc'[j] = "wait"
        BY <2>1, <2>3, <1>b DEF Woken
      <3> QED
        BY <3>1, <2>1, <2>3, <1>a
    <2>4. CASE a # j /\ pc[j] # "parked"
      <3>1. /\ pc'[j] = pc[j] /\ (a # k => pc'[k] = pc[k]) /\ (a # Owner => pc'[Owner] = pc[Owner])
        BY <2>1, <2>4, <1>b, <1>c DEF Woken, TokenLabels, OwnerLabels
      <3> QED
        BY <3>1, <2>1, <2>4, <1>a, <1>k
    <2> QED
      BY <2>2, <2>3, <2>4
  <1>12. ASSUME NEW result \in {"terminal", "gone"}, End(result)
         PROVE  All(j)'
    <2>1. /\ pc'[Owner] = "notify" /\ pc'[j] = pc[j] /\ pc'[k] = pc[k]
          /\ UNCHANGED <<canceled, todo, watchers, generation>>
      BY <1>12, <1>a, <1>b DEF End, Labels
    <2> QED
      BY <2>1, <1>a, <1>k
  <1>13. ASSUME NEW h \in Tokens, Cancel(h)
         PROVE  All(j)'
    <2>0. h # j /\ h # Owner
      BY ActorKinds
    <2>1. /\ pc'[Owner] = pc[Owner] /\ pc'[j] = pc[j] /\ UNCHANGED <<attempt, todo, watchers, generation>>
          /\ pc'[k] = "lock" \/ (pc'[k] = pc[k] /\ canceled'[k] = canceled[k])
      BY <1>13, <2>0, <1>a, <1>b DEF Cancel, Labels, Shapes
    <2> QED
      BY <2>1, <1>a, <1>k
  <1>14. ASSUME NEW h \in Tokens, CancelLock(h)
         PROVE  All(j)'
    <2>0. h # j /\ h # Owner
      BY ActorKinds
    <2>1. /\ pc'[Owner] = pc[Owner] /\ pc'[j] = pc[j] /\ UNCHANGED <<attempt, canceled, watchers, generation>>
          /\ \/ pc'[k] = "each" /\ todo'[k] = watchers[k]
             \/ pc'[k] = pc[k] /\ todo'[k] = todo[k]
      BY <1>14, <2>0, <1>a, <1>b DEF CancelLock, Labels, Shapes
    <2> QED
      BY <2>1, <1>a, <1>k
  <1>15. ASSUME NEW h \in Tokens, CancelEach(h)
         PROVE  All(j)'
    <2>0. h # j /\ h # Owner
      BY ActorKinds
    <2>1. /\ pc'[Owner] = pc[Owner] /\ pc'[j] = pc[j] /\ UNCHANGED <<attempt, canceled, watchers, generation>>
          /\ \/ pc'[k] = "notify"
             \/ pc[k] = "each" /\ todo[k] = {}
             \/ pc'[k] = pc[k] /\ todo'[k] = todo[k]
      BY <1>15, <2>0, <1>a, <1>b DEF CancelEach, Labels, Shapes
    <2> QED
      BY <2>1, <1>a, <1>k
  <1>16. CASE UNCHANGED vars
    BY <1>16, <1>f DEF vars
  <1> HIDE DEF All
  <1>17. ASSUME NEW i \in Joiners, JoinStep(i)
         PROVE  All(j)'
    BY <1>17, <1>1, <1>2, <1>3, <1>4, <1>5, <1>6, <1>7, <1>8, <1>9 DEF JoinStep
  <1> QED
    BY <1>10, <1>11, <1>12, <1>13, <1>14, <1>15, <1>16, <1>17 DEF Next, CancelStep, Notify

\* Every step keeps the invariant.
LEMMA InvStep == WakeupInv /\ [Next]_vars => WakeupInv'
  BY ShapesStep, LabelsStep, CountedStep, AheadStep DEF WakeupInv

\* The invariant of parking and cancellation holds of every reachable state.
THEOREM InvHolds == Spec => []WakeupInv
  BY InvInit, InvStep, PTL DEF Spec

\* WaitCell loses no wake-up, of publication, abort or cancellation, however
\* many joins share tokens and however their mutex sections interleave.
THEOREM WakeupsAreNotLost == Spec => []NoLostWakeup
  <1>1. WakeupInv => NoLostWakeup
    <2> SUFFICES ASSUME WakeupInv, NEW j \in Joiners, At(j, "parked"),
                        attempt # "computing" \/ canceled[TokenOf[j]]
                 PROVE  Coming(j)
      BY DEF NoLostWakeup
    <2>1. CASE attempt # "computing"
      BY <2>1, ActorKinds DEF WakeupInv, EndAhead, At, Coming
    <2>2. CASE canceled[TokenOf[j]]
      BY <2>2, ActorKinds DEF WakeupInv, CancelAhead, At, Coming
    <2> QED
      BY <2>1, <2>2
  <1> QED
    BY <1>1, InvHolds, PTL

\* Every way out of join returns the waiter count exactly once.
THEOREM WaitersAreReturned == Spec => []WaitersReturned
  <1>1. WakeupInv => WaitersReturned
    <2> SUFFICES ASSUME WakeupInv
                 PROVE  WaitersReturned
      OBVIOUS
    <2>1. IsFiniteSet(Joining) /\ Cardinality(Joining) <= Cardinality(Joiners)
      BY WakeupAssumption, FS_Subset DEF Joining
    <2>2. Cardinality(Joining) \in Nat /\ Cardinality(Joiners) \in Nat
      BY <2>1, WakeupAssumption, FS_CardinalityType
    <2>3. waiters \in 0 .. Cardinality(Joiners)
      BY <2>1, <2>2 DEF WakeupInv, Counted
    <2>4. TypeOK
      BY <2>3 DEF WakeupInv, Shapes, TypeOK
    <2> QED
      BY <2>4 DEF WakeupInv, Counted, Joining, WaitersReturned
  <1> QED
    BY <1>1, InvHolds, PTL
=============================================================================
