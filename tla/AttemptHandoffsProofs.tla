------------------------ MODULE AttemptHandoffsProofs ------------------------
(***************************************************************************)
(* Proofs about attempt handoffs: the inductive invariant, the safety      *)
(* properties that follow from it, and the refinement of atomic commits.   *)
(*                                                                         *)
(* The invariant has eight parts. The type invariant. EffectsSound: what   *)
(* is in force matches the state and the owner's progress. Known: only     *)
(* published lifecycles are referred to. Plans: a task's collection is     *)
(* closed under observation, and at the end of its claims is its own or    *)
(* committed. Closed: so is what has been committed. Leases and Checked:   *)
(* what a request holds is not evicted and has been validated.             *)
(* BodiesRunOnce, which follows from these two.                            *)
(***************************************************************************)
EXTENDS AttemptHandoffs, TLAPS

\* Every leaf may take its time.
USE SMTT(120), ZenonT(120)

-----------------------------------------------------------------------------
(* Types *)

\* The type invariant, in the groups the actions change together.
LifecycleTypes ==
  /\ state \in [Lifecycles -> {"unpublished", "Pending", "Committing", "Committed", "Aborted"}]
  /\ owner \in [Lifecycles -> Tasks \cup {None}]
  /\ observed \in [Lifecycles -> SUBSET Lifecycles]
RetentionTypes ==
  /\ retained \subseteq Lifecycles /\ evicting \subseteq Lifecycles
  /\ evictions \in 0..MaxEvictions
EffectTypes ==
  /\ installed \in [Lifecycles -> SUBSET Nat]
  /\ attempted \in [Lifecycles -> Nat]
  /\ \A l \in Lifecycles : installed[l] \subseteq 1..Callbacks[l] /\ attempted[l] <= Callbacks[l]
  /\ broken \subseteq Lifecycles
EvaluationTypes ==
  /\ active \in [Tasks -> SUBSET Queries] /\ bodies \in [Tasks -> SUBSET Queries]
  /\ fresh \in [Tasks -> Lifecycles \cup {None}]
  /\ has \in [Tasks -> [Queries -> Lifecycles \cup {None}]]
  /\ checked \in [Tasks -> SUBSET Lifecycles]
CommitTypes ==
  /\ pc \in [Tasks -> PCs]
  /\ frontier \in [Tasks -> SUBSET Lifecycles]
  /\ plan \in [Tasks -> SUBSET Lifecycles]
  /\ toClaim \in [Tasks -> SUBSET Lifecycles]
  /\ canceled \subseteq Tasks
  /\ verdict \in [Tasks -> {"none", "ok", "canceled", "invalidated", "panicked"}]

\* The type invariant is the conjunction of its groups.
LEMMA TypeParts ==
  TypeOK <=> LifecycleTypes /\ RetentionTypes /\ EffectTypes /\ EvaluationTypes /\ CommitTypes
  BY DEF TypeOK, LifecycleTypes, RetentionTypes, EffectTypes, EvaluationTypes, CommitTypes

\* The initial state is well typed.
LEMMA TypeInit == Init => TypeOK
  BY HandoffAssumption DEF Init, TypeOK, PCs

\* Every step of the handoff protocol keeps every variable in its type.
LEMMA TypeStep == TypeOK /\ [Next]_vars => TypeOK'
  <1> SUFFICES ASSUME TypeOK, [Next]_vars
               PROVE  LifecycleTypes' /\ RetentionTypes' /\ EffectTypes' /\ EvaluationTypes' /\ CommitTypes'
    BY DEF TypeOK, LifecycleTypes, RetentionTypes, EffectTypes, EvaluationTypes, CommitTypes
  <1> DEFINE Goal == LifecycleTypes' /\ RetentionTypes' /\ EffectTypes' /\ EvaluationTypes' /\ CommitTypes'
  <1>a. LifecycleTypes /\ RetentionTypes /\ EffectTypes /\ EvaluationTypes /\ CommitTypes
    BY TypeParts
  <1>b. (UNCHANGED lifecycleVars => LifecycleTypes') /\ (UNCHANGED retentionVars => RetentionTypes')
        /\ (UNCHANGED effectVars => EffectTypes') /\ (UNCHANGED evaluationVars => EvaluationTypes')
        /\ (UNCHANGED <<pc, commitVars, canceled>> => CommitTypes')
    BY <1>a DEF LifecycleTypes, RetentionTypes, EffectTypes, EvaluationTypes, CommitTypes,
                lifecycleVars, retentionVars, effectVars, evaluationVars, commitVars
  <1> USE DEF Goto, End
  <1>0. CASE UNCHANGED vars
    BY <1>0, <1>b DEF vars
  <1>o. ASSUME NEW t \in Tasks, NEW q \in Queries, NEW l \in Lifecycles, Observe(t, q, l)
        PROVE  /\ has' \in [Tasks -> [Queries -> Lifecycles \cup {None}]]
               /\ checked' \in [Tasks -> SUBSET Lifecycles]
               /\ retained' \subseteq Lifecycles
    <2>1. Walk(l, checked[t]) \subseteq Lifecycles
      BY DEF Walk
    <2>2. [has EXCEPT ![t][q] = l] \in [Tasks -> [Queries -> Lifecycles \cup {None}]]
      BY <1>a DEF EvaluationTypes
    <2>3. [checked EXCEPT ![t] = @ \cup Walk(l, @)] \in [Tasks -> SUBSET Lifecycles]
      BY <1>a, <2>1 DEF EvaluationTypes
    <2> QED
      BY <1>o, <1>a, <2>2, <2>3 DEF Observe, EvaluationTypes, RetentionTypes
  <1>1. ASSUME NEW t \in Tasks, NEW q \in Queries, Reuse(t, q)
        PROVE  Goal
    <2>1. PICK l \in Lifecycles : Observe(t, q, l)
      BY <1>1, <1>a DEF Reuse, RetentionTypes
    <2>2. EvaluationTypes' /\ RetentionTypes'
      BY <1>1, <1>a, <2>1, <1>o DEF Reuse, EvaluationTypes, RetentionTypes
    <2> QED
      BY <1>1, <1>b, <2>2 DEF Reuse
  <1>2. ASSUME NEW t \in Tasks, NEW q \in Queries, EnterBody(t, q)
        PROVE  Goal
    <2>1. EvaluationTypes'
      BY <1>2, <1>a DEF EnterBody, EvaluationTypes
    <2> QED
      BY <1>2, <1>b, <2>1 DEF EnterBody
  <1>3. ASSUME NEW t \in Tasks, NEW q \in Queries, NEW l \in Lifecycles, Publish(t, q, l)
        PROVE  Goal
    <2>1. {d \in {has[t][p] : p \in DependsOn[q]} : state[d] # "Committed"} \subseteq Lifecycles
      BY <1>3, <1>a, HandoffAssumption DEF Publish, EvaluationTypes
    <2>2. LifecycleTypes'
      BY <1>3, <1>a, <2>1 DEF Publish, LifecycleTypes
    <2>3. EvaluationTypes' /\ RetentionTypes'
      BY <1>3, <1>a DEF Publish, EvaluationTypes, RetentionTypes
    <2> QED
      BY <1>3, <1>b, <2>2, <2>3 DEF Publish
  <1>4. ASSUME NEW t \in Tasks, ObserveFresh(t)
        PROVE  Goal
    <2>1. fresh[t] \in Lifecycles /\ QueryOf[fresh[t]] \in Queries
      BY <1>4, <1>a, HandoffAssumption DEF ObserveFresh, EvaluationTypes
    <2>2. EvaluationTypes' /\ RetentionTypes'
      BY <1>4, <1>a, <2>1, <1>o DEF ObserveFresh, EvaluationTypes, RetentionTypes
    <2> QED
      BY <1>4, <1>b, <2>2 DEF ObserveFresh
  <1>5. ASSUME NEW t \in Tasks, Discard(t) \/ StartCommit(t)
        PROVE  Goal
    <2>0. has[t][Root[t]] # None => has[t][Root[t]] \in Lifecycles
      BY <1>a, HandoffAssumption DEF EvaluationTypes
    <2>1. CommitTypes'
      BY <1>5, <1>a, <2>0 DEF Discard, StartCommit, CommitTypes, PCs
    <2> QED
      BY <1>5, <1>b, <2>1 DEF Discard, StartCommit
  <1>6. ASSUME NEW t \in Tasks, NEW l \in Lifecycles, Collect(t, l)
        PROVE  Goal
    <2>1. CommitTypes'
      BY <1>6, <1>a DEF Collect, CommitTypes, PCs, LifecycleTypes
    <2> QED
      BY <1>6, <1>b, <2>1 DEF Collect
  <1>7. ASSUME NEW t \in Tasks, NEW l \in Lifecycles, Claim(t, l)
        PROVE  Goal
    <2>1. CommitTypes'
      BY <1>7, <1>a DEF Claim, CommitTypes, PCs
    <2>2. LifecycleTypes'
      BY <1>7, <1>a DEF Claim, LifecycleTypes
    <2> QED
      BY <1>7, <1>b, <2>1, <2>2 DEF Claim
  <1>8. ASSUME NEW t \in Tasks, NEW l \in Lifecycles, CommitCallback(t, l) \/ CommitPanics(t, l)
        PROVE  Goal
    <2>1. CommitTypes'
      BY <1>8, <1>a DEF CommitCallback, CommitPanics, CommitTypes, PCs, commitVars
    <2>2. attempted[l] \in Nat /\ Callbacks[l] \in Nat /\ attempted[l] + 1 <= Callbacks[l]
      BY <1>8, <1>a, HandoffAssumption DEF CommitCallback, CommitPanics, Due, EffectTypes
    <2>3. [attempted EXCEPT ![l] = @ + 1] \in [Lifecycles -> Nat]
      BY <1>a, <2>2 DEF EffectTypes
    <2>4. [installed EXCEPT ![l] = @ \cup {attempted[l] + 1}] \in [Lifecycles -> SUBSET Nat]
      BY <1>a, <2>2 DEF EffectTypes
    <2>5. broken' = broken
      BY <1>8 DEF CommitCallback, CommitPanics
    <2>6. /\ attempted' = [attempted EXCEPT ![l] = @ + 1]
          /\ installed' = installed \/ installed' = [installed EXCEPT ![l] = @ \cup {attempted[l] + 1}]
      BY <1>8 DEF CommitCallback, CommitPanics
    <2>7. EffectTypes'
      BY <1>a, <2>2, <2>3, <2>4, <2>5, <2>6 DEF EffectTypes
    <2> QED
      BY <1>8, <1>b, <2>1, <2>7 DEF CommitCallback, CommitPanics
  <1>9. ASSUME NEW t \in Tasks,
               Collected(t) \/ ClaimCanceled(t) \/ Claimed(t) \/ CommitCanceled(t) \/ Decide(t)
               \/ Finished(t) \/ RolledBack(t) \/ Restored(t) \/ Cancel(t)
        PROVE  Goal
    <2>1. CommitTypes'
      BY <1>9, <1>a DEF Collected, ClaimCanceled, Claimed, CommitCanceled, Decide, Finished,
                        RolledBack, Restored, Cancel, CommitTypes, PCs, commitVars
    <2> QED
      BY <1>9, <1>b, <2>1 DEF Collected, ClaimCanceled, Claimed, CommitCanceled, Decide, Finished,
                              RolledBack, Restored, Cancel
  <1>10. ASSUME NEW t \in Tasks, NEW l \in Lifecycles, FinishCommit(t, l)
         PROVE  Goal
    <2>1. LifecycleTypes'
      BY <1>10, <1>a DEF FinishCommit, LifecycleTypes
    <2>2. EffectTypes'
      BY <1>10, <1>a, HandoffAssumption DEF FinishCommit, EffectTypes
    <2> QED
      BY <1>10, <1>b, <2>1, <2>2 DEF FinishCommit
  <1>11. ASSUME NEW t \in Tasks, NEW l \in Lifecycles, RollBack(t, l)
         PROVE  Goal
    <2>1. /\ installed' \in [Lifecycles -> SUBSET Nat]
          /\ \A m \in Lifecycles : installed'[m] \subseteq installed[m]
      <3>1. CASE installed' = [installed EXCEPT ![l] = @ \ (1..attempted[l])]
        BY <3>1, <1>a DEF EffectTypes
      <3>2. ASSUME NEW left \in SUBSET installed[l], installed' = [installed EXCEPT ![l] = left]
            PROVE  /\ installed' \in [Lifecycles -> SUBSET Nat]
                   /\ \A m \in Lifecycles : installed'[m] \subseteq installed[m]
        BY <3>2, <1>a DEF EffectTypes
      <3> QED
        BY <1>11, <3>1, <3>2 DEF RollBack
    <2>2. attempted' = [attempted EXCEPT ![l] = 0] /\ broken' \subseteq Lifecycles
      BY <1>11, <1>a DEF RollBack, EffectTypes
    <2>3. EffectTypes'
      BY <2>1, <2>2, <1>a, HandoffAssumption DEF EffectTypes
    <2> QED
      BY <1>11, <1>b, <2>3 DEF RollBack
  <1>12. ASSUME NEW t \in Tasks, NEW l \in Lifecycles, Restore(t, l)
         PROVE  Goal
    <2>1. LifecycleTypes'
      BY <1>12, <1>a DEF Restore, LifecycleTypes
    <2> QED
      BY <1>12, <1>b, <2>1 DEF Restore
  <1>13. ASSUME NEW l \in Lifecycles, Evict(l) \/ AbortEvicted(l)
         PROVE  Goal
    <2>1. LifecycleTypes'
      BY <1>13, <1>a DEF Evict, AbortEvicted, LifecycleTypes, lifecycleVars
    <2>2. RetentionTypes'
      BY <1>13, <1>a, HandoffAssumption DEF Evict, AbortEvicted, RetentionTypes
    <2> QED
      BY <1>13, <1>b, <2>1, <2>2 DEF Evict, AbortEvicted
  <1> QED
    BY <1>0, <1>1, <1>2, <1>3, <1>4, <1>5, <1>6, <1>7, <1>8, <1>9, <1>10, <1>11, <1>12, <1>13
    DEF Next, Evaluate, CommitHandoffs

-----------------------------------------------------------------------------
(* Effects and states *)

\* A lifecycle is where its owner's progress says it is: claimed by a task that
\* is committing, with a prefix of its callbacks attempted and at most these in
\* force; given up with nothing in force, unless an abort callback panicked;
\* committed with all of them.
Sound(l) ==
  LET at == pc[owner[l]]
  IN /\ state[l] = "Committing" =>
          /\ owner[l] \in Tasks
          /\ at \in {"claim", "commit", "finish", "rollback", "restore"}
          /\ at \in {"claim", "commit", "finish"} => l \notin broken /\ installed[l] = 1..attempted[l]
          /\ l \notin broken => installed[l] \subseteq 1..attempted[l]
          /\ at \in {"claim", "restore"} \/ l \in broken => attempted[l] = 0
          /\ at = "finish" => attempted[l] = Callbacks[l]
     /\ state[l] # "Committing" => owner[l] = None /\ attempted[l] = 0
     /\ state[l] = "Committed" => installed[l] = 1..Callbacks[l]
     /\ state[l] \in {"unpublished", "Pending"} => installed[l] = {}
     /\ state[l] = "Aborted" /\ l \notin broken => installed[l] = {}
     /\ l \in broken => state[l] \in {"Aborted", "Committing"}

EffectsSound == \A l \in Lifecycles : Sound(l)

\* Nothing is published at first, so nothing is in force.
LEMMA SoundInit == Init => EffectsSound
  BY HandoffAssumption DEF Init, EffectsSound, Sound

\* No step of a claim, a commit, a rollback or an eviction parts the effects in
\* force from the state of their lifecycle.
LEMMA SoundStep == TypeOK /\ EffectsSound /\ [Next]_vars => EffectsSound'
  <1> SUFFICES ASSUME TypeOK, EffectsSound, [Next]_vars, NEW m \in Lifecycles
               PROVE  Sound(m)'
    BY DEF EffectsSound
  <1>a. LifecycleTypes /\ EffectTypes /\ CommitTypes /\ Sound(m)
    BY TypeParts DEF EffectsSound
  <1>t. /\ state[m] \in {"unpublished", "Pending", "Committing", "Committed", "Aborted"}
        /\ installed[m] \in SUBSET Nat /\ attempted[m] \in Nat /\ Callbacks[m] \in Nat
        /\ installed[m] \subseteq 1..Callbacks[m] /\ attempted[m] <= Callbacks[m]
    BY <1>a, HandoffAssumption DEF LifecycleTypes, EffectTypes
  <1>f. ASSUME state'[m] = state[m], owner'[m] = owner[m], installed'[m] = installed[m],
               attempted'[m] = attempted[m], m \in broken' <=> m \in broken,
               state[m] = "Committing" => pc'[owner[m]] = pc[owner[m]]
        PROVE  Sound(m)'
    BY <1>a, <1>f DEF Sound
  <1> USE DEF lifecycleVars, effectVars, Goto, End
  <1>0. CASE UNCHANGED vars
    BY <1>0, <1>f DEF vars
  <1>1. ASSUME NEW t \in Tasks,
               \/ \E q \in Queries : Reuse(t, q) \/ EnterBody(t, q)
               \/ ObserveFresh(t)
               \/ \E l \in Lifecycles : Evict(l)
               \/ Cancel(t)
        PROVE  Sound(m)'
    BY <1>1, <1>f DEF Reuse, EnterBody, ObserveFresh, Evict, Cancel
  <1>2. ASSUME NEW t \in Tasks, NEW q \in Queries, NEW l \in Lifecycles, Publish(t, q, l)
        PROVE  Sound(m)'
    <2>1. CASE m # l
      BY <1>2, <1>f, <2>1, <1>a DEF Publish, LifecycleTypes
    <2>2. CASE m = l
      <3>1. state[m] = "unpublished" /\ state'[m] \in {"Committed", "Pending"}
            /\ (state'[m] = "Committed" => Callbacks[m] = 0)
        BY <1>2, <2>2, <1>a DEF Publish, LifecycleTypes, Free
      <3>2. UNCHANGED <<owner, installed, attempted, broken>>
        BY <1>2 DEF Publish
      <3>3. 1..0 = {}
        OBVIOUS
      <3> QED
        BY <1>a, <1>t, <3>1, <3>2, <3>3 DEF Sound
    <2> QED
      BY <2>1, <2>2
  <1>3. ASSUME NEW t \in Tasks, pc[t] \in {"evaluate", "collect"}, NEW at, Goto(t, at),
               UNCHANGED <<state, owner, installed, attempted, broken>>
        PROVE  Sound(m)'
    <2>1. state[m] = "Committing" => owner[m] # t
      BY <1>3, <1>a DEF Sound
    <2> QED
      BY <1>3, <2>1, <1>f, <1>a DEF CommitTypes, Sound
  <1>4. ASSUME NEW t \in Tasks, Discard(t) \/ StartCommit(t) \/ Collected(t)
        PROVE  Sound(m)'
    BY <1>4, <1>3 DEF Discard, StartCommit, Collected
  <1>5. ASSUME NEW t \in Tasks, NEW l \in Lifecycles, Collect(t, l)
        PROVE  Sound(m)'
    BY <1>5, <1>3, <1>f DEF Collect
  <1>6. ASSUME NEW t \in Tasks, NEW at, Goto(t, at), at \in PCs,
               UNCHANGED <<state, owner, installed, attempted, broken>>,
               pc[t] \in {"claim", "commit", "finish", "rollback", "restore"},
               state[m] = "Committing" /\ owner[m] = t =>
                 \/ pc[t] = "claim" /\ at \in {"commit", "restore"}
                 \/ pc[t] = "commit" /\ at = "rollback"
                 \/ pc[t] = "commit" /\ at = "finish" /\ attempted[m] = Callbacks[m]
                 \/ pc[t] = "rollback" /\ at = "restore" /\ attempted[m] = 0
        PROVE  Sound(m)'
    <2>1. CASE state[m] = "Committing" /\ owner[m] = t
      <3>1. pc'[t] = at
        BY <1>6, <1>a DEF CommitTypes
      <3> QED
        BY <1>6, <2>1, <3>1, <1>a, <1>t DEF Sound
    <2>2. CASE ~(state[m] = "Committing" /\ owner[m] = t)
      BY <1>6, <2>2, <1>f, <1>a DEF CommitTypes, Sound
    <2> QED
      BY <2>1, <2>2
  <1>7. ASSUME NEW t \in Tasks,
               ClaimCanceled(t) \/ Claimed(t) \/ CommitCanceled(t) \/ Decide(t)
               \/ Finished(t) \/ RolledBack(t) \/ Restored(t)
        PROVE  Sound(m)'
    BY <1>7, <1>6 DEF ClaimCanceled, Claimed, CommitCanceled, Decide, Finished, RolledBack, Restored,
                      Mine, PCs
  <1>8. ASSUME NEW t \in Tasks, NEW l \in Lifecycles, Claim(t, l)
        PROVE  Sound(m)'
    <2>1. CASE state[l] = "Pending" /\ m = l
      <3>1. /\ state[m] = "Pending" /\ state'[m] = "Committing" /\ owner'[m] = t
            /\ UNCHANGED <<pc, installed, attempted, broken>> /\ pc[t] = "claim"
        BY <1>8, <2>1, <1>a DEF Claim, LifecycleTypes
      <3>2. 1..0 = {}
        OBVIOUS
      <3> QED
        BY <3>1, <3>2, <1>a, <1>t DEF Sound
    <2>2. CASE state[l] = "Pending" /\ m # l
      BY <1>8, <2>2, <1>f, <1>a DEF Claim, LifecycleTypes
    <2>3. CASE state[l] = "Committed"
      BY <1>8, <2>3, <1>f DEF Claim
    <2>4. CASE state[l] = "Aborted"
      BY <1>8, <2>4, <1>6 DEF Claim, PCs
    <2> QED
      BY <1>8, <2>1, <2>2, <2>3, <2>4 DEF Claim
  <1>9. ASSUME NEW t \in Tasks, NEW l \in Lifecycles, CommitCallback(t, l) \/ CommitPanics(t, l)
        PROVE  Sound(m)'
    <2>0. /\ pc[t] = "commit" /\ state[l] = "Committing" /\ owner[l] = t
          /\ attempted[l] < Callbacks[l]
          /\ UNCHANGED <<state, owner, broken>>
          /\ attempted' = [attempted EXCEPT ![l] = attempted[l] + 1]
          /\ \/ pc' = pc /\ installed' = [installed EXCEPT ![l] = installed[l] \cup {attempted[l] + 1}]
             \/ /\ pc' = [pc EXCEPT ![t] = "rollback"]
                /\ \/ installed' = installed
                   \/ installed' = [installed EXCEPT ![l] = installed[l] \cup {attempted[l] + 1}]
      BY <1>9 DEF CommitCallback, CommitPanics, Due, Mine
    <2>1. CASE m = l
      <3>1. /\ attempted'[m] = attempted[m] + 1 /\ pc'[t] \in {"commit", "rollback"}
            /\ pc'[t] = "commit" => installed'[m] = installed[m] \cup {attempted[m] + 1}
            /\ installed'[m] \subseteq installed[m] \cup {attempted[m] + 1}
        BY <2>0, <2>1, <1>a DEF CommitTypes, EffectTypes
      <3>2. installed[m] = 1..attempted[m] /\ m \notin broken
        BY <2>0, <2>1, <1>a DEF Sound
      <3>3. (1..attempted[m]) \cup {attempted[m] + 1} = 1..(attempted[m] + 1)
        BY <1>t
      <3> QED
        BY <2>0, <2>1, <3>1, <3>2, <3>3, <1>a DEF Sound
    <2>2. CASE m # l
      <3>1. attempted'[m] = attempted[m] /\ installed'[m] = installed[m]
        BY <2>0, <2>2, <1>a DEF EffectTypes
      <3>2. CASE state[m] = "Committing" /\ owner[m] = t
        <4>1. pc'[t] \in {"commit", "rollback"}
          BY <2>0, <1>a DEF CommitTypes
        <4> QED
          BY <2>0, <3>1, <3>2, <4>1, <1>a DEF Sound
      <3>3. CASE state[m] = "Committing" /\ owner[m] # t
        BY <2>0, <3>1, <3>3, <1>f, <1>a DEF CommitTypes, Sound
      <3>4. CASE state[m] # "Committing"
        BY <2>0, <3>1, <3>4, <1>f
      <3> QED
        BY <3>2, <3>3, <3>4
    <2> QED
      BY <2>1, <2>2
  <1>10. ASSUME NEW t \in Tasks, NEW l \in Lifecycles, FinishCommit(t, l)
         PROVE  Sound(m)'
    <2>1. CASE m = l
      <3>1. /\ state'[m] = "Committed" /\ owner'[m] = None /\ attempted'[m] = 0
            /\ UNCHANGED <<installed, broken>>
            /\ state[m] = "Committing" /\ pc[owner[m]] = "finish"
        BY <1>10, <2>1, <1>a DEF FinishCommit, Mine, LifecycleTypes, EffectTypes
      <3> QED
        BY <3>1, <1>a DEF Sound
    <2>2. CASE m # l
      BY <1>10, <2>2, <1>f, <1>a DEF FinishCommit, LifecycleTypes, EffectTypes
    <2> QED
      BY <2>1, <2>2
  <1>11. ASSUME NEW t \in Tasks, NEW l \in Lifecycles, RollBack(t, l)
         PROVE  Sound(m)'
    <2>0. /\ pc[t] = "rollback" /\ state[l] = "Committing" /\ owner[l] = t /\ attempted[l] > 0
          /\ UNCHANGED <<state, owner, pc>>
          /\ attempted' = [attempted EXCEPT ![l] = 0]
      BY <1>11 DEF RollBack, Mine
    <2>1. CASE installed' = [installed EXCEPT ![l] = @ \ (1..attempted[l])] /\ UNCHANGED broken
      <3>1. CASE m = l
        <4>1. attempted'[m] = 0 /\ installed'[m] = installed[m] \ (1..attempted[m])
          BY <2>0, <2>1, <3>1, <1>a DEF EffectTypes
        <4>2. m \notin broken /\ installed[m] \subseteq 1..attempted[m]
          BY <2>0, <3>1, <1>a, <1>t DEF Sound
        <4>3. installed'[m] = {}
          BY <4>1, <4>2
        <4> QED
          BY <2>0, <2>1, <3>1, <4>1, <4>2, <4>3, <1>a DEF Sound
      <3>2. CASE m # l
        BY <2>0, <2>1, <3>2, <1>f, <1>a DEF EffectTypes
      <3> QED
        BY <3>1, <3>2
    <2>2. ASSUME NEW left, installed' = [installed EXCEPT ![l] = left], broken' = broken \cup {l}
          PROVE  Sound(m)'
      <3>1. CASE m = l
        <4>1. attempted'[m] = 0
          BY <2>0, <3>1, <1>a DEF EffectTypes
        <4> QED
          BY <2>0, <2>2, <3>1, <4>1, <1>a DEF Sound
      <3>2. CASE m # l
        BY <2>0, <2>2, <3>2, <1>f, <1>a DEF EffectTypes
      <3> QED
        BY <3>1, <3>2
    <2> QED
      BY <1>11, <2>1, <2>2 DEF RollBack
  <1>12. ASSUME NEW t \in Tasks, NEW l \in Lifecycles, Restore(t, l)
         PROVE  Sound(m)'
    <2>1. CASE m = l
      <3>1. /\ state'[m] = (IF m \in broken THEN "Aborted" ELSE "Pending") /\ owner'[m] = None
            /\ UNCHANGED <<installed, broken, attempted>>
            /\ state[m] = "Committing" /\ pc[owner[m]] = "restore"
        BY <1>12, <2>1, <1>a DEF Restore, Mine, LifecycleTypes
      <3>2. m \notin broken => installed[m] = {}
        BY <3>1, <1>a, <1>t DEF Sound
      <3> QED
        BY <3>1, <3>2, <1>a DEF Sound
    <2>2. CASE m # l
      BY <1>12, <2>2, <1>f, <1>a DEF Restore, LifecycleTypes
    <2> QED
      BY <2>1, <2>2
  <1>13. ASSUME NEW l \in Lifecycles, AbortEvicted(l)
         PROVE  Sound(m)'
    <2>1. CASE m = l
      <3>1. /\ state'[m] = (IF state[m] = "Pending" THEN "Aborted" ELSE state[m])
            /\ UNCHANGED <<owner, installed, broken, attempted, pc>>
            /\ state[m] # "Committing"
        BY <1>13, <2>1, <1>a DEF AbortEvicted, LifecycleTypes
      <3> QED
        BY <3>1, <1>a DEF Sound
    <2>2. CASE m # l
      BY <1>13, <2>2, <1>f, <1>a DEF AbortEvicted, LifecycleTypes
    <2> QED
      BY <2>1, <2>2
  <1>14. ASSUME NEW l \in Lifecycles, Evict(l)
         PROVE  Sound(m)'
    BY <1>14, <1>f DEF Evict
  <1> QED
    BY <1>0, <1>1, <1>2, <1>4, <1>5, <1>7, <1>8, <1>9, <1>10, <1>11, <1>12, <1>13, <1>14
    DEF Next, Evaluate, CommitHandoffs

Published(l) == state[l] # "unpublished"

-----------------------------------------------------------------------------
(* What lifecycles and requests refer to *)

\* What a step does to the lifecycles: committed is final, and a published
\* lifecycle keeps what it observed.
Moves ==
  \A l \in Lifecycles :
    /\ state[l] = "Committed" => state'[l] = "Committed"
    /\ Published(l) => Published(l)' /\ observed'[l] = observed[l]

\* Every step moves the lifecycles that way only.
LEMMA StepMoves == TypeOK /\ EffectsSound /\ [Next]_vars => Moves
  <1> SUFFICES ASSUME TypeOK, EffectsSound, [Next]_vars, NEW m \in Lifecycles
               PROVE  /\ state[m] = "Committed" => state'[m] = "Committed"
                      /\ Published(m) => Published(m)' /\ observed'[m] = observed[m]
    BY DEF Moves
  <1> DEFINE Goal == /\ state[m] = "Committed" => state'[m] = "Committed"
                     /\ Published(m) => Published(m)' /\ observed'[m] = observed[m]
  <1>a. LifecycleTypes
    BY TypeParts
  <1>1. CASE UNCHANGED lifecycleVars
    BY <1>1 DEF lifecycleVars, Published
  <1>2. ASSUME NEW t \in Tasks, NEW q \in Queries, NEW l \in Lifecycles, Publish(t, q, l)
        PROVE  Goal
    BY <1>2, <1>a DEF Publish, LifecycleTypes, Free, Published
  <1>3. ASSUME NEW t \in Tasks, NEW l \in Lifecycles,
               Claim(t, l) \/ FinishCommit(t, l) \/ Restore(t, l)
        PROVE  Goal
    BY <1>3, <1>a DEF Claim, FinishCommit, Restore, Mine, LifecycleTypes, Published
  <1>4. ASSUME NEW l \in Lifecycles, AbortEvicted(l)
        PROVE  Goal
    BY <1>4, <1>a DEF AbortEvicted, LifecycleTypes, Published
  <1> HIDE DEF Goal
  <1>5. ASSUME NEW t \in Tasks, Evaluate(t) \/ Cancel(t)
        PROVE  Goal
    BY <1>1, <1>2, <1>5 DEF Goal, Evaluate, Reuse, EnterBody, ObserveFresh, Discard, StartCommit, Cancel
  <1>6. ASSUME NEW t \in Tasks, CommitHandoffs(t)
        PROVE  Goal
    BY <1>1, <1>3, <1>6 DEF Goal, CommitHandoffs, Collect, CommitCallback, CommitPanics, Collected,
       ClaimCanceled, Claimed, CommitCanceled, Decide, RollBack, Finished, RolledBack, Restored
  <1>7. ASSUME NEW l \in Lifecycles, Evict(l)
        PROVE  Goal
    BY <1>1, <1>7 DEF Goal, Evict
  <1> QED
    BY <1>1, <1>4, <1>5, <1>6, <1>7 DEF Goal, Next, vars

\* Only published lifecycles are referred to: by others, by nodes, the evictor
\* and requests.
Known ==
  /\ \A l \in Lifecycles : \A d \in observed[l] : Published(d)
  /\ \A l \in retained \cup evicting : Published(l)
  /\ \A t \in Tasks :
       /\ fresh[t] # None => Published(fresh[t])
       /\ \A q \in Queries : has[t][q] # None => Published(has[t][q])
       /\ \A l \in frontier[t] \cup plan[t] : Published(l)

\* Nobody refers to anything at first.
LEMMA KnownInit == Init => Known
  BY DEF Init, Known

\* A lifecycle is published before any step refers to it.
LEMMA KnownStep == TypeOK /\ EffectsSound /\ Known /\ [Next]_vars => Known'
  <1> SUFFICES ASSUME TypeOK, EffectsSound, Known, [Next]_vars
               PROVE  Known'
    OBVIOUS
  <1>a. /\ LifecycleTypes /\ RetentionTypes /\ EvaluationTypes /\ CommitTypes
        /\ EvaluationTypes' /\ CommitTypes'
    BY TypeParts, TypeStep DEF TypeOK, EvaluationTypes, CommitTypes
  <1>m. \A l \in Lifecycles : Published(l) => Published(l)' /\ observed'[l] = observed[l]
    BY StepMoves DEF Moves
  <1> DEFINE Fresh(t) == fresh[t] # None => Published(fresh[t])
             Has(t) == \A q \in Queries : has[t][q] # None => Published(has[t][q])
             Plan(t) == \A l \in frontier[t] \cup plan[t] : Published(l)
             Refs == \A l \in Lifecycles : \A d \in observed[l] : Published(d)
             Kept == \A l \in retained \cup evicting : Published(l)
  <1>k. Known' <=> Refs' /\ Kept' /\ \A t \in Tasks : Fresh(t)' /\ Has(t)' /\ Plan(t)'
    BY DEF Known
  <1>r. UNCHANGED observed => Refs'
    BY <1>a, <1>m DEF Known, LifecycleTypes
  <1>e. retained' \cup evicting' \subseteq retained \cup evicting => Kept'
    BY <1>a, <1>m DEF Known, RetentionTypes
  <1>f. ASSUME NEW t \in Tasks, fresh'[t] \in {fresh[t], None}
        PROVE  Fresh(t)'
    BY <1>a, <1>m, <1>f DEF Known, EvaluationTypes
  <1>h. ASSUME NEW t \in Tasks, \A q \in Queries : has'[t][q] = has[t][q] \/ Published(has'[t][q])
        PROVE  Has(t)'
    BY <1>a, <1>m, <1>h DEF Known, EvaluationTypes
  <1>p. ASSUME NEW t \in Tasks, \A l \in frontier'[t] \cup plan'[t] : l \in frontier[t] \cup plan[t] \/ Published(l)
        PROVE  Plan(t)'
    BY <1>a, <1>m, <1>p DEF Known, CommitTypes
  <1>q. UNCHANGED <<observed, retained, evicting, fresh, has, frontier, plan>> => Known'
    BY <1>k, <1>r, <1>e, <1>f, <1>h, <1>p
  <1> HIDE DEF Fresh, Has, Plan, Refs, Kept
  <1>o. ASSUME NEW t \in Tasks, NEW q \in Queries, NEW l \in Lifecycles, Observe(t, q, l), Published(l),
               UNCHANGED <<observed, evicting, frontier, plan>>,
               \A u \in Tasks : fresh'[u] \in {fresh[u], None}
        PROVE  Known'
    <2>1. retained' \subseteq retained
      BY <1>o DEF Observe
    <2>2. has' = has \/ has' = [has EXCEPT ![t][q] = l]
      BY <1>o DEF Observe
    <2>3. \A u \in Tasks : \A p \in Queries : has'[u][p] = has[u][p] \/ Published(has'[u][p])
      BY <1>o, <2>2, <1>a DEF EvaluationTypes
    <2> QED
      BY <1>k, <1>r, <1>e, <1>f, <1>h, <1>p, <1>o, <2>1, <2>3
  <1>1. ASSUME NEW t \in Tasks, NEW q \in Queries, Reuse(t, q)
        PROVE  Known'
    <2>1. PICK l \in Lifecycles : Observe(t, q, l) /\ Published(l)
      BY <1>1, <1>a DEF Reuse, RetentionTypes, Known
    <2> QED
      BY <1>1, <2>1, <1>o DEF Reuse, lifecycleVars, commitVars
  <1>2. ASSUME NEW t \in Tasks, NEW q \in Queries, NEW l \in Lifecycles, Publish(t, q, l)
        PROVE  Known'
    <2>1. Published(l)'
      BY <1>2, <1>a DEF Publish, LifecycleTypes, Published
    <2>2. Refs'
      <3>1. \A d \in {has[t][p] : p \in DependsOn[q]} : d \in Lifecycles /\ Published(d)
        BY <1>2, <1>a, HandoffAssumption DEF Publish, Known, EvaluationTypes
      <3>2. \A d \in observed'[l] : d \in Lifecycles /\ Published(d)
        BY <3>1, <1>2, <1>a DEF Publish, LifecycleTypes
      <3>3. \A m \in Lifecycles \ {l} : observed'[m] = observed[m]
        BY <1>2, <1>a DEF Publish, LifecycleTypes
      <3> QED
        BY <3>2, <3>3, <1>m, <1>a DEF Refs, Known, LifecycleTypes
    <2>3. Kept'
      BY <1>2, <2>1, <1>m, <1>a DEF Publish, Kept, Known, RetentionTypes
    <2>4. \A u \in Tasks : Fresh(u)'
      <3>1. ASSUME NEW u \in Tasks
            PROVE  fresh'[u] = fresh[u] \/ fresh'[u] = l
        BY <1>2, <1>a DEF Publish, EvaluationTypes
      <3> QED
        BY <3>1, <2>1, <1>f DEF Fresh
    <2> QED
      BY <1>2, <1>k, <2>2, <2>3, <2>4, <1>h, <1>p DEF Publish, commitVars
  <1>3. ASSUME NEW t \in Tasks, ObserveFresh(t)
        PROVE  Known'
    <2>1. fresh[t] \in Lifecycles /\ QueryOf[fresh[t]] \in Queries /\ Published(fresh[t])
      BY <1>3, <1>a, HandoffAssumption DEF ObserveFresh, EvaluationTypes, Known
    <2>2. \A u \in Tasks : fresh'[u] \in {fresh[u], None}
      BY <1>3, <1>a DEF ObserveFresh, EvaluationTypes
    <2> QED
      BY <1>3, <2>1, <2>2, <1>o DEF ObserveFresh, lifecycleVars, commitVars
  <1>4. ASSUME NEW t \in Tasks, StartCommit(t)
        PROVE  Known'
    <2>1. \A u \in Tasks : Plan(u)'
      <3>1. Published(has[t][Root[t]])
        BY <1>4, <1>a, HandoffAssumption DEF StartCommit, Known
      <3>2. ASSUME NEW u \in Tasks
            PROVE  frontier'[u] = frontier[u] \/ frontier'[u] = {has[t][Root[t]]}
        BY <1>4, <1>a DEF StartCommit, CommitTypes
      <3>3. plan' = plan
        BY <1>4 DEF StartCommit
      <3> QED
        BY <3>1, <3>2, <3>3, <1>p
    <2> QED
      BY <1>4, <2>1, <1>k, <1>r, <1>e, <1>f, <1>h DEF StartCommit, lifecycleVars, retentionVars, evaluationVars
  <1>5. ASSUME NEW t \in Tasks, NEW l \in Lifecycles, Collect(t, l)
        PROVE  Known'
    <2>1. \A u \in Tasks : Plan(u)'
      <3>1. ASSUME NEW u \in Tasks
            PROVE  /\ frontier'[u] \subseteq frontier[u] \cup observed[l]
                   /\ plan'[u] \subseteq plan[u] \cup frontier[u]
        BY <1>5, <1>a DEF Collect, CommitTypes
      <3>2. \A d \in observed[l] : Published(d)
        BY DEF Known
      <3> QED
        BY <3>1, <3>2, <1>p
    <2> QED
      BY <1>5, <2>1, <1>k, <1>r, <1>e, <1>f, <1>h DEF Collect, lifecycleVars, retentionVars, evaluationVars
  <1>6. ASSUME NEW l \in Lifecycles, Evict(l) \/ AbortEvicted(l)
        PROVE  Known'
    <2>1. retained' \cup evicting' \subseteq retained \cup evicting
      BY <1>6 DEF Evict, AbortEvicted
    <2> QED
      BY <1>6, <2>1, <1>k, <1>r, <1>e, <1>f, <1>h, <1>p
      DEF Evict, AbortEvicted, lifecycleVars, evaluationVars, commitVars
  <1> USE DEF lifecycleVars, retentionVars, evaluationVars, commitVars
  <1>7. ASSUME NEW t \in Tasks, Evaluate(t) \/ Cancel(t)
        PROVE  Known'
    BY <1>q, <1>1, <1>2, <1>3, <1>4, <1>7 DEF Evaluate, EnterBody, Discard, Cancel
  <1>8. ASSUME NEW t \in Tasks, CommitHandoffs(t)
        PROVE  Known'
    BY <1>q, <1>5, <1>8 DEF CommitHandoffs, Claim, CommitCallback, CommitPanics, Collected,
       ClaimCanceled, Claimed, CommitCanceled, Decide, FinishCommit, RollBack, Restore, Finished,
       RolledBack, Restored
  <1> QED
    BY <1>q, <1>6, <1>7, <1>8 DEF Next, vars

-----------------------------------------------------------------------------
(* Plans *)

\* The lifecycle of the answer a root request returns.
Answer(t) == has[t][Root[t]]

\* What a task's plan promises. It is closed: below what the task has collected
\* lies what it has collected, has still to visit, or need not commit. Once it
\* has claimed, the whole plan is its own or committed.
Planned(t) ==
  /\ pc[t] = "evaluate" => plan[t] = {} /\ frontier[t] = {}
  /\ pc[t] \in {"collect", "claim", "commit", "finish"} =>
       /\ Answer(t) # None
       /\ Answer(t) \in plan[t] \cup frontier[t] \/ state[Answer(t)] = "Committed"
       /\ \A l \in plan[t] : \A d \in observed[l] :
            d \in plan[t] \cup frontier[t] \/ state[d] = "Committed"
  /\ pc[t] \in {"claim", "commit", "finish"} =>
       /\ frontier[t] = {}
       /\ Mine(t) \subseteq plan[t] /\ toClaim[t] \subseteq plan[t]
       /\ \A l \in plan[t] : l \in toClaim[t] \/ l \in Mine(t) \/ state[l] = "Committed"
  /\ pc[t] \in {"commit", "finish"} => toClaim[t] = {}
  /\ verdict[t] = "ok" => pc[t] = "done" /\ Answer(t) # None /\ state[Answer(t)] = "Committed"

Plans == \A t \in Tasks : Planned(t)

\* Committed lifecycles refer to committed ones only.
Closed == \A l \in Lifecycles : state[l] = "Committed" => \A d \in observed[l] : state[d] = "Committed"

\* There are no plans and no committed lifecycles at first.
LEMMA PlansInit == Init => Plans /\ Closed
  BY DEF Init, Plans, Planned, Closed

\* finish_commit goes from below: a lifecycle is committed when all it observed
\* is, by this task or another.
LEMMA ClosedStep == TypeOK /\ EffectsSound /\ Known /\ Plans /\ Closed /\ [Next]_vars => Closed'
  <1> SUFFICES ASSUME TypeOK, EffectsSound, Known, Plans, Closed, [Next]_vars
               PROVE  Closed'
    OBVIOUS
  <1>a. LifecycleTypes
    BY TypeParts
  <1>m. \A l \in Lifecycles : /\ state[l] = "Committed" => state'[l] = "Committed"
                              /\ Published(l) => observed'[l] = observed[l]
    BY StepMoves DEF Moves
  <1>q. (\A l \in Lifecycles : state'[l] = "Committed" => state[l] = "Committed") => Closed'
    BY <1>m, <1>a DEF Closed, Published, LifecycleTypes
  <1>1. ASSUME NEW t \in Tasks, NEW q \in Queries, NEW l \in Lifecycles, Publish(t, q, l)
        PROVE  Closed'
    <2>1. state'[l] = "Committed" => observed'[l] = {}
      BY <1>1, <1>a DEF Publish, LifecycleTypes
    <2>2. \A m \in Lifecycles \ {l} : state'[m] = state[m]
      BY <1>1, <1>a DEF Publish, LifecycleTypes
    <2> QED
      BY <2>1, <2>2, <1>m, <1>a DEF Closed, Published, LifecycleTypes
  <1>2. ASSUME NEW t \in Tasks, NEW l \in Lifecycles, FinishCommit(t, l)
        PROVE  Closed'
    <2>1. \A d \in observed[l] : state[d] = "Committed"
      <3>1. /\ l \in plan[t] /\ frontier[t] = {} /\ toClaim[t] = {}
            /\ \A d \in observed[l] : d \in plan[t] \/ state[d] = "Committed"
            /\ \A d \in plan[t] : d \in Mine(t) \/ state[d] = "Committed"
        BY <1>2 DEF FinishCommit, Plans, Planned
      <3> QED
        BY <3>1, <1>2 DEF FinishCommit
    <2>2. \A m \in Lifecycles \ {l} : state'[m] = state[m]
      BY <1>2, <1>a DEF FinishCommit, LifecycleTypes
    <2>3. observed' = observed
      BY <1>2 DEF FinishCommit
    <2> QED
      BY <2>1, <2>2, <2>3, <1>m, <1>a DEF Closed, LifecycleTypes
  <1>3. ASSUME NEW t \in Tasks, NEW l \in Lifecycles, Claim(t, l) \/ Restore(t, l) \/ AbortEvicted(l)
        PROVE  Closed'
    <2>1. \A m \in Lifecycles : state'[m] = "Committed" => state[m] = "Committed"
      BY <1>3, <1>a DEF Claim, Restore, AbortEvicted, LifecycleTypes
    <2> QED
      BY <2>1, <1>q
  <1>4. UNCHANGED lifecycleVars => Closed'
    BY <1>q DEF lifecycleVars
  <1>5. ASSUME NEW t \in Tasks, Evaluate(t) \/ Cancel(t)
        PROVE  Closed'
    BY <1>1, <1>4, <1>5 DEF Evaluate, Reuse, EnterBody, ObserveFresh, Discard, StartCommit, Cancel
  <1>6. ASSUME NEW t \in Tasks, CommitHandoffs(t)
        PROVE  Closed'
    BY <1>2, <1>3, <1>4, <1>6 DEF CommitHandoffs, Collect, CommitCallback, CommitPanics, Collected,
       ClaimCanceled, Claimed, CommitCanceled, Decide, RollBack, Finished, RolledBack, Restored
  <1>7. ASSUME NEW l \in Lifecycles, Evict(l) \/ AbortEvicted(l)
        PROVE  Closed'
    <2>1. AbortEvicted(l) => \A m \in Lifecycles : state'[m] = "Committed" => state[m] = "Committed"
      BY <1>a DEF AbortEvicted, LifecycleTypes
    <2> QED
      BY <2>1, <1>7, <1>q, <1>4 DEF Evict
  <1> QED
    BY <1>4, <1>5, <1>6, <1>7 DEF Next, vars

\* Every task's plan stays closed while other tasks claim, commit and roll back
\* lifecycles it shares with them.
LEMMA PlansStep == TypeOK /\ EffectsSound /\ Known /\ Plans /\ [Next]_vars => Plans'
  <1> SUFFICES ASSUME TypeOK, EffectsSound, Known, Plans, [Next]_vars, NEW u \in Tasks
               PROVE  Planned(u)'
    BY DEF Plans
  <1>a. LifecycleTypes /\ CommitTypes /\ Planned(u) /\ EvaluationTypes
    BY TypeParts DEF Plans
  <1>m. \A l \in Lifecycles : /\ state[l] = "Committed" => state'[l] = "Committed"
                              /\ Published(l) => observed'[l] = observed[l]
    BY StepMoves DEF Moves
  <1>t. /\ plan[u] \subseteq Lifecycles /\ frontier[u] \subseteq Lifecycles
        /\ \A l \in plan[u] : Published(l)
        /\ \A l \in Lifecycles : observed[l] \subseteq Lifecycles
        /\ Answer(u) \in Lifecycles \cup {None}
        /\ pc[u] \in PCs
    BY <1>a, HandoffAssumption DEF LifecycleTypes, CommitTypes, EvaluationTypes, Known, Answer
  <1> DEFINE SameMine == /\ Mine(u)' \subseteq Mine(u)
                         /\ \A l \in Mine(u) : l \in Mine(u)' \/ state'[l] = "Committed"
  <1>f. ASSUME pc'[u] = pc[u], plan'[u] = plan[u], frontier'[u] = frontier[u], verdict'[u] = verdict[u],
               toClaim'[u] = toClaim[u], pc[u] # "evaluate" => has'[u] = has[u],
               pc[u] \in {"claim", "commit", "finish"} => SameMine
        PROVE  Planned(u)'
    <2>1. CASE pc[u] = "evaluate"
      BY <2>1, <1>f, <1>a DEF Planned
    <2>2. CASE pc[u] # "evaluate"
      <3>0. Answer(u)' = Answer(u)
        BY <1>f, <2>2 DEF Answer
      <3>1. ASSUME pc[u] \in {"collect", "claim", "commit", "finish"}
            PROVE  \A l \in plan[u] : \A d \in observed'[l] :
                     d \in plan[u] \cup frontier[u] \/ state'[d] = "Committed"
        BY <3>1, <1>a, <1>m, <1>t DEF Planned
      <3>2. state[Answer(u)] = "Committed" /\ Answer(u) # None => state'[Answer(u)] = "Committed"
        BY <1>m, <1>t
      <3>3. ASSUME pc[u] \in {"claim", "commit", "finish"}
            PROVE  /\ Mine(u)' \subseteq plan[u]
                   /\ \A l \in plan[u] : l \in toClaim[u] \/ l \in Mine(u)' \/ state'[l] = "Committed"
        <4>1. SameMine
          BY <3>3, <1>f
        <4> QED
          BY <3>3, <4>1, <1>a, <1>m, <1>t DEF Planned
      <3> QED
        BY <1>f, <2>2, <3>0, <3>1, <3>2, <3>3, <1>a, <1>m DEF Planned
    <2> QED
      BY <2>1, <2>2
  <1>s. UNCHANGED <<state, owner>> => SameMine
    BY DEF Mine
  <1>e. UNCHANGED <<pc, plan, frontier, verdict, toClaim, state, owner, has>> => Planned(u)'
    BY <1>f, <1>s
  <1> USE DEF Goto, End, lifecycleVars, retentionVars, evaluationVars, commitVars
  \* A task that has stopped committing has no plan to keep.
  <1>d. ASSUME pc'[u] \in {"rollback", "restore"}, verdict'[u] # "ok"
        PROVE  Planned(u)'
    BY <1>d DEF Planned
  <1>1. ASSUME NEW t \in Tasks, NEW q \in Queries, Reuse(t, q)
        PROVE  Planned(u)'
    <2>1. pc[t] = "evaluate"
      BY <1>1 DEF Reuse, Demanded
    <2>2. pc[u] # "evaluate" => has'[u] = has[u]
      BY <2>1, <1>1, <1>a DEF Reuse, Observe, EvaluationTypes
    <2> QED
      BY <1>1, <2>2, <1>f, <1>s DEF Reuse
  <1>2. ASSUME NEW t \in Tasks, ObserveFresh(t)
        PROVE  Planned(u)'
    <2>2. pc[u] # "evaluate" => has'[u] = has[u]
      BY <1>2, <1>a DEF ObserveFresh, Observe, EvaluationTypes
    <2> QED
      BY <1>2, <2>2, <1>f, <1>s DEF ObserveFresh
  <1>3. ASSUME NEW t \in Tasks, NEW q \in Queries, NEW l \in Lifecycles, Publish(t, q, l)
        PROVE  Planned(u)'
    <2>1. SameMine
      BY <1>3, <1>a DEF Publish, Mine, LifecycleTypes, Free
    <2> QED
      BY <1>3, <2>1, <1>f DEF Publish
  <1>4. ASSUME NEW t \in Tasks, StartCommit(t)
        PROVE  Planned(u)'
    <2>1. CASE u = t
      <3>1. /\ pc[u] = "evaluate" /\ pc'[u] = "collect" /\ frontier'[u] = {Answer(u)} /\ plan'[u] = plan[u]
            /\ Answer(u)' = Answer(u) /\ Answer(u) # None /\ verdict'[u] = verdict[u]
        BY <1>4, <2>1, <1>a DEF StartCommit, CommitTypes, Answer
      <3> QED
        BY <3>1, <1>a DEF Planned
    <2>2. CASE u # t
      BY <1>4, <2>2, <1>f, <1>s, <1>a DEF StartCommit, CommitTypes
    <2> QED
      BY <2>1, <2>2
  <1>5. ASSUME NEW t \in Tasks, NEW l \in Lifecycles, Collect(t, l)
        PROVE  Planned(u)'
    <2>1. CASE u # t
      BY <1>5, <2>1, <1>f, <1>s, <1>a DEF Collect, CommitTypes
    <2>2. CASE u = t /\ state[l] = "Aborted"
      <3>1. pc'[u] = "done" /\ verdict'[u] = "invalidated"
        BY <1>5, <2>2, <1>a DEF Collect, CommitTypes, Live
      <3> QED
        BY <3>1 DEF Planned
    <2>3. CASE u = t /\ state[l] = "Committed"
      <3>1. /\ pc'[u] = "collect" /\ pc[u] = "collect" /\ frontier'[u] = frontier[u] \ {l}
            /\ UNCHANGED <<plan, verdict, state, observed, has>>
        BY <1>5, <2>3, <1>a DEF Collect, CommitTypes, Live
      <3> QED
        BY <2>3, <3>1, <1>a DEF Planned, Answer
    <2>4. CASE u = t /\ Live(l)
      <3>1. /\ pc'[u] = "collect" /\ pc[u] = "collect"
            /\ plan'[u] = plan[u] \cup {l}
            /\ frontier'[u] = (frontier[u] \cup observed[l]) \ (plan[u] \cup {l})
            /\ UNCHANGED <<verdict, state, observed, has>>
        BY <1>5, <2>4, <1>a DEF Collect, CommitTypes, Live
      <3>2. plan'[u] \cup frontier'[u] = plan[u] \cup frontier[u] \cup observed[l] \cup {l}
        BY <3>1
      <3> QED
        BY <2>4, <3>1, <3>2, <1>a DEF Planned, Answer
    <2> QED
      BY <1>5, <2>1, <2>2, <2>3, <2>4 DEF Collect
  <1>6. ASSUME NEW t \in Tasks, Collected(t)
        PROVE  Planned(u)'
    <2>1. CASE u = t
      <3>1. /\ pc[u] = "collect" /\ pc'[u] = "claim" /\ frontier[u] = {} /\ toClaim'[u] = plan[u]
            /\ UNCHANGED <<plan, frontier, verdict, state, owner, observed, has>>
        BY <1>6, <2>1, <1>a DEF Collected, CommitTypes
      <3>2. Mine(u)' = {}
        BY <3>1 DEF Mine, EffectsSound, Sound
      <3> QED
        BY <3>1, <3>2, <1>a DEF Planned, Answer
    <2>2. CASE u # t
      BY <1>6, <2>2, <1>f, <1>s, <1>a DEF Collected, CommitTypes
    <2> QED
      BY <2>1, <2>2
  <1>7. ASSUME NEW t \in Tasks, NEW l \in Lifecycles, Claim(t, l)
        PROVE  Planned(u)'
    <2>0. pc[t] = "claim" /\ l \in toClaim[t] /\ UNCHANGED <<plan, frontier, has, observed>>
      BY <1>7 DEF Claim, NextClaim
    <2>1. CASE u # t
      <3>1. SameMine
        BY <1>7, <2>1, <1>a DEF Claim, Mine, LifecycleTypes
      <3> QED
        BY <1>7, <2>1, <3>1, <1>f, <1>a DEF Claim, CommitTypes
    <2>2. CASE u = t /\ state[l] = "Aborted"
      <3>1. pc'[u] = "restore" /\ verdict'[u] = "invalidated"
        BY <1>7, <2>2, <1>a DEF Claim, CommitTypes
      <3> QED
        BY <3>1, <1>d
    <2>3. CASE u = t /\ state[l] = "Committed"
      <3>1. UNCHANGED <<pc, verdict, state, owner>> /\ toClaim'[u] = toClaim[u] \ {l}
        BY <1>7, <2>3, <1>a DEF Claim, CommitTypes
      <3> QED
        BY <2>0, <2>3, <3>1, <1>a DEF Planned, Answer, Mine
    <2>4. CASE u = t /\ state[l] = "Pending"
      <3>1. /\ UNCHANGED <<pc, verdict>> /\ toClaim'[u] = toClaim[u] \ {l}
            /\ Mine(u)' = Mine(u) \cup {l}
        BY <1>7, <2>4, <1>a DEF Claim, CommitTypes, LifecycleTypes, Mine
      <3>2. l \in plan[u] /\ \A m \in Lifecycles : state[m] = "Committed" => state'[m] = "Committed"
        BY <1>m, <2>0, <2>4, <1>a DEF Planned
      <3> QED
        BY <2>0, <2>4, <3>1, <3>2, <1>t, <1>a DEF Planned, Answer
    <2> QED
      BY <1>7, <2>1, <2>2, <2>3, <2>4 DEF Claim
  <1>8. ASSUME NEW t \in Tasks, ClaimCanceled(t) \/ CommitCanceled(t)
        PROVE  Planned(u)'
    <2>1. CASE u = t
      <3>1. pc'[u] \in {"restore", "rollback"} /\ verdict'[u] = "canceled"
        BY <1>8, <2>1, <1>a DEF ClaimCanceled, CommitCanceled, CommitTypes
      <3> QED
        BY <3>1, <1>d
    <2>2. CASE u # t
      BY <1>8, <2>2, <1>f, <1>s, <1>a DEF ClaimCanceled, CommitCanceled, CommitTypes
    <2> QED
      BY <2>1, <2>2
  <1>9. ASSUME NEW t \in Tasks, Claimed(t) \/ Decide(t)
        PROVE  Planned(u)'
    <2>1. CASE u = t
      <3>1. /\ \/ pc[u] = "claim" /\ toClaim[u] = {} /\ pc'[u] = "commit"
               \/ pc[u] = "commit" /\ pc'[u] = "finish"
            /\ UNCHANGED <<plan, frontier, toClaim, verdict, state, owner, observed, has>>
        BY <1>9, <2>1, <1>a DEF Claimed, Decide, CommitTypes
      <3> QED
        BY <3>1, <1>a DEF Planned, Answer, Mine
    <2>2. CASE u # t
      BY <1>9, <2>2, <1>f, <1>s, <1>a DEF Claimed, Decide, CommitTypes
    <2> QED
      BY <2>1, <2>2
  <1>10. ASSUME NEW t \in Tasks, NEW l \in Lifecycles, CommitCallback(t, l) \/ CommitPanics(t, l)
         PROVE  Planned(u)'
    <2>1. CASE u = t /\ CommitPanics(t, l)
      <3>1. pc'[u] = "rollback" /\ verdict'[u] = "panicked"
        BY <2>1, <1>a DEF CommitPanics, CommitTypes
      <3> QED
        BY <3>1, <1>d
    <2>2. CASE u # t \/ CommitCallback(t, l)
      BY <1>10, <2>2, <1>f, <1>s, <1>a DEF CommitCallback, CommitPanics, CommitTypes
    <2> QED
      BY <1>10, <2>1, <2>2
  <1>11. ASSUME NEW t \in Tasks, NEW l \in Lifecycles, FinishCommit(t, l)
         PROVE  Planned(u)'
    <2>1. SameMine
      BY <1>11, <1>a DEF FinishCommit, Mine, LifecycleTypes
    <2> QED
      BY <1>11, <2>1, <1>f DEF FinishCommit
  <1>12. ASSUME NEW t \in Tasks, Finished(t)
         PROVE  Planned(u)'
    <2>1. CASE u = t
      <3>1. /\ pc[u] = "finish" /\ Mine(u) = {} /\ pc'[u] = "done"
            /\ UNCHANGED <<state, has>>
        BY <1>12, <2>1, <1>a DEF Finished, CommitTypes
      <3>2. Answer(u) # None /\ state[Answer(u)] = "Committed"
        BY <3>1, <1>a DEF Planned
      <3> QED
        BY <3>1, <3>2 DEF Planned, Answer
    <2>2. CASE u # t
      BY <1>12, <2>2, <1>f, <1>s, <1>a DEF Finished, CommitTypes
    <2> QED
      BY <2>1, <2>2
  <1>13. ASSUME NEW t \in Tasks, NEW l \in Lifecycles, Restore(t, l)
         PROVE  Planned(u)'
    <2>1. pc[u] \in {"claim", "commit", "finish"} => SameMine
      BY <1>13, <1>a DEF Restore, Mine, LifecycleTypes
    <2> QED
      BY <1>13, <2>1, <1>f DEF Restore
  <1>14. ASSUME NEW t \in Tasks, RolledBack(t) \/ Restored(t) \/ Discard(t)
         PROVE  Planned(u)'
    <2>1. CASE u = t
      <3>1. /\ pc[u] # "done" /\ pc'[u] \in {"restore", "done"}
            /\ verdict'[u] = verdict[u] \/ verdict'[u] = "canceled"
        BY <1>14, <2>1, <1>a DEF RolledBack, Restored, Discard, CommitTypes
      <3> QED
        BY <3>1, <1>a DEF Planned
    <2>2. CASE u # t
      BY <1>14, <2>2, <1>f, <1>s, <1>a DEF RolledBack, Restored, Discard, CommitTypes
    <2> QED
      BY <2>1, <2>2
  <1>15. ASSUME NEW l \in Lifecycles, AbortEvicted(l)
         PROVE  Planned(u)'
    <2>1. SameMine
      BY <1>15, <1>a DEF AbortEvicted, Mine, LifecycleTypes
    <2> QED
      BY <1>15, <2>1, <1>f DEF AbortEvicted
  <1>16. ASSUME NEW t \in Tasks, Evaluate(t) \/ Cancel(t)
         PROVE  Planned(u)'
    BY <1>e, <1>1, <1>2, <1>3, <1>4, <1>14, <1>16 DEF Evaluate, EnterBody, Cancel
  <1>17. ASSUME NEW t \in Tasks, CommitHandoffs(t)
         PROVE  Planned(u)'
    BY <1>e, <1>5, <1>6, <1>7, <1>8, <1>9, <1>10, <1>11, <1>12, <1>13, <1>14, <1>17
    DEF CommitHandoffs, RollBack
  <1> QED
    BY <1>e, <1>15, <1>16, <1>17 DEF Next, Evict, vars

-----------------------------------------------------------------------------
(* Evaluation *)

\* The walk of observe_handoff visits the lifecycle it starts from.
LEMMA WalkStarts ==
  ASSUME NEW l \in Lifecycles, NEW known
  PROVE  l \in Walk(l, known) /\ Walk(l, known) \subseteq Lifecycles
  BY DEF Walk

\* When all that a lifecycle observed has been checked, its validation looks at
\* nothing but itself.
LEMMA WalkIsShort ==
  ASSUME NEW l \in Lifecycles, NEW known, observed[l] \subseteq known, observed[l] \subseteq Lifecycles
  PROVE  Walk(l, known) \ known \subseteq {l}
  <1> DEFINE S == {l} \cup observed[l]
  <1>1. S \in SUBSET Lifecycles /\ l \in S
    OBVIOUS
  <1>2. \A x \in S \ known : Live(x) => observed[x] \subseteq S
    OBVIOUS
  <1>3. S \ known \subseteq {l}
    OBVIOUS
  <1> HIDE DEF S
  <1> QED
    BY <1>1, <1>2, <1>3 DEF Walk

\* Evicted lifecycles: waiting for their abort, or aborted by it.
Out(l) == l \in evicting \/ (state[l] = "Aborted" /\ l \notin broken)

\* What the evictor has taken is retained by no node and leased by no request.
Leases == \A l \in Lifecycles : Out(l) => l \notin retained /\ ~Leased(l)

\* What a request holds it has validated, unless it is committed; of what it has
\* just published it has validated everything below.
Checked ==
  \A t \in Tasks :
    /\ \A q \in Queries : has[t][q] # None /\ state[has[t][q]] # "Committed" => has[t][q] \in checked[t]
    /\ fresh[t] # None => observed[fresh[t]] \subseteq checked[t]

\* At first nothing is evicted and nothing is held.
LEMMA LeasesInit == Init => Leases /\ Checked
  BY DEF Init, Leases, Out, Checked

\* No request gets hold of an evicted lifecycle, and none that is held is evicted.
LEMMA LeasesStep == TypeOK /\ EffectsSound /\ Known /\ Leases /\ [Next]_vars => Leases'
  <1> SUFFICES ASSUME TypeOK, EffectsSound, Known, Leases, [Next]_vars, NEW m \in Lifecycles, Out(m)'
               PROVE  m \notin retained' /\ ~Leased(m)'
    BY DEF Leases
  <1> DEFINE Goal == m \notin retained' /\ ~Leased(m)'
  <1>a. LifecycleTypes /\ RetentionTypes /\ EvaluationTypes /\ CommitTypes /\ (Out(m) => m \notin retained /\ ~Leased(m))
    BY TypeParts DEF Leases
  <1>l. ASSUME \A t \in Tasks : pc'[t] # "done" => pc[t] # "done",
               \A t \in Tasks : fresh'[t] = m => fresh[t] = m,
               \A t \in Tasks : \A q \in Queries : has'[t][q] = m => has[t][q] = m \/ fresh[t] = m
        PROVE  Leased(m)' => Leased(m)
    BY <1>l DEF Leased
  <1>f. ASSUME retained' \subseteq retained, Out(m)' => Out(m), Leased(m)' => Leased(m)
        PROVE  Goal
    BY <1>f, <1>a
  <1>o. UNCHANGED <<state, evicting, broken>> => (Out(m)' => Out(m))
    BY DEF Out
  <1> USE DEF lifecycleVars, retentionVars, effectVars, evaluationVars, commitVars, Goto, End
  <1>1. ASSUME NEW t \in Tasks, NEW q \in Queries, Reuse(t, q)
        PROVE  Goal
    <2>0. PICK l \in retained : Observe(t, q, l)
      BY <1>1 DEF Reuse
    <2>1. retained' \subseteq retained /\ UNCHANGED <<pc, fresh, state, evicting, broken>>
      BY <1>1, <2>0 DEF Reuse, Observe
    <2>2. Out(m) /\ l # m
      BY <2>1, <1>o, <1>a
    <2>3. \A u \in Tasks : \A p \in Queries : has'[u][p] = m => has[u][p] = m
      BY <2>0, <2>2, <1>a DEF Observe, EvaluationTypes
    <2> QED
      BY <2>1, <2>3, <1>l, <1>f, <1>o
  <1>2. ASSUME NEW t \in Tasks, ObserveFresh(t)
        PROVE  Goal
    <2>1. retained' \subseteq retained /\ UNCHANGED <<pc, state, evicting, broken>>
      BY <1>2 DEF ObserveFresh, Observe
    <2>2. \A u \in Tasks : fresh'[u] = m => fresh[u] = m
      BY <1>2, <1>a, HandoffAssumption DEF ObserveFresh, EvaluationTypes
    <2>3. Out(m) /\ fresh[t] # m
      BY <1>2, <2>1, <1>o, <1>a DEF Leased, ObserveFresh
    <2>4. \A u \in Tasks : \A p \in Queries : has'[u][p] = m => has[u][p] = m
      BY <1>2, <2>3, <1>a DEF ObserveFresh, Observe, EvaluationTypes
    <2> QED
      BY <2>1, <2>2, <2>4, <1>l, <1>f, <1>o
  <1>3. ASSUME NEW t \in Tasks, NEW q \in Queries, NEW l \in Lifecycles, Publish(t, q, l)
        PROVE  Goal
    <2>1. state[l] = "unpublished" /\ state'[l] \in {"Pending", "Committed"}
      BY <1>3, <1>a DEF Publish, Free, LifecycleTypes
    <2>2. m # l
      BY <2>1, <1>3 DEF Out, Publish, Known, Published
    <2>3. Out(m)' => Out(m)
      BY <1>3, <2>2, <1>a DEF Out, Publish, LifecycleTypes
    <2>4. \A u \in Tasks : fresh'[u] = m => fresh[u] = m
      BY <1>3, <2>2, <1>a DEF Publish, EvaluationTypes
    <2>5. UNCHANGED <<pc, has>> /\ retained' = retained \cup {l}
      BY <1>3 DEF Publish
    <2> QED
      BY <2>2, <2>3, <2>4, <2>5, <1>l, <1>a
  \* A step after the evaluation: leases only end, and only an evicted
  \* lifecycle goes out.
  <1>4. ASSUME UNCHANGED <<retained, evicting, fresh, has>>,
               \A t \in Tasks : pc'[t] # "done" => pc[t] # "done",
               broken \subseteq broken',
               state'[m] = "Aborted" => state[m] = "Aborted" \/ m \in broken'
        PROVE  Goal
    <2>1. Out(m)' => Out(m)
      BY <1>4 DEF Out
    <2> QED
      BY <1>4, <2>1, <1>l, <1>f
  <1>5. ASSUME NEW t \in Tasks, Evaluate(t)
        PROVE  Goal
    <2>1. ASSUME Discard(t) \/ StartCommit(t) \/ \E q \in Queries : EnterBody(t, q)
          PROVE  Goal
      <3>1. \A u \in Tasks : pc'[u] # "done" => pc[u] # "done"
        BY <2>1, <1>a DEF Discard, StartCommit, EnterBody, CommitTypes
      <3> QED
        BY <2>1, <3>1, <1>4 DEF Discard, StartCommit, EnterBody
    <2> QED
      BY <1>5, <2>1, <1>1, <1>2, <1>3 DEF Evaluate
  <1>6. ASSUME NEW t \in Tasks, CommitHandoffs(t) \/ Cancel(t)
        PROVE  Goal
    <2>1. \A u \in Tasks : pc'[u] # "done" => pc[u] # "done"
      BY <1>6, <1>a DEF CommitHandoffs, Cancel, Collect, Claim, CommitCallback, CommitPanics, Collected,
         ClaimCanceled, Claimed, CommitCanceled, Decide, FinishCommit, RollBack, Restore, Finished,
         RolledBack, Restored, CommitTypes
    <2>2. UNCHANGED <<retained, evicting, fresh, has>> /\ broken \subseteq broken'
      BY <1>6 DEF CommitHandoffs, Cancel, Collect, Claim, CommitCallback, CommitPanics, Collected,
         ClaimCanceled, Claimed, CommitCanceled, Decide, FinishCommit, RollBack, Restore, Finished,
         RolledBack, Restored
    <2>3. state'[m] = "Aborted" => state[m] = "Aborted" \/ m \in broken'
      BY <1>6, <1>a DEF CommitHandoffs, Cancel, Collect, Claim, CommitCallback, CommitPanics, Collected,
         ClaimCanceled, Claimed, CommitCanceled, Decide, FinishCommit, RollBack, Restore, Finished,
         RolledBack, Restored, LifecycleTypes
    <2> QED
      BY <2>1, <2>2, <2>3, <1>4
  <1>7. ASSUME NEW l \in Lifecycles, Evict(l)
        PROVE  Goal
    <2>1. (Out(m)' => Out(m) \/ m = l) /\ (Leased(m)' => Leased(m))
      BY <1>7 DEF Evict, Out, Leased
    <2> QED
      BY <1>7, <2>1, <1>a DEF Evict
  <1>8. ASSUME NEW l \in Lifecycles, AbortEvicted(l)
        PROVE  Goal
    <2>1. (Out(m)' => Out(m)) /\ (Leased(m)' => Leased(m)) /\ retained' = retained
      BY <1>8, <1>a DEF AbortEvicted, Out, Leased, LifecycleTypes
    <2> QED
      BY <2>1, <1>f
  <1>9. CASE UNCHANGED vars
    BY <1>9, <1>4 DEF vars
  <1> QED
    BY <1>5, <1>6, <1>7, <1>8, <1>9 DEF Next

\* Validation results are never forgotten while a request runs.
LEMMA CheckedStep == TypeOK /\ EffectsSound /\ Known /\ Checked /\ [Next]_vars => Checked'
  <1> SUFFICES ASSUME TypeOK, EffectsSound, Known, Checked, [Next]_vars, NEW u \in Tasks
               PROVE  /\ (\A q \in Queries : has[u][q] # None /\ state[has[u][q]] # "Committed" => has[u][q] \in checked[u])'
                      /\ (fresh[u] # None => observed[fresh[u]] \subseteq checked[u])'
    BY DEF Checked
  <1> DEFINE Seen == \A q \in Queries : has[u][q] # None /\ state[has[u][q]] # "Committed" => has[u][q] \in checked[u]
             Near == fresh[u] # None => observed[fresh[u]] \subseteq checked[u]
  <1>a. LifecycleTypes /\ RetentionTypes /\ EvaluationTypes /\ Seen /\ Near
    BY TypeParts DEF Checked
  <1>m. \A l \in Lifecycles : /\ state[l] = "Committed" => state'[l] = "Committed"
                              /\ Published(l) => observed'[l] = observed[l]
    BY StepMoves DEF Moves
  <1>n. /\ \A q \in Queries : has[u][q] \in Lifecycles \cup {None}
        /\ fresh[u] \in Lifecycles \cup {None}
        /\ fresh[u] # None => Published(fresh[u])
    BY <1>a DEF EvaluationTypes, Known
  <1>h. checked[u] \subseteq checked'[u] /\ has'[u] = has[u] => Seen'
    BY <1>m, <1>n, <1>a
  <1>r. checked[u] \subseteq checked'[u] /\ fresh'[u] \in {fresh[u], None} => Near'
    BY <1>m, <1>n, <1>a
  <1>s. UNCHANGED <<checked, has, fresh>> => Seen' /\ Near'
    BY <1>h, <1>r
  <1>o. ASSUME NEW t \in Tasks, NEW q \in Queries, NEW l \in Lifecycles, Observe(t, q, l),
               UNCHANGED state
        PROVE  Seen' /\ checked[u] \subseteq checked'[u]
    <2>1. CASE u # t
      BY <2>1, <1>o, <1>h, <1>a DEF Observe, EvaluationTypes
    <2>2. CASE u = t /\ has' = [has EXCEPT ![t][q] = l] /\ state[l] = "Committed" /\ checked' = checked
      <3>1. \A p \in Queries : has'[u][p] = has[u][p] \/ has'[u][p] = l
        BY <2>2, <1>a DEF EvaluationTypes
      <3> QED
        BY <3>1, <2>2, <1>o, <1>a
    <2>3. CASE u = t /\ has' = [has EXCEPT ![t][q] = l] /\ checked' = [checked EXCEPT ![t] = @ \cup Walk(l, @)]
      <3>1. \A p \in Queries : has'[u][p] = has[u][p] \/ has'[u][p] = l
        BY <2>3, <1>a DEF EvaluationTypes
      <3>2. checked'[u] = checked[u] \cup Walk(l, checked[u])
        BY <2>3, <1>a DEF EvaluationTypes
      <3>3. l \in Walk(l, checked[u])
        BY WalkStarts
      <3> QED
        BY <3>1, <3>2, <3>3, <1>o, <1>a
    <2>4. CASE UNCHANGED <<has, checked>>
      BY <2>4, <1>h
    <2> QED
      BY <2>1, <2>2, <2>3, <2>4, <1>o DEF Observe
  <1> HIDE DEF Seen, Near
  <1> USE DEF lifecycleVars, retentionVars, effectVars, evaluationVars, commitVars, Goto, End
  <1>1. ASSUME NEW t \in Tasks, NEW q \in Queries, Reuse(t, q)
        PROVE  Seen' /\ Near'
    <2>1. PICK l \in Lifecycles : Observe(t, q, l)
      BY <1>1, <1>a DEF Reuse, RetentionTypes
    <2> QED
      BY <1>1, <2>1, <1>o, <1>r DEF Reuse
  <1>2. ASSUME NEW t \in Tasks, ObserveFresh(t)
        PROVE  Seen' /\ Near'
    <2>1. fresh[t] \in Lifecycles /\ QueryOf[fresh[t]] \in Queries
      BY <1>2, <1>a, HandoffAssumption DEF ObserveFresh, EvaluationTypes
    <2>2. fresh'[u] \in {fresh[u], None}
      BY <1>2, <1>a DEF ObserveFresh, EvaluationTypes
    <2> QED
      BY <1>2, <2>1, <2>2, <1>o, <1>r DEF ObserveFresh
  <1>3. ASSUME NEW t \in Tasks, NEW q \in Queries, NEW l \in Lifecycles, Publish(t, q, l)
        PROVE  Seen' /\ Near'
    <2>1. UNCHANGED <<has, checked>>
      BY <1>3 DEF Publish
    <2>2. CASE u # t
      BY <1>3, <2>1, <2>2, <1>h, <1>r, <1>a DEF Publish, EvaluationTypes
    <2>3. CASE u = t
      <3>1. fresh'[u] = l /\ observed'[l] = {d \in {has[u][p] : p \in DependsOn[q]} : state[d] # "Committed"}
        BY <1>3, <2>3, <1>a DEF Publish, EvaluationTypes, LifecycleTypes
      <3>2. \A p \in DependsOn[q] : p \in Queries /\ has[u][p] # None
        BY <1>3, <2>3, HandoffAssumption DEF Publish
      <3>3. \A d \in observed'[l] : d \in checked[u]
        BY <3>1, <3>2, <1>a DEF Seen
      <3> QED
        BY <3>1, <3>3, <2>1, <1>h DEF Near
    <2> QED
      BY <2>2, <2>3
  <1>4. ASSUME NEW t \in Tasks, Evaluate(t) \/ Cancel(t)
        PROVE  Seen' /\ Near'
    BY <1>4, <1>1, <1>2, <1>3, <1>s DEF Evaluate, EnterBody, Discard, StartCommit, Cancel
  <1>5. ASSUME NEW t \in Tasks, CommitHandoffs(t)
        PROVE  Seen' /\ Near'
    BY <1>5, <1>s DEF CommitHandoffs, Cancel, Collect, Claim, CommitCallback, CommitPanics, Collected,
       ClaimCanceled, Claimed, CommitCanceled, Decide, FinishCommit, RollBack, Restore, Finished,
       RolledBack, Restored
  <1> QED
    BY <1>4, <1>5, <1>s DEF Next, Evict, AbortEvicted, vars, Seen, Near

\* No body has been entered at first.
LEMMA BodiesInit == Init => BodiesRunOnce
  BY DEF Init, BodiesRunOnce

\* A body that has run is answered by its own terminal: the publisher's
\* validation cannot fail, except over a terminal that could not be rolled back.
LEMMA BodiesStep ==
  TypeOK /\ EffectsSound /\ Leases /\ Checked /\ BodiesRunOnce /\ [Next]_vars => BodiesRunOnce'
  <1> DEFINE Once(t, q) ==
               \/ q \in active[t]
               \/ fresh[t] # None /\ QueryOf[fresh[t]] = q
               \/ has[t][q] # None
               \/ \E l \in broken : QueryOf[l] = q
  <1> SUFFICES ASSUME TypeOK, EffectsSound, Leases, Checked, BodiesRunOnce, [Next]_vars,
                      NEW u \in Tasks, pc'[u] = "evaluate", NEW p \in bodies'[u]
               PROVE  Once(u, p)'
    BY DEF BodiesRunOnce
  <1>a. LifecycleTypes /\ EvaluationTypes /\ CommitTypes
    BY TypeParts
  <1>c. p \in Queries
    BY TypeStep, TypeParts DEF TypeOK
  <1>b. pc[u] = "evaluate" /\ p \in bodies[u] => Once(u, p)
    BY DEF BodiesRunOnce
  <1>f. ASSUME p \in bodies[u], pc[u] = "evaluate", active'[u] = active[u], fresh'[u] = fresh[u],
               has[u][p] # None => has'[u][p] # None, broken \subseteq broken'
        PROVE  Once(u, p)'
    BY <1>f, <1>b
  <1> HIDE DEF Once
  <1> USE DEF lifecycleVars, retentionVars, effectVars, evaluationVars, commitVars, Goto, End
  <1>o. ASSUME NEW t \in Tasks, NEW q \in Queries, NEW l \in Lifecycles, Observe(t, q, l)
        PROVE  has[u][p] # None => has'[u][p] # None
    <2>1. l # None /\ (has' = has \/ has' = [has EXCEPT ![t][q] = l])
      BY <1>o, HandoffAssumption DEF Observe
    <2> QED
      BY <2>1, <1>a, <1>c DEF EvaluationTypes
  <1>1. ASSUME NEW t \in Tasks, NEW q \in Queries, Reuse(t, q)
        PROVE  Once(u, p)'
    <2>1. PICK l \in Lifecycles : Observe(t, q, l)
      BY <1>1, TypeParts DEF Reuse, RetentionTypes
    <2> QED
      BY <1>1, <2>1, <1>o, <1>f DEF Reuse
  <1>2. ASSUME NEW t \in Tasks, NEW q \in Queries, EnterBody(t, q)
        PROVE  Once(u, p)'
    <2>1. CASE u = t /\ p = q
      BY <1>2, <2>1, <1>a DEF EnterBody, EvaluationTypes, Once
    <2>2. CASE u # t
      BY <1>2, <2>2, <1>f, <1>a DEF EnterBody, EvaluationTypes
    <2>3. CASE u = t /\ p # q
      <3>1. p \in bodies[u] /\ pc[u] = "evaluate" /\ active'[u] = active[u] \cup {q}
            /\ UNCHANGED <<fresh, has, broken>>
        BY <1>2, <2>3, <1>a DEF EnterBody, EvaluationTypes
      <3> QED
        BY <3>1, <1>b DEF Once
    <2> QED
      BY <2>1, <2>2, <2>3
  <1>3. ASSUME NEW t \in Tasks, NEW q \in Queries, NEW l \in Lifecycles, Publish(t, q, l)
        PROVE  Once(u, p)'
    <2>1. CASE u # t
      BY <1>3, <2>1, <1>f, <1>a DEF Publish, EvaluationTypes
    <2>2. CASE u = t
      <3>1. /\ fresh[u] = None /\ fresh'[u] = l /\ l # None /\ QueryOf[l] = q
            /\ active'[u] = active[u] \ {q} /\ UNCHANGED <<has, broken, bodies, pc>>
        BY <1>3, <2>2, <1>a, HandoffAssumption DEF Publish, Free, EvaluationTypes
      <3> QED
        BY <3>1, <1>b DEF Once
    <2> QED
      BY <2>1, <2>2
  <1>4. ASSUME NEW t \in Tasks, ObserveFresh(t)
        PROVE  Once(u, p)'
    <2> DEFINE l == fresh[t]
    <2>1. l \in Lifecycles /\ QueryOf[l] \in Queries /\ Observe(t, QueryOf[l], l)
      BY <1>4, <1>a, HandoffAssumption DEF ObserveFresh, EvaluationTypes
    <2>2. /\ UNCHANGED <<active, bodies, broken, pc>> /\ pc[t] = "evaluate" /\ l # None
          /\ has[u][p] # None => has'[u][p] # None
      BY <1>4, <2>1, <1>o DEF ObserveFresh
    <2>3. CASE u # t
      <3>1. fresh'[u] = fresh[u]
        BY <1>4, <2>3, <1>a DEF ObserveFresh, EvaluationTypes
      <3> QED
        BY <3>1, <2>2, <1>f
    <2>4. CASE u = t /\ QueryOf[l] # p
      BY <2>2, <2>4, <1>b DEF Once
    <2>5. CASE u = t /\ QueryOf[l] = p /\ has' = [has EXCEPT ![t][QueryOf[l]] = l]
      <3>1. has'[u][p] = l
        BY <2>1, <2>5, <1>a DEF EvaluationTypes
      <3> QED
        BY <3>1, <2>2 DEF Once
    <2>6. CASE u = t /\ QueryOf[l] = p /\ state[l] # "Committed" /\ ~Valid(t, l)
      <3>1. observed[l] \subseteq checked[t] /\ observed[l] \subseteq Lifecycles
        BY <2>1, <2>2, <1>a DEF Checked, LifecycleTypes
      <3>2. Walk(l, checked[t]) \ checked[t] \subseteq {l}
        BY <2>1, <3>1, WalkIsShort
      <3>3. state[l] = "Aborted"
        BY <2>6, <3>2 DEF Valid
      <3>4. Leased(l)
        BY <2>2 DEF Leased
      <3>5. l \in broken
        BY <2>1, <3>3, <3>4 DEF Leases, Out
      <3> QED
        BY <3>5, <2>2, <2>6 DEF Once
    <2> HIDE DEF l
    <2> QED
      BY <2>1, <2>3, <2>4, <2>5, <2>6 DEF Observe
  <1>5. ASSUME NEW t \in Tasks, Discard(t) \/ StartCommit(t)
        PROVE  Once(u, p)'
    BY <1>5, <1>f, <1>a DEF Discard, StartCommit, CommitTypes
  <1>6. ASSUME NEW t \in Tasks, CommitHandoffs(t)
        PROVE  Once(u, p)'
    <2>1. UNCHANGED <<active, bodies, fresh, has>> /\ broken \subseteq broken'
      BY <1>6 DEF CommitHandoffs, Collect, Claim, CommitCallback, CommitPanics, Collected,
         ClaimCanceled, Claimed, CommitCanceled, Decide, FinishCommit, RollBack, Restore, Finished,
         RolledBack, Restored
    <2>2. pc[u] = "evaluate"
      BY <1>6, <1>a DEF CommitHandoffs, Collect, Claim, CommitCallback, CommitPanics, Collected,
         ClaimCanceled, Claimed, CommitCanceled, Decide, FinishCommit, RollBack, Restore, Finished,
         RolledBack, Restored, CommitTypes
    <2> QED
      BY <2>1, <2>2, <1>f
  <1>7. CASE (\E t \in Tasks : Cancel(t)) \/ (\E l \in Lifecycles : Evict(l) \/ AbortEvicted(l)) \/ UNCHANGED vars
    BY <1>7, <1>f DEF Cancel, Evict, AbortEvicted, vars
  <1> QED
    BY <1>1, <1>2, <1>3, <1>4, <1>5, <1>6, <1>7 DEF Next, Evaluate

-----------------------------------------------------------------------------
(* The invariant and what follows *)

\* The inductive invariant of the handoff protocol.
IInv ==
  /\ TypeOK /\ EffectsSound /\ Known /\ Plans /\ Closed
  /\ Leases /\ Checked /\ BodiesRunOnce

\* It holds initially.
LEMMA InvInit == Init => IInv
  BY TypeInit, SoundInit, KnownInit, PlansInit, LeasesInit, BodiesInit DEF IInv

\* Every step keeps it.
LEMMA InvStep == IInv /\ [Next]_vars => IInv'
  BY TypeStep, SoundStep, KnownStep, PlansStep, ClosedStep, LeasesStep, CheckedStep, BodiesStep DEF IInv

\* The inductive invariant holds of every reachable state, for any number of
\* root requests, queries, terminals and callbacks.
THEOREM InvHolds == Spec => []IInv
  BY InvInit, InvStep, PTL DEF Spec

\* Between two commits exactly the effects of the committed lifecycles are in
\* force (commit_handoffs, rollback_handoff_batches), whatever requests share
\* them, panic or are canceled.
THEOREM EffectsFollowCommits == Spec => []EffectsMatchState
  <1>1. IInv => EffectsMatchState
    BY DEF IInv, EffectsSound, Sound, EffectsMatchState
  <1> QED
    BY <1>1, InvHolds, PTL

\* A request that succeeds returns a committed answer, and what is committed
\* rests on committed lifecycles only.
THEOREM AnswersAreCommitted == Spec => []AnswersRestOnCommitted
  <1>1. IInv => AnswersRestOnCommitted
    BY DEF IInv, Plans, Planned, Answer, Closed, AnswersRestOnCommitted
  <1> QED
    BY <1>1, InvHolds, PTL

\* No request enters a query's body twice, unless an abort callback panicked: the
\* expect in node.rs cannot fail otherwise.
THEOREM BodiesAreRunOnce == Spec => []BodiesRunOnce
  <1>1. IInv => BodiesRunOnce
    BY DEF IInv
  <1> QED
    BY <1>1, InvHolds, PTL

-----------------------------------------------------------------------------
(* Refinement *)

\* The refinement mapping, case by case.
LEMMA StatusIs ==
  ASSUME TypeOK, NEW l \in Lifecycles
  PROVE  /\ Status(l) = "unpublished" <=> state[l] = "unpublished"
         /\ Status(l) = "pending" <=>
              state[l] = "Pending" \/ (state[l] = "Committing" /\ pc[owner[l]] # "finish")
         /\ Status(l) = "committed" <=>
              state[l] = "Committed" \/ (state[l] = "Committing" /\ pc[owner[l]] = "finish")
         /\ Status(l) = "aborted" <=> state[l] = "Aborted"
         /\ Status(l) \in {"unpublished", "pending", "committed", "aborted"}
  <1>1. state[l] \in {"unpublished", "Pending", "Committing", "Committed", "Aborted"}
    BY DEF TypeOK
  <1> QED
    BY <1>1 DEF Status

\* The initial states of the protocol are those of atomic commits.
LEMMA AtomicInit == Init => Atomic!Init
  <1> SUFFICES ASSUME Init
               PROVE  Atomic!Init
    OBVIOUS
  <1>1. \A l \in Lifecycles : Status(l) = "unpublished"
    BY StatusIs, TypeInit DEF Init
  <1> QED
    BY <1>1 DEF Init, Atomic!Init

\* Every step of the protocol is a step of AtomicHandoffs or changes nothing it
\* can see. A task's whole plan commits in its Decide.
LEMMA AtomicStep == IInv /\ [Next]_vars => [Atomic!Next]_(Atomic!vars)
  <1> SUFFICES ASSUME IInv, [Next]_vars
               PROVE  Atomic!Next \/ UNCHANGED Atomic!vars
    OBVIOUS
  <1> DEFINE status == [l \in Lifecycles |-> Status(l)]
  <1>a. TypeOK /\ TypeOK' /\ EffectsSound /\ EffectsSound' /\ LifecycleTypes /\ CommitTypes
    BY TypeStep, SoundStep, TypeParts DEF IInv
  <1>d. status' = [l \in Lifecycles |-> Status(l)']
    OBVIOUS
  <1>s. ASSUME NEW l \in Lifecycles
        PROVE  /\ Status(l) = "unpublished" <=> state[l] = "unpublished"
               /\ Status(l) = "pending" <=>
                    state[l] = "Pending" \/ (state[l] = "Committing" /\ pc[owner[l]] # "finish")
               /\ Status(l) = "committed" <=>
                    state[l] = "Committed" \/ (state[l] = "Committing" /\ pc[owner[l]] = "finish")
               /\ Status(l) = "aborted" <=> state[l] = "Aborted"
               /\ Status(l) \in {"unpublished", "pending", "committed", "aborted"}
    BY <1>a, StatusIs
  <1>p. ASSUME NEW l \in Lifecycles
        PROVE  /\ Status(l)' = "unpublished" <=> state'[l] = "unpublished"
               /\ Status(l)' = "pending" <=>
                    state'[l] = "Pending" \/ (state'[l] = "Committing" /\ pc'[owner'[l]] # "finish")
               /\ Status(l)' = "committed" <=>
                    state'[l] = "Committed" \/ (state'[l] = "Committing" /\ pc'[owner'[l]] = "finish")
               /\ Status(l)' = "aborted" <=> state'[l] = "Aborted"
               /\ Status(l)' \in {"unpublished", "pending", "committed", "aborted"}
    <2>1. state'[l] \in {"unpublished", "Pending", "Committing", "Committed", "Aborted"}
      BY <1>a DEF TypeOK
    <2> QED
      BY <2>1 DEF Status
  <1>f. ASSUME NEW l \in Lifecycles,
               state'[l] = state[l],
               state[l] = "Committing" =>
                 /\ owner'[l] = owner[l]
                 /\ pc[owner[l]] = "finish" <=> pc'[owner[l]] = "finish"
        PROVE  Status(l)' = Status(l)
    BY <1>f, <1>s, <1>p
  <1>q. (\A l \in Lifecycles : Status(l)' = Status(l)) /\ UNCHANGED observed => UNCHANGED Atomic!vars
    BY DEF Atomic!vars
  <1> USE DEF lifecycleVars, retentionVars, effectVars, evaluationVars, commitVars, Goto, End
  <1>e. UNCHANGED <<state, owner, observed, pc>> => UNCHANGED Atomic!vars
    BY <1>f, <1>q
  \* A task moves on without deciding.
  <1>g. ASSUME NEW t \in Tasks, NEW at, UNCHANGED <<state, owner, observed>>, Goto(t, at), at # "finish",
               pc[t] # "finish" \/ Mine(t) = {}
        PROVE  UNCHANGED Atomic!vars
    <2>1. ASSUME NEW l \in Lifecycles, state[l] = "Committing"
          PROVE  pc[owner[l]] = "finish" <=> pc'[owner[l]] = "finish"
      <3>1. owner[l] \in Tasks
        BY <2>1, <1>a DEF EffectsSound, Sound
      <3> QED
        BY <3>1, <2>1, <1>g, <1>a DEF CommitTypes, Mine
    <2> QED
      BY <2>1, <1>g, <1>f, <1>q
  <1>1. ASSUME NEW t \in Tasks, NEW q \in Queries, NEW l \in Lifecycles, Publish(t, q, l)
        PROVE  Atomic!Publish(l)
    <2> DEFINE below == {d \in {has[t][r] : r \in DependsOn[q]} : state[d] # "Committed"}
    <2>1. /\ state[l] = "unpublished"
          /\ state' = [state EXCEPT ![l] = IF Callbacks[l] = 0 /\ below = {} THEN "Committed" ELSE "Pending"]
          /\ observed' = [observed EXCEPT ![l] = below]
          /\ UNCHANGED <<owner, pc>>
      BY <1>1 DEF Publish, Free
    <2>2. \A d \in below : d \in Lifecycles /\ Published(d)
      BY <1>1, <1>a, HandoffAssumption DEF Publish, IInv, Known, TypeOK
    <2>3. below \in SUBSET {d \in Lifecycles : status[d] # "unpublished"}
      BY <2>2, <1>s DEF Published
    <2>4. \A m \in Lifecycles \ {l} : Status(m)' = Status(m)
      BY <2>1, <1>f, <1>a DEF LifecycleTypes
    <2>5. Status(l)' = "pending" \/ (below = {} /\ Status(l)' = "committed")
      BY <2>1, <1>p, <1>a DEF LifecycleTypes
    <2>6. status' = [status EXCEPT ![l] = "pending"]
          \/ (below = {} /\ status' = [status EXCEPT ![l] = "committed"])
      BY <2>4, <2>5
    <2>7. status[l] = "unpublished"
      BY <2>1, <1>s
    <2> HIDE DEF below, status
    <2>8. /\ status[l] = "unpublished"
          /\ \E b \in SUBSET {d \in Lifecycles : status[d] # "unpublished"} :
               /\ observed' = [observed EXCEPT ![l] = b]
               /\ \/ status' = [status EXCEPT ![l] = "pending"]
                  \/ /\ \A d \in b : status[d] = "committed"
                     /\ status' = [status EXCEPT ![l] = "committed"]
      BY <2>1, <2>3, <2>6, <2>7
    <2> QED
      BY <2>8 DEF Atomic!Publish, status
  <1>2. ASSUME NEW t \in Tasks, Decide(t)
        PROVE  \E batch \in SUBSET {l \in Lifecycles : status[l] = "pending"} : Atomic!Commit(batch)
    <2>1. /\ pc[t] = "commit" /\ pc' = [pc EXCEPT ![t] = "finish"]
          /\ UNCHANGED <<state, owner, observed>>
      BY <1>2 DEF Decide
    <2>2. Mine(t) \in SUBSET {l \in Lifecycles : status[l] = "pending"}
      BY <2>1, <1>s DEF Mine
    <2>3. \A l \in Mine(t) : \A d \in observed[l] : d \in Mine(t) \/ status[d] = "committed"
      <3>1. \A l \in Mine(t) : \A d \in observed[l] : d \in Mine(t) \/ state[d] = "Committed"
        BY <2>1 DEF IInv, Plans, Planned
      <3>2. \A l \in Mine(t) : observed[l] \subseteq Lifecycles
        BY <1>a DEF Mine, LifecycleTypes
      <3> QED
        BY <3>1, <3>2, <1>s
    <2>4. ASSUME NEW l \in Lifecycles
          PROVE  Status(l)' = IF l \in Mine(t) THEN "committed" ELSE Status(l)
      <3>1. CASE l \in Mine(t)
        <4>1. pc'[t] = "finish"
          BY <2>1, <1>a DEF CommitTypes
        <4> QED
          BY <3>1, <4>1, <2>1, <1>p DEF Mine
      <3>2. CASE l \notin Mine(t)
        <4>1. state[l] = "Committing" => owner[l] \in Tasks /\ owner[l] # t
          BY <3>2, <1>a DEF Mine, EffectsSound, Sound
        <4> QED
          BY <3>2, <4>1, <2>1, <1>f, <1>a DEF CommitTypes
      <3> QED
        BY <3>1, <3>2
    <2>5. status' = [l \in Lifecycles |-> IF l \in Mine(t) THEN "committed" ELSE status[l]]
      BY <2>4
    <2>6. Atomic!Commit(Mine(t))
      BY <2>1, <2>3, <2>5 DEF Atomic!Commit
    <2> QED
      BY <2>2, <2>6
  <1>3. ASSUME NEW l \in Lifecycles, Status(l) = "pending", Status(l)' = "aborted",
               \A m \in Lifecycles \ {l} : Status(m)' = Status(m), UNCHANGED observed
        PROVE  Atomic!Abort(l)
    BY <1>3 DEF Atomic!Abort
  <1>4. ASSUME NEW t \in Tasks, NEW l \in Lifecycles, Restore(t, l)
        PROVE  Atomic!Abort(l) \/ UNCHANGED Atomic!vars
    <2>1. /\ pc[t] = "restore" /\ state[l] = "Committing" /\ owner[l] = t
          /\ state'[l] \in {"Aborted", "Pending"} /\ UNCHANGED <<pc, observed>>
      BY <1>4, <1>a DEF Restore, Mine, LifecycleTypes
    <2>2. \A m \in Lifecycles \ {l} : Status(m)' = Status(m)
      BY <1>4, <1>f, <1>a DEF Restore, LifecycleTypes
    <2>3. Status(l) = "pending" /\ Status(l)' \in {"aborted", "pending"}
      BY <2>1, <1>s, <1>p
    <2> QED
      BY <2>1, <2>2, <2>3, <1>3, <1>q
  <1>5. ASSUME NEW l \in Lifecycles, AbortEvicted(l)
        PROVE  Atomic!Abort(l) \/ UNCHANGED Atomic!vars
    <2>1. /\ (state[l] = "Pending" /\ state'[l] = "Aborted") \/ state'[l] = state[l]
          /\ state[l] # "Committing" /\ UNCHANGED observed
      BY <1>5, <1>a DEF AbortEvicted, LifecycleTypes
    <2>2. \A m \in Lifecycles \ {l} : Status(m)' = Status(m)
      BY <1>5, <1>f, <1>a DEF AbortEvicted, LifecycleTypes
    <2>3. Status(l)' = Status(l) \/ (Status(l) = "pending" /\ Status(l)' = "aborted")
      BY <2>1, <1>f, <1>s, <1>p
    <2> QED
      BY <2>1, <2>2, <2>3, <1>3, <1>q
  <1>6. ASSUME NEW t \in Tasks, NEW l \in Lifecycles, Claim(t, l)
        PROVE  UNCHANGED Atomic!vars
    <2>1. CASE state[l] = "Pending"
      <3>1. pc[t] = "claim" /\ state'[l] = "Committing" /\ owner'[l] = t /\ UNCHANGED <<pc, observed>>
        BY <1>6, <2>1, <1>a DEF Claim, LifecycleTypes
      <3>2. \A m \in Lifecycles \ {l} : Status(m)' = Status(m)
        BY <1>6, <2>1, <1>f, <1>a DEF Claim, LifecycleTypes
      <3>3. Status(l)' = Status(l)
        BY <2>1, <3>1, <1>s, <1>p
      <3> QED
        BY <3>1, <3>2, <3>3, <1>q
    <2>2. CASE state[l] = "Committed"
      BY <1>6, <2>2, <1>e DEF Claim
    <2>3. CASE state[l] = "Aborted"
      BY <1>6, <2>3, <1>g DEF Claim
    <2> QED
      BY <1>6, <2>1, <2>2, <2>3 DEF Claim
  <1>7. ASSUME NEW t \in Tasks, NEW l \in Lifecycles, FinishCommit(t, l)
        PROVE  UNCHANGED Atomic!vars
    <2>1. /\ pc[t] = "finish" /\ state[l] = "Committing" /\ owner[l] = t
          /\ state'[l] = "Committed" /\ UNCHANGED <<pc, observed>>
      BY <1>7, <1>a DEF FinishCommit, Mine, LifecycleTypes
    <2>2. \A m \in Lifecycles \ {l} : Status(m)' = Status(m)
      BY <1>7, <1>f, <1>a DEF FinishCommit, LifecycleTypes
    <2>3. Status(l)' = Status(l)
      BY <2>1, <1>s, <1>p
    <2> QED
      BY <2>1, <2>2, <2>3, <1>q
  <1>8. ASSUME NEW t \in Tasks,
               \/ Discard(t) \/ StartCommit(t) \/ Collected(t) \/ ClaimCanceled(t) \/ Claimed(t)
               \/ CommitCanceled(t) \/ Finished(t) \/ RolledBack(t) \/ Restored(t)
        PROVE  UNCHANGED Atomic!vars
    BY <1>8, <1>g DEF Discard, StartCommit, Collected, ClaimCanceled, Claimed, CommitCanceled, Finished,
                      RolledBack, Restored
  <1>9. ASSUME NEW t \in Tasks, NEW l \in Lifecycles,
               Collect(t, l) \/ CommitCallback(t, l) \/ CommitPanics(t, l) \/ RollBack(t, l)
        PROVE  UNCHANGED Atomic!vars
    BY <1>9, <1>e, <1>g DEF Collect, CommitCallback, CommitPanics, RollBack
  <1> HIDE DEF status
  <1>10. ASSUME NEW t \in Tasks, Evaluate(t) \/ Cancel(t)
         PROVE  (\E l \in Lifecycles : Atomic!Publish(l)) \/ UNCHANGED Atomic!vars
    BY <1>10, <1>1, <1>8, <1>e DEF Evaluate, Reuse, EnterBody, ObserveFresh, Cancel
  <1>11. ASSUME NEW t \in Tasks, CommitHandoffs(t)
         PROVE  \/ \E batch \in SUBSET {l \in Lifecycles : status[l] = "pending"} : Atomic!Commit(batch)
                \/ \E l \in Lifecycles : Atomic!Abort(l)
                \/ UNCHANGED Atomic!vars
    BY <1>11, <1>2, <1>4, <1>6, <1>7, <1>8, <1>9 DEF CommitHandoffs
  <1>12. CASE UNCHANGED vars
    BY <1>12, <1>e DEF vars
  <1>13. ASSUME NEW l \in Lifecycles, Evict(l) \/ AbortEvicted(l)
         PROVE  Atomic!Abort(l) \/ UNCHANGED Atomic!vars
    BY <1>13, <1>5, <1>e DEF Evict
  <1> QED
    BY <1>10, <1>11, <1>12, <1>13 DEF Next, Atomic!Next, status

\* The claim-commit-finish protocol of task.rs implements atomic commits.
THEOREM CommitsAreAtomic == Spec => CommitsAtomically
  BY InvHolds, AtomicInit, AtomicStep, PTL DEF Spec, CommitsAtomically, Atomic!Spec
=============================================================================
