------------------------------ MODULE JoinWakeup ------------------------------
(***************************************************************************)
(* How a request waits for another's computation and is woken: join and    *)
(* WaitCell (node.rs), CancellationToken (outcome.rs), at the level of     *)
(* their mutexes. One node with one computing attempt; its joiners have    *)
(* already been counted as waiters. Three kinds of mutex are involved:     *)
(* node.state, the generation of the node's WaitCell, and the watcher list *)
(* of each cancellation token. A section that takes no other mutex is one  *)
(* action; only what is held across another acquisition is a variable.     *)
(***************************************************************************)
EXTENDS Integers, FiniteSets

CONSTANTS
  Joiners,        \* tasks that join the attempt
  Tokens,         \* cancellation tokens; a batch's children share their parent's
  TokenOf,        \* the token of each joiner
  Cancelable,     \* tokens the host may cancel
  Owner,          \* the task that computes the attempt
  None            \* no holder

ASSUME WakeupAssumption ==
  /\ IsFiniteSet(Joiners)
  /\ TokenOf \in [Joiners -> Tokens]
  /\ Cancelable \subseteq Tokens
  /\ Joiners \cap Tokens = {} /\ Owner \notin Joiners \cup Tokens
  /\ None \notin Joiners \cup Tokens

Actors == Joiners \cup Tokens \cup {Owner}

VARIABLES
  attempt,        \* "computing", "terminal" or "gone"
  waiters,        \* the attempt's waiter count
  canceled,       \* the tokens' flags
  watchers,       \* the joiners each token has to wake
  state,          \* holder of node.state across another acquisition
  generation,     \* holder of WaitCell::generation
  registry,       \* holder of each token's watcher list
  pc,
  todo,           \* watchers a cancellation has still to notify
  outcome         \* what join returned

vars == <<attempt, waiters, canceled, watchers, state, generation, registry, pc, todo, outcome>>

At(a, label) == pc[a] = label
Goto(a, label) == pc' = [pc EXCEPT ![a] = label]

\* Condvar::notify_all: every parked joiner goes on to reacquire the generation.
Woken(a, label) == [b \in Actors |-> IF b = a THEN label ELSE IF pc[b] = "parked" THEN "wait" ELSE pc[b]]

-----------------------------------------------------------------------------
(* join *)

\* Mutant: a canceled joiner keeps its count.
EndsUncounted(j, leave, stay) ==
  LET why == IF canceled[TokenOf[j]] THEN "canceled"
             ELSE IF attempt = "gone" THEN "retry" ELSE "joined"
      ends == canceled[TokenOf[j]] \/ attempt # "computing"
  IN /\ outcome' = [outcome EXCEPT ![j] = IF ends THEN why ELSE @]
     /\ waiters' = IF why = "joined" /\ ends THEN waiters - 1 ELSE waiters
     /\ Goto(j, IF ends THEN leave ELSE stay)

\* Mutants: the loop does not look at the token; it does not notice that the
\* attempt is gone.
EndsDeaf(j, leave, stay) ==
  /\ outcome' = [outcome EXCEPT ![j] = IF attempt = "computing" THEN @
                                      ELSE IF attempt = "gone" THEN "retry" ELSE "joined"]
  /\ waiters' = IF attempt = "terminal" THEN waiters - 1 ELSE waiters
  /\ Goto(j, IF attempt # "computing" THEN leave ELSE stay)
EndsOnTerminal(j, leave, stay) ==
  LET ends == canceled[TokenOf[j]] \/ attempt = "terminal"
  IN /\ outcome' = [outcome EXCEPT ![j] = IF ~ends THEN @
                                         ELSE IF canceled[TokenOf[j]] THEN "canceled" ELSE "joined"]
     /\ waiters' = IF ends /\ attempt # "gone" THEN waiters - 1 ELSE waiters
     /\ Goto(j, IF ends THEN leave ELSE stay)

\* Under node.state: canceled first, then gone, then terminal.
Ends(j, leave, stay) ==
  LET why == IF canceled[TokenOf[j]] THEN "canceled"
             ELSE IF attempt = "gone" THEN "retry" ELSE "joined"
      ends == canceled[TokenOf[j]] \/ attempt # "computing"
  IN /\ outcome' = [outcome EXCEPT ![j] = IF ends THEN why ELSE @]
     /\ waiters' = IF ends /\ attempt # "gone" THEN waiters - 1 ELSE waiters
     /\ Goto(j, IF ends THEN leave ELSE stay)

\* First pass; a computing attempt keeps node.state locked into watch().
Enter(j) ==
  /\ At(j, "enter")
  /\ state = None
  /\ Ends(j, "done", "watch")
  /\ state' = IF canceled[TokenOf[j]] \/ attempt # "computing" THEN None ELSE j
  /\ UNCHANGED <<attempt, canceled, watchers, generation, registry, todo>>

\* CancellationToken::watch: register ...
Watch(j) ==
  /\ At(j, "watch")
  /\ registry[TokenOf[j]] = None
  /\ watchers' = [watchers EXCEPT ![TokenOf[j]] = @ \cup {j}]
  /\ Goto(j, "watched")
  /\ UNCHANGED <<attempt, waiters, canceled, state, generation, registry, todo, outcome>>

\* ... then notify oneself if the token was canceled in between. Without that,
\* node.state is released here.
Watched(j) ==
  /\ At(j, "watched")
  /\ Goto(j, IF canceled[TokenOf[j]] THEN "self" ELSE "check")
  /\ state' = IF canceled[TokenOf[j]] THEN j ELSE None
  /\ UNCHANGED <<attempt, waiters, canceled, watchers, generation, registry, todo, outcome>>

\* The loop: test under node.state, wait when the attempt still computes.
Check(j) ==
  /\ At(j, "check")
  /\ state = None
  /\ Ends(j, "unwatch", "wait")
  /\ UNCHANGED <<attempt, canceled, watchers, state, generation, registry, todo>>

\* WaitCell::wait_until locks the generation, and reads the token first.
Wait(j) ==
  /\ At(j, "wait")
  /\ generation = None
  /\ generation' = j
  /\ Goto(j, "predicate")
  /\ UNCHANGED <<attempt, waiters, canceled, watchers, state, registry, todo, outcome>>

Predicate(j) ==
  /\ At(j, "predicate")
  /\ Goto(j, IF canceled[TokenOf[j]] THEN "check" ELSE "peek")
  /\ generation' = IF canceled[TokenOf[j]] THEN None ELSE j
  /\ UNCHANGED <<attempt, waiters, canceled, watchers, state, registry, todo, outcome>>

\* The rest of the predicate takes node.state inside the generation.
Peek(j) ==
  /\ At(j, "peek")
  /\ state = None
  /\ Goto(j, IF attempt = "computing" THEN "park" ELSE "check")
  /\ generation' = IF attempt = "computing" THEN j ELSE None
  /\ UNCHANGED <<attempt, waiters, canceled, watchers, state, registry, todo, outcome>>

\* Condvar::wait releases the generation and parks in one step.
Park(j) ==
  /\ At(j, "park")
  /\ generation' = None
  /\ Goto(j, "parked")
  /\ UNCHANGED <<attempt, waiters, canceled, watchers, state, registry, todo, outcome>>

Unwatch(j) ==
  /\ At(j, "unwatch")
  /\ registry[TokenOf[j]] = None
  /\ watchers' = [watchers EXCEPT ![TokenOf[j]] = @ \ {j}]
  /\ Goto(j, "done")
  /\ UNCHANGED <<attempt, waiters, canceled, state, generation, registry, todo, outcome>>

-----------------------------------------------------------------------------
(* WaitCell::notify_all, for the owner, a cancellation or a watching joiner *)

\* Mutant: the condition variable is notified without going through the mutex.
BumpUnlocked(a) ==
  /\ pc[a] \in {"notify", "self"}
  /\ Goto(a, "wake")
  /\ UNCHANGED <<attempt, waiters, canceled, watchers, state, generation, registry, todo, outcome>>

Bump(a) ==
  /\ pc[a] \in {"notify", "self"}
  /\ generation = None
  /\ Goto(a, "wake")
  /\ UNCHANGED <<attempt, waiters, canceled, watchers, state, generation, registry, todo, outcome>>

\* After its own notification a joiner releases node.state and enters the loop.
Wake(a) ==
  /\ At(a, "wake")
  /\ pc' = Woken(a, IF a \in Joiners THEN "check" ELSE IF a = Owner THEN "done" ELSE "each")
  /\ state' = IF state = a THEN None ELSE state
  /\ UNCHANGED <<attempt, waiters, canceled, watchers, generation, registry, todo, outcome>>

-----------------------------------------------------------------------------
(* The owner publishes or aborts, then notifies *)

End(result) ==
  /\ At(Owner, "computing")
  /\ state = None
  /\ attempt' = result
  /\ waiters' = IF result = "gone" THEN 0 ELSE waiters
  /\ Goto(Owner, "notify")
  /\ UNCHANGED <<canceled, watchers, state, generation, registry, todo, outcome>>

-----------------------------------------------------------------------------
(* CancellationToken::cancel *)

Cancel(k) ==
  /\ k \in Cancelable
  /\ At(k, "live")
  /\ canceled' = [canceled EXCEPT ![k] = TRUE]
  /\ Goto(k, "lock")
  /\ UNCHANGED <<attempt, waiters, watchers, state, generation, registry, todo, outcome>>

CancelLock(k) ==
  /\ At(k, "lock")
  /\ registry[k] = None
  /\ registry' = [registry EXCEPT ![k] = k]
  /\ todo' = [todo EXCEPT ![k] = watchers[k]]
  /\ Goto(k, "each")
  /\ UNCHANGED <<attempt, waiters, canceled, watchers, state, generation, outcome>>

\* Every watcher is notified with the watcher list locked.
CancelEach(k) ==
  /\ At(k, "each")
  /\ \/ \E j \in todo[k] : /\ todo' = [todo EXCEPT ![k] = @ \ {j}]
                           /\ Goto(k, "notify")
                           /\ UNCHANGED registry
     \/ /\ todo[k] = {}
        /\ registry' = [registry EXCEPT ![k] = None]
        /\ Goto(k, "done")
        /\ UNCHANGED todo
  /\ UNCHANGED <<attempt, waiters, canceled, watchers, state, generation, outcome>>

-----------------------------------------------------------------------------
Init ==
  /\ attempt = "computing"
  /\ waiters = Cardinality(Joiners)
  /\ canceled = [k \in Tokens |-> FALSE]
  /\ watchers = [k \in Tokens |-> {}]
  /\ state = None
  /\ generation = None
  /\ registry = [k \in Tokens |-> None]
  /\ pc = [a \in Actors |-> IF a \in Joiners THEN "enter" ELSE IF a = Owner THEN "computing" ELSE "live"]
  /\ todo = [k \in Tokens |-> {}]
  /\ outcome = [j \in Joiners |-> "none"]

JoinStep(j) ==
  \/ Enter(j) \/ Watch(j) \/ Watched(j) \/ Check(j) \/ Wait(j)
  \/ Predicate(j) \/ Peek(j) \/ Park(j) \/ Unwatch(j)

Notify(a) == Bump(a) \/ Wake(a)
CancelStep(k) == CancelLock(k) \/ CancelEach(k)

Next ==
  \/ \E j \in Joiners : JoinStep(j)
  \/ \E a \in Actors : Notify(a)
  \/ \E result \in {"terminal", "gone"} : End(result)
  \/ \E k \in Tokens : Cancel(k) \/ CancelStep(k)

\* Threads run, and std's mutexes let a waiting thread in eventually; when the
\* owner ends and whether the host cancels is theirs to decide.
Fairness ==
  /\ \A j \in Joiners : WF_vars(JoinStep(j))
  /\ \A a \in Actors : WF_vars(Notify(a))
  /\ \A k \in Tokens : WF_vars(CancelStep(k))

Spec == Init /\ [][Next]_vars /\ Fairness

-----------------------------------------------------------------------------
(* Properties *)

\* Mutex holders, flags and counts stay in range.
TypeOK ==
  /\ attempt \in {"computing", "terminal", "gone"}
  /\ waiters \in 0 .. Cardinality(Joiners)
  /\ canceled \in [Tokens -> BOOLEAN]
  /\ watchers \in [Tokens -> SUBSET Joiners] /\ todo \in [Tokens -> SUBSET Joiners]
  /\ state \in Joiners \cup {None} /\ generation \in Joiners \cup {None}
  /\ registry \in [Tokens -> Tokens \cup {None}]
  /\ outcome \in [Joiners -> {"none", "canceled", "retry", "joined"}]

\* Somebody is on the way to a notify_all that reaches joiner j.
Coming(j) ==
  \/ \E a \in Actors : At(a, "wake")
  \/ \E a \in Joiners \cup {Owner} : pc[a] \in {"notify", "self"}
  \/ LET k == TokenOf[j] IN At(k, "lock") \/ At(k, "notify") \/ (At(k, "each") /\ j \in todo[k])

\* No lost wake-up: a joiner stays parked only while it has something to wait
\* for, or while the notification that ends its wait is under way.
NoLostWakeup ==
  \A j \in Joiners :
    At(j, "parked") /\ (attempt # "computing" \/ canceled[TokenOf[j]]) => Coming(j)

\* Every joiner gives its waiter count back once, however join ends, so a
\* retained terminal is protected exactly as long as someone may still take it. The type invariant is
\* its first part.
WaitersReturned ==
  /\ TypeOK
  /\ attempt # "gone" => waiters = Cardinality({j \in Joiners : outcome[j] = "none"})

\* "Cancels this waiter/request and wakes its parked joins": the joins of a
\* canceled token return.
CanceledJoinsReturn ==
  \A j \in Joiners : canceled[TokenOf[j]] ~> At(j, "done")

\* How the mutexes of one node deadlock: a join that registers holds node.state,
\* another that waits holds the generation and wants node.state for its predicate.
\* The first wants the generation, since its token has been canceled, or the
\* watcher list of its token, with which the cancellation waits for the generation.
Crossed ==
  \E i, j \in Joiners :
    /\ i # j /\ state = i /\ At(j, "peek") /\ generation = j
    /\ \/ At(i, "self")
       \/ LET k == TokenOf[i] IN At(i, "watch") /\ registry[k] = k /\ At(k, "notify")

\* These are the only ways a cancellation fails to end the joins of its token,
\* whoever shares it.
CanceledJoinsReturnOrCross ==
  \A j \in Joiners : canceled[TokenOf[j]] ~> At(j, "done") \/ Crossed

\* Once the owner has published or aborted, every join returns: nobody can have
\* crossed, because the owner needed node.state, and nobody will.
EndedJoinsReturn ==
  attempt # "computing" ~> \A j \in Joiners : At(j, "done")
=============================================================================
