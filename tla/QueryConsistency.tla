--------------------------- MODULE QueryConsistency ---------------------------
(***************************************************************************)
(* What the query engine promises its host: every answer is the one a      *)
(* from-scratch evaluation of the request's revision gives, whatever was   *)
(* reused, joined, evicted or canceled on the way.                         *)
(***************************************************************************)
EXTENDS QueryEngine

Ok(value) == [value |-> value]
Fails(why) == [abort |-> why]

\* The reference semantics: run the bodies against one revision, no memo.
RECURSIVE RunBody(_, _, _, _)
RunBody(key, rev, log, path) ==
  LET op == Step(key, log)
      leaf == Revisions[rev].view[op.leaf]
      sub == IF op.key \in path THEN Fails("cycle") ELSE RunBody(op.key, rev, << >>, path \cup {op.key})
  IN CASE op.op = "done" -> Ok(op.value)
       [] op.op = "input" /\ leaf = Missing -> Fails("missing")
       [] op.op = "input" /\ leaf # Missing -> RunBody(key, rev, Append(log, leaf), path)
       [] op.op = "optional" -> RunBody(key, rev, Append(log, leaf), path)
       [] op.op = "query" -> IF IsAbort(sub) THEN sub
                             ELSE RunBody(key, rev, Append(log, sub.value), path)

FromScratch(key, rev) == RunBody(key, rev, << >>, {key})

\* A request that ends with a terminal has the value its revision evaluates to;
\* one that ends with a missing input or a cycle would fail that way from
\* scratch; one that ends canceled was canceled.
AnswersAreFromScratch ==
  \A t \in Tasks : tasks[t].status = "done" =>
    LET expected == FromScratch(tasks[t].key, tasks[t].rev)
        ret == tasks[t].ret
    IN IF IsAbort(ret)
       THEN IF ret.abort = "canceled" THEN Canceled(t) ELSE expected = Fails(ret.abort)
       ELSE expected = Ok(ret.terminal.value)

\* A validation certificate backs a terminal the node still retains, and at
\* every revision that accepts it that terminal's value is the from-scratch one.
CertificatesAreSound ==
  \A inc \in DOMAIN nodes : nodes[inc].validated_at # NoCertificate =>
    LET c == nodes[inc].validated_at
    IN \E i \in Computed(inc) :
         LET terminal == Attempts(inc)[i].terminal
         IN /\ terminal.stamp = c.stamp /\ terminal.rev = c.terminal_rev
            /\ \A rev \in RevIds : Accepts(c, rev) =>
                 FromScratch(nodes[inc].key, rev) = Ok(terminal.value)

\* Task::cache_query asserts that a key is cached once per task: a second
\* observed answer is the same incarnation, stamp and revision.
CacheAgrees ==
  \A t \in Tasks, key \in Keys : \A a, b \in tasks[t].cache[key] :
    a.inc = b.inc /\ a.terminal.stamp = b.terminal.stamp /\ a.terminal.rev = b.terminal.rev

\* ActiveValidations promises the "runtime incarnations on the current
\* validation recursion path" to be distinct: with no body in between, a task
\* is never validating one incarnation inside a validation of itself.
ValidationPathIsSimple ==
  \A t \in Tasks : \A i, j \in DOMAIN Stack(t) :
    /\ i < j
    /\ Stack(t)[i].kind = "validate" /\ Stack(t)[j].kind = "validate"
    /\ ~\E k \in i .. j : Stack(t)[k].kind = "body"
    => Stack(t)[i].inc # Stack(t)[j].inc

\* Every request the host starts comes back.
RequestsTerminate == \A t \in Tasks : tasks[t].status = "running" ~> tasks[t].status # "running"
=============================================================================
