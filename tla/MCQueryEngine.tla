---------------------------- MODULE MCQueryEngine ----------------------------
(***************************************************************************)
(* Small query programs for TLC. A program gives every key a body: the     *)
(* operation it performs after having received the answers in its log.     *)
(***************************************************************************)
EXTENDS QueryConsistency, TLC

CONSTANTS t1, t2
TaskSymmetry == Permutations(Tasks)

Input(leaf) == [op |-> "input", leaf |-> leaf]
Optional(leaf) == [op |-> "optional", leaf |-> leaf]
Query(key) == [op |-> "query", key |-> key]
Done(value) == [op |-> "done", value |-> value]

Rev(compat, epoch, view) == [compat |-> compat, epoch |-> epoch, view |-> view]
View(x, s) == "x" :> x @@ "s" :> s

\* The host's requests, with as many cancellations and evictions at any moment.
Asks(asks, cancels, evictions) == [asks |-> asks, cancels |-> cancels, evictions |-> evictions]

-----------------------------------------------------------------------------
(* A chain root -> mid -> opt, where opt reads an optional leaf: revision 2  *)
(* drops the leaf (fresh epoch), revision 3 adds it again with another stamp *)
(* (same epoch as 2). Between 1 and 3 opt's node may be retired and minted   *)
(* again by the request for opt, and its new value has the old one's stamp.  *)
(* And top -> leaf, where leaf rounds the input it reads: revision 4         *)
(* re-stamps the input and leaf's value stays the same, revision 5 removes   *)
(* it, revision 6 extends 4's epoch by a leaf nobody reads, so that          *)
(* certificates of 4 are carried forward to it.                              *)

ChainKeys == <<"leaf", "mid", "opt", "root", "top">>
ChainInputs == {"x", "s"}
ChainRevisions == <<Rev("c", 1, View(1, 1)), Rev("c", 2, View(0, 1)), Rev("c", 2, View(2, 1)),
                    Rev("c", 3, View(2, 0)), Rev("c", 4, View(0, 1)), Rev("c", 3, View(2, 1))>>
ChainStep(key, log) ==
  CASE key = "root" /\ log = << >>   -> Query("mid")
    [] key = "root" /\ Len(log) = 1  -> Done(log[1])
    [] key = "mid" /\ log = << >>    -> Query("opt")
    [] key = "mid" /\ Len(log) = 1   -> Done(log[1])
    [] key = "opt" /\ log = << >>    -> Optional("x")
    [] key = "opt" /\ Len(log) = 1   -> Done(IF log[1] = 2 THEN 8 ELSE 7)
    [] key = "top" /\ log = << >>    -> Query("leaf")
    [] key = "top" /\ Len(log) = 1   -> Done(log[1])
    [] key = "leaf" /\ log = << >>   -> Input("x")
    [] key = "leaf" /\ Len(log) = 1  -> Done(1)
ChainScenarios == {Asks(<< <<"root", 1>>, <<"root", 2>>, <<"root", 3>> >>, 0, 0),
                   Asks(<< <<"root", 3>>, <<"root", 2>>, <<"root", 3>> >>, 0, 0),
                   Asks(<< <<"root", 1>>, <<"root", 3>>, <<"opt", 3>> >>, 0, 1),
                   Asks(<< <<"top", 1>>, <<"top", 4>>, <<"top", 6>> >>, 1, 1),
                   Asks(<< <<"top", 1>>, <<"top", 5>> >>, 1, 1)}

-----------------------------------------------------------------------------
(* The leaf s decides the direction of an edge: 1 makes a demand b, 2 makes  *)
(* b demand a, 3 makes them demand each other, 4 makes neither demand.       *)

FlipKeys == <<"a", "b", "shape">>
FlipInputs == {"s"}
FlipRevisions == [r \in 1 .. 4 |-> Rev("c", r, "s" :> r)]
FlipStep(key, log) ==
  CASE key = "shape" /\ log = << >>  -> Input("s")
    [] key = "shape" /\ Len(log) = 1 -> Done(log[1])
    [] key # "shape" /\ log = << >>  -> Query("shape")
    [] key = "a" /\ Len(log) = 1 /\ log[1] \in {1, 3} -> Query("b")
    [] key = "b" /\ Len(log) = 1 /\ log[1] \in {2, 3} -> Query("a")
    [] key # "shape" /\ Len(log) = 1 -> Done(0)
    [] key # "shape" /\ Len(log) = 2 -> Done(log[2] + 1)
CycleScenarios == {Asks(<< <<"a", 3>>, <<"b", 3>> >>, 1, 0), Asks(<< <<"a", 1>>, <<"b", 2>> >>, 0, 0)}
ReversalScenarios == {Asks(<< <<"a", 1>>, <<"b", 2>>, <<"b", 4>> >>, 0, 0)}

-----------------------------------------------------------------------------
(* parent demands child; child demanded edge while the leaf s was 1, and     *)
(* edge demands back and then needs the leaf m, which revision 2 drops.      *)
(* From revision 3 on, d makes back demand parent.                           *)

ReplayKeys == <<"back", "child", "edge", "parent", "shape">>
ReplayInputs == {"d", "m", "s"}
ReplayView(d, m, s) == "d" :> d @@ "m" :> m @@ "s" :> s
ReplayRevisions == <<Rev("c", 1, ReplayView(1, 1, 1)), Rev("c", 2, ReplayView(1, 0, 2)),
                     Rev("c", 3, ReplayView(2, 0, 2))>>
ReplayStep(key, log) ==
  CASE key = "shape" /\ log = << >>   -> Input("s")
    [] key = "shape" /\ Len(log) = 1  -> Done(log[1])
    [] key = "child" /\ log = << >>   -> Query("shape")
    [] key = "child" /\ log = <<1>>   -> Query("edge")
    [] key = "child" /\ (Len(log) = 2 \/ log = <<2>>) -> Done(0)
    [] key = "edge" /\ log = << >>    -> Query("back")
    [] key = "edge" /\ Len(log) = 1   -> Input("m")
    [] key = "edge" /\ Len(log) = 2   -> Done(0)
    [] key = "back" /\ log = << >>    -> Input("d")
    [] key = "back" /\ log = <<2>>    -> Query("parent")
    [] key = "back" /\ (Len(log) = 2 \/ log = <<1>>) -> Done(0)
    [] key = "parent" /\ log = << >>  -> Query("child")
    [] key = "parent" /\ Len(log) = 1 -> Done(0)
ReplayScenarios == {Asks(<< <<"child", 1>>, <<"parent", 2>>, <<"parent", 3>> >>, 0, 0)}
=============================================================================
