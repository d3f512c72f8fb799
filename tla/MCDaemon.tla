------------------------------ MODULE MCDaemon ------------------------------
(* Invocations and processes for TLC. *)
EXTENDS Daemon

CONSTANTS b1, b2, s1, p1, p2

Cold(who, deaths) ==
  [calls |-> who, launches |-> 2, warm |-> FALSE, building |-> None, faults |-> deaths]
Warm(who, build, deaths) ==
  [calls |-> who, launches |-> 0, warm |-> TRUE, building |-> build, faults |-> deaths]

\* Two starts, or a start and a stop, with a death anywhere and a second service
\* after it; two builds for one place in the queue of a service that is up; a
\* build, a stop and a death that meet a build under way.
Races == {Cold({b1, b2}, 1), Cold({b1, s1}, 1),
          Warm({b1, b2}, None, 0), Warm({b1, b2, s1}, b1, 1)}
=============================================================================
