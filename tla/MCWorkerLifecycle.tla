------------------------ MODULE MCWorkerLifecycle ------------------------
(* WorkerLifecycle on small instances. *)
EXTENDS WorkerLifecycle, TLC

CONSTANTS s1, s2, s3, j1, p1, p2

AllStates == StartLabels \cup WorkerLabels \cup StopLabels

\* start waits a second.  A worker keeps its lock for hours while it runs and
\* for up to two seconds after a failed attempt; all else is quick.
SlowStates == {"run", "backoff"}

ThreeStarters == {s1, s2, s3}
TwoStarters == {s1, s2}
OneStopper == {j1}
TwoPids == {p1, p2}
OnePid == {p1}
NoStopper == {}

Symmetry2 == Permutations(TwoStarters) \cup Permutations(TwoPids)
Symmetry3 == Permutations(ThreeStarters) \cup Permutations(TwoPids)
==========================================================================
