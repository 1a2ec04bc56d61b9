----------------------------- MODULE DurableLog -----------------------------
(***************************************************************************)
(* What an archive promises to the recorder that feeds it, without files:  *)
(* a log that only grows at its end, of which a prefix has been promised.  *)
(* The log may be cut, never below the promise.  ArchiveStore implements   *)
(* this specification and says besides which steps may cut: a power loss.  *)
(***************************************************************************)
EXTENDS Naturals, Sequences

CONSTANT Value                          \* what the log holds

VARIABLES log,                          \* the values a reopened log returns
          promised                      \* length of the acknowledged prefix

vars == <<log, promised>>

TypeOK ==
  /\ log \in Seq(Value)
  /\ promised \in Nat

Init ==
  /\ log = <<>>
  /\ promised = 0

\* A value becomes visible to a later reopen.  A value enters at most once and
\* later than every value already there.
Accept(v) ==
  /\ \A i \in 1..Len(log) : log[i] < v
  /\ log' = Append(log, v)
  /\ UNCHANGED promised

\* The caller is told that everything up to n is safe.
Promise(n) ==
  /\ n \in (promised + 1)..Len(log)
  /\ promised' = n
  /\ UNCHANGED log

\* A suffix that was never promised is lost.  When that may be is for the
\* implementation to say: ArchiveStore!LostOnlyInPowerLoss.
Lose(n) ==
  /\ n \in promised..Len(log)
  /\ log' = SubSeq(log, 1, n)
  /\ UNCHANGED promised

Next ==
  \/ \E v \in Value : Accept(v)
  \/ \E n \in 0..Len(log) : Promise(n)
  \/ \E n \in 0..Len(log) : Lose(n)

Spec == Init /\ [][Next]_vars
=============================================================================
