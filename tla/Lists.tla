-------------------------------- MODULE Lists -------------------------------
(***************************************************************************)
(* Lists of numbers as the sections of a block count them (wire.rs): the    *)
(* members of a set in order, a list as its first number and the steps from *)
(* one to the next, a list cut into stretches.                             *)
(***************************************************************************)
EXTENDS Integers, Sequences, SequencesExt

\* The members of S among 1 .. n, in order
ListIf(list, p, S) == IF p \in S THEN Append(list, p) ELSE list
Ascending(S, n) == FoldLeft(LAMBDA list, p : ListIf(list, p, S), <<>>, [p \in 1 .. n |-> p])

Differences(s) == [i \in 1 .. Len(s) - 1 |-> s[i + 1] - s[i]]

\* first, and what it is after each step
Further(sums, step) == Append(sums, Last(sums) + step)
Sums(first, steps) == FoldLeft(LAMBDA sums, step : Further(sums, step), <<first>>, steps)

\* The stretches of 1 .. n that begin at the members of S
Stretches(S, n) ==
    LET starts == Ascending(S, n)
    IN  [r \in DOMAIN starts |->
         [start |-> starts[r], length |-> (IF r = Len(starts) THEN n + 1 ELSE starts[r + 1]) - starts[r]]]

\* Of stretches with these starts, the one i lies in
Part(starts, i) ==
    CHOOSE r \in DOMAIN starts : starts[r] <= i /\ (r = Len(starts) \/ i < starts[r + 1])

\* The longest stretches of one value
Runs(s) ==
    LET parts == Stretches({i \in DOMAIN s : i = 1 \/ s[i] # s[i - 1]}, Len(s))
    IN  [r \in DOMAIN parts |-> [q |-> s[parts[r].start], start |-> parts[r].start, length |-> parts[r].length]]
Lengths(runs) == [r \in DOMAIN runs |-> runs[r].length]
=============================================================================
