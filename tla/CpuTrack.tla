------------------------------- MODULE CpuTrack ------------------------------
(***************************************************************************)
(* The CPU sections of a block (CSH1 and CSH2 of wire.rs) as functions: the *)
(* totals of one process become a track, its totals in multiples of a      *)
(* quantum beside a few exact ones, and the decoder makes values and error *)
(* bounds of the track again, or refuses it.  A sample is a position among *)
(* the rows and a total; a process has one track per block.                *)
(***************************************************************************)
EXTENDS Lists

Top == 1000000000       \* u64::MAX, no total exceeds it
Larger(m, n) == IF m > n THEN m ELSE n
Smaller(m, n) == IF m < n THEN m ELSE n
CeilDiv(m, n) == (m + n - 1) \div n
PowerList == <<1, 2, 4, 8, 16, 32, 64, 128, 256, 512, 1024, 2048, 4096, 8192, 16384, 32768, 65536, 131072, 262144,
               524288, 1048576, 2097152, 4194304, 8388608, 16777216, 33554432, 67108864, 134217728, 268435456, 536870912>>
Powers == ToSet(PowerList)
MaxPower == 536870912    \* bound: in the code 2 ^ 63
PowerBelow(n) == CHOOSE p \in Powers : p <= n /\ n < 2 * p
PowerAbove(n) == CHOOSE p \in Powers : n <= p /\ p < 2 * n

\* Ticks of the machine's clock in a number of nanoseconds, at least one
Quantum(ns, timebase) == Larger((ns * timebase.denom) \div timebase.numer, 1)
Cap(profile, timebase) == Quantum(IF profile = "fixed" THEN 100000 ELSE 1000000, timebase)

\* The power of two next below an eighth of what was used, no more than the cap (which is no more than MaxPower)
AdaptiveQuantum(n, cap) ==
    IF n < 8 THEN 1
    ELSE Smaller(PowerBelow(Smaller(n \div 8, MaxPower)), cap)

IntervalQuantum(profile, delta, cap) ==
    IF profile = "adaptive" THEN AdaptiveQuantum(delta, cap)
    ELSE IF delta = 0 THEN 1 ELSE cap

Rises(s) == \A i \in 2 .. Len(s) : s[i - 1] <= s[i]

----------------------------------------------------------------------------
(* CSH2: a run of intervals of one quantum counts from its first total, and its last is exact. *)

\* Mutant: the end of a run is absolute, as in version 1.
EncodeRunAbsolute(totals, run) ==
    LET anchor == totals[run.start]
    IN  [q |-> run.q, length |-> run.length,
         inner |-> [i \in 1 .. run.length - 1 |-> (totals[run.start + i] - anchor) \div run.q],
         end |-> totals[run.start + run.length]]

EncodeRun(totals, run) ==
    LET anchor == totals[run.start]
    IN  [q |-> run.q, length |-> run.length,
         inner |-> [i \in 1 .. run.length - 1 |-> (totals[run.start + i] - anchor) \div run.q],
         end |-> totals[run.start + run.length] - anchor]

EncodeTrack(rows, totals, quanta) ==
    LET runs == Runs(quanta)
    IN  [row |-> rows[1], steps |-> Differences(rows), first |-> totals[1],
         runs |-> [r \in DOMAIN runs |-> EncodeRun(totals, runs[r])]]

\* Mutant: the values inside a run count from zero, not from its first.
InsideFromZero(anchor, run, j) == ((anchor \div run.q) + run.inner[j]) * run.q

\* The j-th value inside a run
Inside(anchor, run, j) == anchor + run.inner[j] * run.q

\* A run starts with an exact value and ends with that the next one starts with.
Starts(track) == Sums(1, Lengths(track.runs))
Exact(track) == Sums(track.first, [r \in DOMAIN track.runs |-> track.runs[r].end])

\* Value and bound of sample i, in run r or the last of all
Value(track, starts, exact, i, r) ==
    IF i = starts[r] THEN exact[r] ELSE Inside(exact[r], track.runs[r], i - starts[r])
Bound(track, starts, i, r) == IF i = starts[r] THEN 0 ELSE track.runs[r].q - 1

\* What the decoder makes of the runs, and the quantum of each interval
DecodeTrack(track) ==
    LET starts == Starts(track)
        exact == Exact(track)
        count == starts[Len(starts)]
    IN  [rows |-> Sums(track.row, track.steps),
         values |-> [i \in 1 .. count |-> Value(track, starts, exact, i, Part(starts, i))],
         bounds |-> [i \in 1 .. count |-> Bound(track, starts, i, Part(starts, i))],
         quanta |-> [i \in 1 .. count - 1 |-> track.runs[Part(starts, i)].q]]

\* By how much a counter can have risen over an interval stored with this quantum
AllowedDelta(profile, q, cap) ==
    IF cap = 1 THEN [min |-> 0, max |-> Top]
    ELSE IF profile = "fixed"
    THEN IF q = 1 THEN [min |-> 0, max |-> 0] ELSE [min |-> 1, max |-> Top]
    ELSE IF q = 1 THEN [min |-> 0, max |-> 15]
    ELSE IF q = cap THEN [min |-> 8 * PowerAbove(cap), max |-> Top]
    ELSE [min |-> 8 * q, max |-> 16 * q - 1]

\* The least and the most a counter can have come to with the next value of a run
Reach(reach, range, value, bound) ==
    [min |-> Larger(reach.min + range.min, value), max |-> Smaller(reach.max + range.max, Smaller(value + bound, Top)),
     ok |-> reach.ok /\ reach.min <= reach.max]

\* Is there a counter that fits the values, within their bounds and the allowed rises of a run?
Feasible(decoded, ranges, from, to) ==
    LET reach[i \in from .. to] ==
            IF i = from THEN [min |-> decoded.values[from], max |-> decoded.values[from], ok |-> TRUE]
            ELSE Reach(reach[i - 1], ranges[i - 1], decoded.values[i], decoded.bounds[i])
    IN  reach[to].ok /\ reach[to].min <= reach[to].max

RunsFeasible(decoded, ranges) ==
    \A run \in ToSet(Runs(decoded.quanta)) : Feasible(decoded, ranges, run.start, run.start + run.length)

\* What the decoders of CSH2 bodies ask of the runs of a track
RunsAccepted(track, decoded, cap) ==
    /\ \A r \in DOMAIN track.runs :
          /\ track.runs[r].length > 0 /\ track.runs[r].q \in 1 .. cap
          /\ r > 1 => track.runs[r].q # track.runs[r - 1].q
    /\ \A i \in DOMAIN track.steps : track.steps[i] > 0
    /\ Rises(decoded.values)

Accepts(track, decoded, profile, cap) ==
    /\ RunsAccepted(track, decoded, cap)
    /\ \A i \in DOMAIN decoded.quanta :
          LET q == decoded.quanta[i]
          IN  IF profile = "fixed" THEN q \in {1, cap}
              ELSE q \in Powers \cup {cap} /\ (q > 1 => decoded.values[i] < decoded.values[i + 1])
    /\ RunsFeasible(decoded, [i \in DOMAIN decoded.quanta |-> AllowedDelta(profile, decoded.quanta[i], cap)])

----------------------------------------------------------------------------
(* CSH1: every total in whole quanta, and the remainders of the first and the last. *)

\* Stretches of the axis without a gap, each after a gap
Joined(positions) == Stretches({i \in DOMAIN positions : i = 1 \/ positions[i] # positions[i - 1] + 1}, Len(positions))
Coverage(positions) ==
    LET parts == Joined(positions)
        end(r) == positions[parts[r].start] + parts[r].length
    IN  [r \in DOMAIN parts |->
         [gap |-> positions[parts[r].start] - (IF r = 1 THEN 1 ELSE end(r - 1)), length |-> parts[r].length]]

\* A position counts back from the end of its stretch.
Covered(runs) ==
    LET starts == Sums(1, Lengths(runs))
        ends == Sums(1, [r \in DOMAIN runs |-> runs[r].gap + runs[r].length])
    IN  [i \in 1 .. starts[Len(starts)] - 1 |-> ends[Part(starts, i) + 1] - (starts[Part(starts, i) + 1] - i)]

Changes(quotients) ==
    LET runs == Runs(quotients)
    IN  [c \in 1 .. Len(runs) - 1 |-> [step |-> runs[c].length, delta |-> runs[c + 1].q - runs[c].q]]

Quotients(baseline, changes, count) ==
    LET starts == Sums(1, [c \in DOMAIN changes |-> changes[c].step])
        levels == Sums(baseline, [c \in DOMAIN changes |-> changes[c].delta])
    IN  [i \in 1 .. count |-> levels[Part(starts, i)]]

EncodeLegacy(positions, totals, q) ==
    LET quotients == [i \in DOMAIN totals |-> totals[i] \div q]
    IN  [count |-> Len(totals), coverage |-> Coverage(positions),
         baseline |-> quotients[1], changes |-> Changes(quotients),
         first |-> totals[1] % q, last |-> totals[Len(totals)] % q]

\* Between the first and the last, the larger of a value and the one before: no quotient falls.
DecodeLegacy(track, q) ==
    LET quotients == Quotients(track.baseline, track.changes, track.count)
        first == quotients[1] * q + track.first
    IN  [rows |-> Covered(track.coverage),
         values |-> [i \in 1 .. track.count |->
                     IF i = 1 THEN first
                     ELSE IF i = track.count THEN quotients[i] * q + track.last
                     ELSE Larger(quotients[i] * q, first)],
         bounds |-> [i \in 1 .. track.count |-> IF i \in {1, track.count} THEN 0 ELSE q - 1]]

AcceptsLegacy(track, decoded, q) ==
    /\ \A r \in DOMAIN track.coverage : track.coverage[r].length > 0 /\ (r > 1 => track.coverage[r].gap > 0)
    /\ \A c \in DOMAIN track.changes : track.changes[c].step > 0 /\ track.changes[c].delta > 0
    /\ Len(decoded.rows) = track.count
    /\ Rises(decoded.values)
=============================================================================
