----------------------------- MODULE TemporalTrack ---------------------------
(***************************************************************************)
(* The CPU sections of the two temporal profiles (wire.rs): of the samples *)
(* of a process without interruption only some are kept, the fewer the less *)
(* it uses the processor, and the decoder can tell how the counter rose    *)
(* from one kept sample to the next.  Times are in milliseconds.           *)
(***************************************************************************)
EXTENDS CpuTrack

Shortest == 100
Longest == 5000
TemporalProfiles == {"inverse", "log"}

TemporalQuantum(delta, elapsed, cap) == AdaptiveQuantum((delta * 100) \div elapsed, cap)
StorageQuantum(delta, elapsed, cap) == TemporalQuantum(delta, Larger(elapsed, 100), cap)
Exponent(power) == CHOOSE k \in 0 .. 29 : PowerList[k + 1] = power

\* For how long a process this busy may go without a sample.  (The code counts nanoseconds, so it
\* rounds the logarithmic one up less.)
Deadline(q, busy, profile) ==
    IF profile = "inverse" THEN Smaller(Shortest * Larger(busy \div q, 1), Longest)
    ELSE IF busy = 1 \/ q >= busy THEN Shortest
    ELSE Smaller(Shortest + CeilDiv((Longest - Shortest) * (Exponent(busy) - Exponent(q)), Exponent(busy)), Longest)

Desired(samples, i, cap, profile) ==
    Deadline(TemporalQuantum(samples[i].total - samples[i - 1].total, samples[i].time - samples[i - 1].time, cap),
             AdaptiveQuantum(cap, cap), profile)

Keep(kept, i) == IF Last(kept) = i THEN kept ELSE Append(kept, i)

\* Mutant: nothing is kept after the fact.
SelectStepForward(samples, state, i, desired) ==
    LET pending == Smaller(desired, state.pending)
    IN  IF samples[i].time - samples[state.anchor].time >= pending \/ samples[i].name # samples[i - 1].name
        THEN [kept |-> Keep(state.kept, i), anchor |-> i, pending |-> Longest]
        ELSE [kept |-> state.kept, anchor |-> state.anchor, pending |-> pending]

\* The next sample; pending is the shortest deadline since the anchor.  A sample that changes the
\* metadata of the process is kept: its name stands for name and parent id together.
SelectStep(samples, state, i, desired) ==
    LET late == /\ desired < state.pending /\ i > state.anchor + 1
                /\ samples[i].time - samples[state.anchor].time > desired
        anchor == IF late THEN i - 1 ELSE state.anchor
        pending == Smaller(desired, IF late THEN Longest ELSE state.pending)
        kept == IF late THEN Keep(state.kept, i - 1) ELSE state.kept
    IN  IF samples[i].time - samples[anchor].time >= pending \/ samples[i].name # samples[i - 1].name
        THEN [kept |-> Keep(kept, i), anchor |-> i, pending |-> Longest]
        ELSE [kept |-> kept, anchor |-> anchor, pending |-> pending]

Select(samples, cap, profile) ==
    IF Len(samples) <= 2 THEN [i \in DOMAIN samples |-> i]
    ELSE Keep(FoldLeft(LAMBDA state, i : SelectStep(samples, state, i, Desired(samples, i, cap, profile)),
                       [kept |-> <<1>>, anchor |-> 1, pending |-> Longest],
                       [i \in 1 .. Len(samples) - 1 |-> i + 1]).kept,
              Len(samples))

EncodeTemporal(samples, cap, profile) ==
    LET kept == Select(samples, cap, profile)
        at(i) == samples[kept[i]]
    IN  EncodeTrack([i \in DOMAIN kept |-> at(i).row], [i \in DOMAIN kept |-> at(i).total],
                    [i \in 1 .. Len(kept) - 1 |->
                     StorageQuantum(at(i + 1).total - at(i).total, at(i + 1).time - at(i).time, cap)])

\* Mutant: the range of a quantum is that of 100 ms, whatever the duration.
TemporalDeltaUnscaled(q, cap, duration) == AllowedDelta("adaptive", q, cap)

TemporalDelta(q, cap, duration) ==
    LET allowed == AllowedDelta("adaptive", q, cap)
        scaled(n) == CeilDiv(n * Larger(duration, 100), 100)
    IN  [min |-> scaled(allowed.min), max |-> IF allowed.max = Top THEN Top ELSE scaled(allowed.max + 1) - 1]

\* The track of a span of rows, whose scans began at these times
AcceptsTemporal(track, decoded, cap, span, times) ==
    /\ decoded.rows[1] = span.first /\ Last(decoded.rows) = span.last
    /\ RunsAccepted(track, decoded, cap)
    /\ \A i \in DOMAIN decoded.quanta : decoded.quanta[i] \in Powers \cup {cap}
    /\ RunsFeasible(decoded,
          [i \in DOMAIN decoded.quanta |->
           TemporalDelta(decoded.quanta[i], cap, times[decoded.rows[i + 1]] - times[decoded.rows[i]])])
=============================================================================
