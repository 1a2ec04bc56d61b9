------------------------------ MODULE BlockRows ------------------------------
(***************************************************************************)
(* Blocks of observations as they come to the encoder of wire.rs: sequence *)
(* numbers and scan clocks rise, and so does the total of a process, which *)
(* may be missing from a row, change its name or memory, or have its       *)
(* continuity denied.  What the encoder writes of each block is decoded,   *)
(* and compared with it.                                                   *)
(***************************************************************************)
EXTENDS TemporalTrack, MemoryColumns

CONSTANTS
    Identities,     \* identities, ordered as numbers
    Timebases,      \* of the machine that recorded
    Unit,           \* bytes of a memory unit
    Following,      \* bound: topic -> the rows that can follow, as differences from the row before
    Depth           \* bound: topic -> the rows of a block

\* The processes of a row stand in the order of their identities; no total goes down, both clocks go up.
\* For every cap there is a power of two above it.
ASSUME BlockRowsAssumption ==
    /\ Identities \subseteq Int /\ Unit \in Nat \ {0}
    /\ \A timebase \in Timebases :
          /\ timebase.numer \in Nat \ {0} /\ timebase.denom \in Nat \ {0}
          /\ Cap("adaptive", timebase) <= MaxPower
    /\ \A t \in DOMAIN Following : \A choice \in Following[t] :
          LET moves == choice.moves
          IN  /\ choice.step \in Nat \ {0} /\ choice.span \in Nat \ {0}
              /\ moves \in Seq(ToSet(moves))
              /\ \A i, j \in DOMAIN moves : i < j => moves[i].id < moves[j].id
              /\ \A m \in ToSet(moves) : /\ m.id \in Identities /\ m.rise \in Nat
                                         /\ DOMAIN m.memory \subseteq ToSet(Columns)
                                         /\ m.memory \in [DOMAIN m.memory -> Nat]

VARIABLES topic, block, totals
blockVars == <<topic, block, totals>>

BlockInit == topic \in DOMAIN Following /\ block = <<>> /\ totals = [id \in Identities |-> 0]

RiseOf(moves, id) ==
    IF \E m \in ToSet(moves) : m.id = id THEN (CHOOSE m \in ToSet(moves) : m.id = id).rise ELSE 0

Extend(choice) ==
    LET last == IF block = <<>> THEN [seq |-> 0, time |-> 0] ELSE Last(block)
        moves == choice.moves
    IN  /\ totals' = [id \in Identities |-> totals[id] + RiseOf(moves, id)]
        /\ \A id \in Identities : totals[id] + RiseOf(moves, id) <= Top
        /\ block' = Append(block,
              [seq |-> last.seq + choice.step, time |-> last.time + choice.span, boundary |-> choice.boundary,
               processes |-> [i \in DOMAIN moves |->
                  [id |-> moves[i].id, total |-> totals'[moves[i].id], name |-> moves[i].name, memory |-> moves[i].memory]]])
        /\ UNCHANGED topic

BlockNext == \E choice \in Following[topic] : Len(block) < Depth[topic] /\ Extend(choice)

BlockSpec == BlockInit /\ [][BlockNext]_blockVars

----------------------------------------------------------------------------
Process(r, id) == {p \in ToSet(block[r].processes) : p.id = id}

\* The samples of a process, in the order of the rows
Samples(id) ==
    LET held == Ascending({r \in DOMAIN block : Process(r, id) # {}}, Len(block))
    IN  [i \in DOMAIN held |->
         LET p == CHOOSE p \in Process(held[i], id) : TRUE
         IN  [row |-> held[i], time |-> block[held[i]].time, total |-> p.total, name |-> p.name]]

Totals(samples) == [i \in DOMAIN samples |-> samples[i].total]
RowsOf(samples) == [i \in DOMAIN samples |-> samples[i].row]
Rise(samples, i) == samples[i].total - samples[i - 1].total

\* May an interval of the process end in row r that began in the row before?
Continues(id, r) == r > 1 /\ block[r].seq = block[r - 1].seq + 1 /\ id \notin block[r].boundary

\* encode_csh2 and decode_csh2, for the process of these samples
StoredTrack(samples, profile, cap) ==
    EncodeTrack(RowsOf(samples), Totals(samples),
                [i \in 1 .. Len(samples) - 1 |-> IntervalQuantum(profile, Rise(samples, i + 1), cap)])

\* The rows with processes are the axis of CSH1.
Axis == Ascending({r \in DOMAIN block : block[r].processes # <<>>}, Len(block))
AxisOf(samples) == [i \in DOMAIN samples |-> CHOOSE a \in DOMAIN Axis : Axis[a] = samples[i].row]

\* Is sample i of a track one row after the sample before it, without interruption?
Adjacent(id, decoded, i) ==
    i > 1 /\ decoded.rows[i] = decoded.rows[i - 1] + 1 /\ Continues(id, decoded.rows[i])

\* The interval a decoded row has for the process, from the row before
Interval(id, decoded, i) ==
    IF Adjacent(id, decoded, i)
    THEN {[delta |-> decoded.values[i] - decoded.values[i - 1], error |-> decoded.bounds[i] + decoded.bounds[i - 1]]}
    ELSE {}

\* The values of a decoded track are those of the samples, rounded down by no more than their bounds.
Close(decoded, samples) ==
    /\ decoded.rows = RowsOf(samples)
    /\ \A i \in DOMAIN samples : samples[i].total - decoded.values[i] \in 0 .. decoded.bounds[i]
    /\ decoded.bounds[1] = 0 /\ Last(decoded.bounds) = 0

\* The bound is less than an eighth of what the process used since the sample before, and until the next.
Eighth(decoded, samples) ==
    \A i \in 2 .. Len(samples) :
       8 * Larger(decoded.bounds[i - 1], decoded.bounds[i]) <= Rise(samples, i)

\* The true rise is as close to that of the interval as it says.
IntervalTrue(interval, rise) == rise - interval.delta \in -interval.error .. interval.error

LegacyTrue(id, samples, q) ==
    LET track == EncodeLegacy(AxisOf(samples), Totals(samples), q)
        bare == DecodeLegacy(track, q)
        decoded == [rows |-> [i \in DOMAIN bare.rows |-> Axis[bare.rows[i]]], values |-> bare.values, bounds |-> bare.bounds]
    IN  /\ AcceptsLegacy(track, bare, q)
        /\ Close(decoded, samples)
        /\ \A i \in DOMAIN samples : \A interval \in Interval(id, decoded, i) : IntervalTrue(interval, Rise(samples, i))

TrackTrue(id, samples, profile, cap) ==
    LET track == StoredTrack(samples, profile, cap)
        decoded == DecodeTrack(track)
    IN  /\ Accepts(track, decoded, profile, cap)
        /\ Close(decoded, samples)
        /\ profile = "adaptive" => Eighth(decoded, samples)
        /\ \A i \in DOMAIN samples : \A interval \in Interval(id, decoded, i) : IntervalTrue(interval, Rise(samples, i))

\* Whatever the rises of the counters, the gaps of the rows and the clock of the machine: the decoder
\* accepts what the encoder wrote, its totals are at most the bound it states below the true ones, the
\* first and the last of a block exact, and the bound of the adaptive profile is an eighth of the use.
CpuWithinBound ==
    topic = "cpu" =>
    \A id \in Identities, timebase \in Timebases :
       LET samples == Samples(id)
       IN  samples # <<>> =>
              /\ LegacyTrue(id, samples, Cap("legacy", timebase))
              /\ \A profile \in {"fixed", "adaptive"} : TrackTrue(id, samples, profile, Cap(profile, timebase))

----------------------------------------------------------------------------
\* The encoder cuts the samples of a process where the next row says nothing of it, or denies it.
Segments(id) ==
    LET samples == Samples(id)
        cut == {i \in DOMAIN samples : \/ i = 1
                                       \/ samples[i].row # samples[i - 1].row + 1
                                       \/ ~Continues(id, samples[i].row)}
        parts == Stretches(cut, Len(samples))
    IN  [r \in DOMAIN parts |-> [j \in 1 .. parts[r].length |-> samples[parts[r].start + j - 1]]]

\* The decoder expects a track for each longest stretch of rows that hold the process without interruption.
Spans(id) ==
    LET held(r) == r \in DOMAIN block /\ Process(r, id) # {}
        joined(r) == held(r) /\ held(r - 1) /\ Continues(id, r)
    IN  {span \in [first : DOMAIN block, last : DOMAIN block] :
            /\ span.first <= span.last /\ held(span.first)
            /\ \A r \in span.first + 1 .. span.last : joined(r)
            /\ ~joined(span.first) /\ ~joined(span.last + 1)}

\* No row between the two ends of an interval lacks the process or denies its continuity.
CoveredInterval(id, start, end) ==
    \A r \in start + 1 .. end : Process(r, id) # {} /\ Continues(id, r)

\* From one checkpoint to the next.  Both ends are rounded down, so only the larger bound counts.
CheckpointInterval(decoded, i) ==
    [delta |-> decoded.values[i] - decoded.values[i - 1], error |-> Larger(decoded.bounds[i], decoded.bounds[i - 1])]

SegmentTrue(id, samples, profile, cap) ==
    LET kept == Select(samples, cap, profile)
        those == [k \in DOMAIN kept |-> samples[kept[k]]]
        track == EncodeTemporal(samples, cap, profile)
        decoded == DecodeTrack(track)
        desired(i) == Desired(samples, i, cap, profile)
        elapsed(k, i) == samples[i].time - samples[kept[k]].time
    IN  /\ AcceptsTemporal(track, decoded, cap, [first |-> Head(samples).row, last |-> Last(samples).row],
                           [r \in DOMAIN block |-> block[r].time])
        /\ Close(decoded, those) /\ Eighth(decoded, those)
        /\ \A k \in 2 .. Len(kept) :
              /\ CoveredInterval(id, decoded.rows[k - 1], decoded.rows[k])
              /\ IntervalTrue(CheckpointInterval(decoded, k), Rise(those, k))
        /\ \A k \in 1 .. Len(kept) - 1 :
              LET left == kept[k] + 1 .. kept[k + 1] - 1
              IN  /\ \A j \in left : /\ \A i \in kept[k] + 1 .. j : elapsed(k, j) < desired(i)
                                     /\ samples[j].name = samples[kept[k]].name
                  /\ left # {} /\ (\A i \in left : desired(kept[k + 1]) < desired(i))
                        => elapsed(k, kept[k + 1]) <= desired(kept[k + 1])

\* The decoder finds a track for every stretch it expects and accepts it, within its bounds.  No sample
\* is left out once the deadline of any sample since the last kept one is over, nor a change of name;
\* and a process that gets busier is sampled before its new deadline, even if it must be the sample before.
TemporalTrue ==
    topic = "temporal" =>
    \A id \in Identities :
       /\ {[first |-> Head(s).row, last |-> Last(s).row] : s \in ToSet(Segments(id))} = Spans(id)
       /\ \A timebase \in Timebases, profile \in TemporalProfiles, segment \in ToSet(Segments(id)) :
             SegmentTrue(id, segment, profile, Cap(profile, timebase))

----------------------------------------------------------------------------
\* The rows as far as a section of these columns says: every value of them, rounded down to the unit
Rounded(memory, chosen, unit) == [c \in DOMAIN memory \cap chosen |-> (memory[c] \div unit) * unit]
WithMemory(process, memory) == [process EXCEPT !.memory = memory]
KeptRow(row, chosen, unit) == [p \in DOMAIN row |-> WithMemory(row[p], Rounded(row[p].memory, chosen, unit))]
Kept(rows, chosen, unit) == [r \in DOMAIN rows |-> KeptRow(rows[r], chosen, unit)]

\* The decoder takes the memory section of every block, whichever columns are chosen, and each value
\* in them comes back, rounded down to the unit; what had none has none.
MemoryExact ==
    topic = "memory" =>
    \A chosen \in SUBSET ToSet(Columns) :
       LET source == [r \in DOMAIN block |-> block[r].processes]
       IN  DecodeMemory(Kept(source, {}, Unit), EncodeMemory(source, chosen, Unit, Identities), Unit, Identities)
             = [rows |-> Kept(source, chosen, Unit), ok |-> TRUE]
=============================================================================
