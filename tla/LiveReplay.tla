----------------------------- MODULE LiveReplay ----------------------------
(***************************************************************************)
(* A live recording and the later transform of its raw rows: consume_live  *)
(* validates with a bounded validator, and transform_sources reads the     *)
(* annotated rows again with an unbounded one.  Both cut their own blocks. *)
(* The transform sees the same rows in the same order, so one action takes *)
(* a row through both.                                                     *)
(***************************************************************************)
EXTENDS Validator

CONSTANTS
    Ids,        \* processes, as numbers: rows on file are sorted by them
    Limits,     \* MAX_LIVE_IDENTITIES, with room for all or for some
    Components, \* CPU counters: {"user", "system"}
    Counters,   \* bound: counter values
    Steps,      \* bound: time from one row to the next; 0 is a clock that stands still
    MaxRows     \* bound: rows of a run

\* A block is no older than the grace: LIVE_STATE_GRACE_NS and MAX_BLOCK_AGE_NS are both 30 s.
ASSUME LiveReplayAssumption ==
    /\ Ids \subseteq Nat /\ IsFiniteSet(Ids) /\ IsFiniteSet(Components)
    /\ Limits \subseteq Nat /\ Counters \subseteq Nat /\ Steps \subseteq Nat
    /\ BlockAge <= Grace

VARIABLES
    live, replay,           \* the two validators
    liveBlock, replayBlock, \* the two blocks under construction
    row,                    \* the last row as the live validator left it
    replayed,               \* and as replay left it
    cuts,                   \* which of the two began a block with it
    seen,                   \* history: the last counters of every process
    failed                  \* consume_live met a row it does not accept

validators == <<live, replay>>
blocks == <<liveBlock, replayBlock>>
vars == <<validators, blocks, row, replayed, cuts, seen, failed>>

NoRow == [seq |-> Never, stamp |-> Never, processes |-> <<>>, quality |-> {}]

TypeOK ==
    /\ \A v \in {live, replay} :
          /\ DOMAIN v.previous \subseteq Ids
          /\ \A i \in DOMAIN v.previous : v.previous[i].stamp \in 1 .. v.stamp
    /\ Bounded(live) /\ ~Bounded(replay)
    /\ \A b \in {liveBlock, replayBlock} : Len(b) <= BlockRows
    /\ cuts \subseteq {"live", "replay"} /\ failed \in BOOLEAN

Init ==
    /\ live \in {NewValidator(limit) : limit \in Limits} /\ replay = NewValidator(Unlimited)
    /\ liveBlock = <<>> /\ replayBlock = <<>>
    /\ row = NoRow /\ replayed = NoRow /\ cuts = {}
    /\ seen = Nothing /\ failed = FALSE

\* The processes of a scan, in any order
Scans == UNION {[1 .. n -> [id : Ids, cpu : [Components -> Counters]]] : n \in 0 .. Cardinality(Ids)}
Distinct(ps) == \A i, j \in DOMAIN ps : ps[i].id = ps[j].id => i = j

Push(block, cut, r) == IF cut THEN <<r>> ELSE Append(block, r)

\* consume_live on one row, and the transform on what it wrote
Row(step, ps) ==
    LET new == [seq |-> live.seq + 1, stamp |-> live.stamp + step, processes |-> ps, quality |-> {}]
        l == Validated(live, new)
        r == Validated(replay, Sorted(l.row))
        liveCut == ShouldCut(liveBlock, l.row) \/ l.boundary
        replayCut == ShouldCut(replayBlock, r.row) \/ r.boundary
    IN  /\ Accepts(live, new)
        /\ live' = l.v /\ replay' = r.v /\ row' = Sorted(l.row) /\ replayed' = r.row
        /\ liveBlock' = Push(liveBlock, liveCut, Sorted(l.row))
        /\ replayBlock' = Push(replayBlock, replayCut, r.row)
        /\ cuts' = (IF liveCut THEN {"live"} ELSE {}) \cup (IF replayCut THEN {"replay"} ELSE {})
        /\ seen' = [i \in DOMAIN seen \cup {ps[k].id : k \in DOMAIN ps} |->
                      IF \E k \in DOMAIN ps : ps[k].id = i
                      THEN (CHOOSE p \in {ps[k] : k \in DOMAIN ps} : p.id = i).cpu
                      ELSE seen[i]]
        /\ UNCHANGED failed

\* The scan clock stood still: the recording fails
Refuse ==
    /\ 0 \in Steps /\ live.seq > 0
    /\ ~Accepts(live, [NoRow EXCEPT !.seq = live.seq + 1, !.stamp = live.stamp])
    /\ failed' = TRUE
    /\ UNCHANGED <<validators, blocks, row, replayed, cuts, seen>>

Next ==
    /\ ~failed /\ live.seq < MaxRows
    /\ \/ \E step \in Steps \ {0}, ps \in {s \in Scans : Distinct(s)} : Row(step, ps)
       \/ Refuse

Spec == Init /\ [][Next]_vars

----------------------------------------------------------------------------
\* Replay neither adds a quality event to a recorded row nor misses one: an old counter that
\* the live validator had forgotten does not become a regression in replay.
ReplayAddsNothing == replayed = row

HasRoom == live.limit >= Cardinality(Ids)

\* Neither recorder ever hands the encoder a block that it refuses, which would fail the
\* recording or the import half way: no counter goes down unannounced, and, as long as there
\* is room for every process, no total goes down within a block at all.
BlocksEncodable ==
    \A b \in {liveBlock, replayBlock} : Encodable(b) /\ (HasRoom => TotalsRise(b))

\* The bounded state of the live recorder never hides a counter that goes down inside a block
\* (comment at pipeline.rs:248).
NoHiddenDrop == TotalsRise(liveBlock)

\* Whenever a counter is lower than it was when the process was last seen, however long ago,
\* the row says that the rate is not available.
DropReported ==
    [][\A k \in DOMAIN row'.processes :
          LET p == row'.processes[k] IN
          p.id \in DOMAIN seen /\ (\E c \in Components : p.cpu[c] < seen[p.id][c])
          => Cuts(row', p.id)]_row

\* The live validator holds at most its limit of processes, and none whose last row is older than
\* the grace and one check.
LiveStateBounded ==
    /\ Cardinality(DOMAIN live.previous) <= live.limit
    /\ \A i \in DOMAIN live.previous : live.stamp - live.previous[i].stamp < Grace + CheckEvery

\* A block covers less than BlockAge, so a crash loses at most that much.
BlocksYoung ==
    \A b \in {liveBlock, replayBlock} :
        \A i \in DOMAIN b : b[i].stamp - Head(b).stamp < BlockAge

\* The transform of a raw recording cuts the blocks the live recorder cut, as long as there was
\* room for every process.
SameCuts == HasRoom => liveBlock = replayBlock /\ (cuts = {} \/ cuts = {"live", "replay"})
=============================================================================
