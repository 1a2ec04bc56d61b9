----------------------------- MODULE Validator -----------------------------
(***************************************************************************)
(* What the recorder does with a row before it is encoded (Validator,      *)
(* BlockBuilder of pipeline.rs; validate_rows of wire.rs).                 *)
(*                                                                         *)
(* A validator remembers the CPU counters each process had last, so that a *)
(* counter that goes down is reported in the row and starts a new block.   *)
(* The live validator is bounded: it forgets a process after Grace and     *)
(* tracks at most `limit` of them, and says so in the row.  Replay of      *)
(* recorded rows is unbounded and follows what the row says.  This module  *)
(* has no state of its own: LiveReplay and Transform use it.           *)
(***************************************************************************)
EXTENDS Integers, Sequences, FiniteSets, SequencesExt

CONSTANTS
    Grace,      \* LIVE_STATE_GRACE_NS
    CheckEvery, \* how often the live validator looks for forgotten processes
    BlockAge,   \* MAX_BLOCK_AGE_NS
    BlockRows,  \* --block-rows
    MaxPoints   \* MAX_POINTS

ASSUME ValidatorAssumption ==
    {Grace, CheckEvery, BlockAge, BlockRows, MaxPoints} \subseteq Nat \ {0}

Nothing == [i \in {} |-> 0]
Never == 0

\* A row has a sequence number, a stamp, the processes in the order of the scan, each with
\* its counters (user, system), and the quality events.
\* A validator tracks at most `limit` processes (MAX_LIVE_IDENTITIES), or is Unlimited.
Unlimited == -1
NewValidator(limit) ==
    [previous |-> Nothing, seq |-> Never, stamp |-> Never, checked |-> Never, limit |-> limit]
Bounded(v) == v.limit # Unlimited

With(f, k, v) == [i \in DOMAIN f \cup {k} |-> IF i = k THEN v ELSE f[i]]
Keep(f, S) == [i \in DOMAIN f \cap S |-> f[i]]

\* The order of rows on file, as read from a file and in a block: by identity
Sorted(row) ==
    LET ps == ToSet(row.processes)
    IN  [row EXCEPT !.processes =
           [k \in 1 .. Cardinality(ps) |-> CHOOSE p \in ps : Cardinality({q \in ps : q.id < p.id}) = k - 1]]

\* continuity_unknown_identity: the processes whose continuity the row itself denies
Resets(quality) == {e.id : e \in {q \in quality : q.kind = "unknown"}}

IsRegression(e) == e.kind = "regression"

RegressionEvent(c, p, before, row) ==
    [kind |-> "regression", component |-> c, id |-> p.id, before |-> before,
     after |-> [cpu |-> p.cpu, seq |-> row.seq, stamp |-> row.stamp]]

UnknownEvent(reason, p, row) == [kind |-> "unknown", reason |-> reason, id |-> p.id, seq |-> row.seq]

\* retain, at most once per CheckEvery
Expire(v, row) ==
    IF Bounded(v) /\ (v.checked = Never \/ row.stamp - v.checked >= CheckEvery)
    THEN [v EXCEPT !.previous = Keep(@, {i \in DOMAIN @ : row.stamp - @[i].stamp <= Grace}),
                   !.checked = row.stamp]
    ELSE v

Forgotten(v, row, id) ==
    id \in DOMAIN v.previous /\ Bounded(v) /\ row.stamp - v.previous[id].stamp > Grace

Remembers(v, row, p) == p.id \in DOMAIN v.previous /\ ~Forgotten(v, row, p.id)

\* Mutant: one process more than the limit fits.
RoomOneMore(v, row, p) ==
    \/ ~Bounded(v) \/ Remembers(v, row, p)
    \/ Cardinality(DOMAIN v.previous \ {p.id}) <= v.limit

\* A forgotten state gives up its place before the limit is looked at.
Room(v, row, p) ==
    \/ ~Bounded(v) \/ Remembers(v, row, p)
    \/ Cardinality(DOMAIN v.previous \ {p.id}) < v.limit

\* Mutant: what is compared is the total of the counters.
LowerTotal(v, row, p) ==
    {c \in DOMAIN p.cpu :
        Remembers(v, row, p) /\ MapThenSumSet(LAMBDA d : p.cpu[d], DOMAIN p.cpu)
                                < MapThenSumSet(LAMBDA d : v.previous[p.id].cpu[d], DOMAIN p.cpu)}

\* The counters that went down
Lower(v, row, p) == {c \in DOMAIN p.cpu : Remembers(v, row, p) /\ p.cpu[c] < v.previous[p.id].cpu[c]}

\* Mutant: a process that was forgotten comes back in silence.
EventsNewOnly(v, row, p) ==
    IF Remembers(v, row, p)
    THEN {RegressionEvent(c, p, v.previous[p.id], row) : c \in Lower(v, row, p)}
    ELSE IF Bounded(v) /\ p.id \notin DOMAIN v.previous
    THEN {UnknownEvent(IF Room(v, row, p) THEN "new" ELSE "capacity", p, row)}
    ELSE {}

Events(v, row, p) ==
    IF Remembers(v, row, p)
    THEN {RegressionEvent(c, p, v.previous[p.id], row) : c \in Lower(v, row, p)}
    ELSE IF Bounded(v) THEN {UnknownEvent(IF Room(v, row, p) THEN "new" ELSE "capacity", p, row)}
    ELSE {}

\* Mutant: every new baseline begins a block.
BeginsBlockFresh(v, row, p) == Lower(v, row, p) # {} \/ (Bounded(v) /\ ~Remembers(v, row, p))

BeginsBlock(v, row, p) == Lower(v, row, p) # {} \/ ~Room(v, row, p)

\* One process of the row: compare with what is remembered, report, remember.
Observe(row, acc, p) ==
    LET v == acc.v
        state == [cpu |-> p.cpu, seq |-> row.seq, stamp |-> row.stamp]
    IN  [v |-> IF Room(v, row, p) THEN [v EXCEPT !.previous = With(@, p.id, state)] ELSE v,
         quality |-> acc.quality \cup Events(v, row, p),
         boundary |-> acc.boundary \/ BeginsBlock(v, row, p)]

\* Observation::validate and the global clocks
Accepts(v, row) ==
    /\ row.seq > v.seq /\ row.stamp > v.stamp
    /\ \A i, j \in DOMAIN row.processes : row.processes[i].id = row.processes[j].id => i = j

\* Validator::validate of an accepted row: the new state, the annotated row, and whether
\* the row must begin a block
Validated(v, row) ==
    LET fresh == Expire(v, row)
        start == [v |-> [fresh EXCEPT !.previous = Keep(@, DOMAIN @ \ Resets(row.quality))],
                  quality |-> row.quality,
                  boundary |-> \E e \in row.quality : IsRegression(e)]
        end == FoldLeft(LAMBDA acc, p : Observe(row, acc, p), start, row.processes)
    IN  [v |-> [end.v EXCEPT !.seq = row.seq, !.stamp = row.stamp],
         row |-> [row EXCEPT !.quality = end.quality],
         boundary |-> end.boundary]

----------------------------------------------------------------------------
\* A block under construction is its rows.
Points(rows) == FoldLeft(LAMBDA n, r : n + Len(r.processes), 0, rows)

\* Mutant: the age of a block is that of the rows it has, without the one to come.
ShouldCutLate(rows, row) ==
    /\ rows # <<>>
    /\ \/ Len(rows) >= BlockRows
       \/ Points(rows) + Len(row.processes) > MaxPoints
       \/ Last(rows).stamp - Head(rows).stamp >= BlockAge

\* BlockBuilder::should_cut, within one context
ShouldCut(rows, row) ==
    /\ rows # <<>>
    /\ \/ Len(rows) >= BlockRows
       \/ Points(rows) + Len(row.processes) > MaxPoints
       \/ row.stamp - Head(rows).stamp >= BlockAge

\* temporal_quality_boundary, for the events about one process
Cuts(row, id) == \E e \in row.quality : e.kind \in {"unknown", "regression"} /\ e.id = id

CpuIn(row, id) == {row.processes[k].cpu : k \in {k \in DOMAIN row.processes : row.processes[k].id = id}}

\* validate_rows: the encoder refuses a block in which a counter goes down with no event
\* of the process from the earlier row (exclusive) to the later one
Encodable(rows) ==
    \A i, j \in DOMAIN rows : i < j =>
        \A id \in {rows[j].processes[k].id : k \in DOMAIN rows[j].processes} :
            \/ \E k \in i + 1 .. j : Cuts(rows[k], id)
            \/ \A a \in CpuIn(rows[i], id), b \in CpuIn(rows[j], id) :
                  \A c \in DOMAIN a : a[c] <= b[c]

\* encode_csh2 takes differences of the totals in a track and refuses one that goes down, with
\* whatever event.
TotalsRise(rows) ==
    \A i, j \in DOMAIN rows : i < j =>
        \A p \in ToSet(rows[i].processes), q \in ToSet(rows[j].processes) :
            p.id = q.id => MapThenSumSet(LAMBDA c : p.cpu[c], DOMAIN p.cpu)
                           <= MapThenSumSet(LAMBDA c : q.cpu[c], DOMAIN q.cpu)
=============================================================================
