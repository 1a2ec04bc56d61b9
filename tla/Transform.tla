------------------------------ MODULE Transform ----------------------------
(***************************************************************************)
(* transform: source files become an archive, one after the other or, with *)
(* --workers, in two parallel passes (transform_sources_impl and           *)
(* run_bulk_transform of pipeline.rs, pipeline_bulk.rs).                   *)
(*                                                                         *)
(* Pass one summarises every source with an empty validator; folding the   *)
(* summaries in order gives the groups, a run of sources with one context  *)
(* each, and what a validator would remember where a group begins.  Pass   *)
(* two reads the groups again and encodes them, a batch at a time; blocks  *)
(* are committed in order.  Files may change while they are not looked at; *)
(* a capture ledger, or the summary of pass one, says what they must be.   *)
(***************************************************************************)
EXTENDS Validator

CONSTANTS
    N,          \* number of source files
    Bodies,     \* bound: what a row may hold (processes, quality)
    Contexts,   \* bound: the contexts of the files, each <<stream, header>>
    Upstreams,  \* bound: status of the run that recorded them, and whether there is a ledger
    MaxRows,    \* bound: rows in all files together
    Repeats,    \* bound: rows that may repeat the stamp before them; 0 for none
    Workers,    \* bound: --workers
    MaxSeeds,   \* MAX_BULK_SEED_ENTRIES
    MaxGroup,   \* MAX_GROUP_ENCODED_BYTES, in blocks
    MaxFaults   \* bound: failed calls and changed files

ASSUME TransformAssumption ==
    /\ N \in Nat \ {0} /\ {MaxRows, MaxSeeds, MaxGroup, MaxFaults} \subseteq Nat
    /\ Upstreams \subseteq {"none", "complete", "partial"} \X BOOLEAN
    /\ Workers \subseteq Nat \ {0} /\ Repeats \subseteq Nat
    /\ \A b \in Bodies : b.processes \in Seq(ToSet(b.processes))
    /\ \A c \in Contexts : \A i \in 1 .. N : c[i] # <<>>

Files == 1 .. N
None == <<>>

VARIABLES
    files,      \* the source files: context and rows
    claimed,    \* history: what they were when the transform began
    ledger,     \* the capture has a ledger
    upstream,   \* status of the run that recorded them: "none", "complete", "partial"
    workers,    \* --workers
    pc,         \* "serial", "rows", "confirm", "plan", "encode", "commit", "finish", "publish", "end"
    next,       \* the next source, or the first group of the batch
    serial,     \* validator, block and output of the serial transform
    seen,       \* what the serial transform has read of the source at hand
    job,        \* results of the workers of the batch; "todo", "unspawned", "cancelled", ...
    cancel,     \* the cancel flag of the batch
    plan,       \* the fold of the summaries
    committed,  \* blocks appended to the archive
    listed,     \* sources in source_hashes, each with what was read of it to be encoded
    error,      \* why the transform failed, or "none"
    status,     \* status of the output: "in-progress", "complete", "partial", "failed"
    faults

inputs == <<files, claimed, ledger, upstream, workers>>
bulkVars == <<job, cancel, plan>>
outVars == <<committed, listed, error, status>>
vars == <<inputs, pc, next, serial, seen, bulkVars, outVars, faults>>

NoPlan == [global |-> Nothing, last |-> Never, first |-> None, group |-> None, from |-> 1,
           groups |-> <<>>, read |-> <<>>, retained |-> 0, error |-> "none"]
NoSerial == [v |-> NewValidator(Unlimited), block |-> <<>>, ctx |-> None, first |-> None,
             out |-> <<>>, error |-> "none"]

Bulk == workers > 1 /\ N > 1
Least(a, b) == IF a < b THEN a ELSE b

\* Rows with these bodies; row r, if it is one, repeats the stamp of the row before it.
Stamp(r, k) == IF r = 0 \/ k < r THEN k ELSE k - 1
Recorded(n, b, r) ==
    [k \in 1 .. n |-> [seq |-> Stamp(r, k), stamp |-> Stamp(r, k), processes |-> b[k].processes, quality |-> b[k].quality]]
Recordings(n) == {Recorded(n, b, r) : b \in [1 .. n -> Bodies], r \in (Repeats \cap 2 .. n) \cup {0}}

\* The rows, spread over the files: file i ends with row cut[i].
Spread(rows, c, cut) == [i \in Files |-> [context |-> c[i], rows |-> SubSeq(rows, cut[i - 1] + 1, cut[i])]]
Spreads(n) == {cut \in [0 .. N -> 0 .. n] : cut[0] = 0 /\ cut[N] = n /\ \A i \in Files : cut[i - 1] <= cut[i]}
Captures ==
    UNION {{Spread(rows, c, cut) : rows \in Recordings(n), c \in Contexts, cut \in Spreads(n)} : n \in 0 .. MaxRows}

Init ==
    /\ files \in Captures /\ claimed = files
    /\ (\E u \in Upstreams : upstream = u[1] /\ ledger = u[2]) /\ workers \in Workers
    /\ pc = IF Bulk THEN "plan" ELSE "serial"
    /\ next = 1 /\ serial = NoSerial /\ seen = None
    /\ job = [i \in 1 .. Least(workers, N) |-> [is |-> "todo"]] /\ cancel = FALSE /\ plan = NoPlan
    /\ committed = <<>> /\ listed = <<>> /\ error = "none" /\ status = "in-progress"
    /\ faults = 0

----------------------------------------------------------------------------
(* Rows through the offline validator *)

Block(context, rows) == [context |-> context, rows |-> rows]
Emit(out, context, rows) == IF rows = <<>> THEN out ELSE Append(out, Block(context, rows))

\* A row the validator took: it joins the block or begins the next.
Join(s, context, val) ==
    LET cut == ShouldCut(s.block, val.row) \/ val.boundary
    IN  [s EXCEPT !.v = val.v, !.first = IF @ = None THEN context ELSE @,
                  !.out = IF cut THEN Emit(@, context, s.block) ELSE @,
                  !.block = IF cut THEN <<val.row>> ELSE Append(@, val.row)]

\* A row of another context: the block before it is over.
Enter(s, context) ==
    IF s.ctx = context THEN s
    ELSE [s EXCEPT !.out = Emit(@, s.ctx, s.block), !.block = <<>>, !.ctx = context]

\* The closure of transform_sources_impl on one row
SerialRow(s, context, row) ==
    IF s.error # "none" THEN s
    ELSE IF s.first # None /\ s.first[1] # context[1] THEN [s EXCEPT !.error = "stream"]
    ELSE IF ~Accepts(s.v, row) THEN [Enter(s, context) EXCEPT !.error = "order"]
    ELSE Join(Enter(s, context), context, Validated(s.v, row))

\* The end of a source: one without rows still fixes or must fit the stream.
EndSource(s, context) ==
    IF s.error # "none" THEN s
    ELSE IF s.first # None /\ s.first[1] # context[1] THEN [s EXCEPT !.error = "stream"]
    ELSE IF s.first = None THEN [s EXCEPT !.first = context, !.ctx = context]
    ELSE s

\* The rows of a source, one after the other
SourceRows(s, context, rows) == FoldLeft(LAMBDA a, row : SerialRow(a, context, row), s, rows)

SerialSource(s, f) == EndSource(SourceRows(s, f.context, f.rows), f.context)

\* What the serial transform makes of these files
Serially(fs) ==
    LET s == FoldLeft(LAMBDA a, f : SerialSource(a, f), NoSerial, [i \in Files |-> fs[i]])
    IN  [out |-> Emit(s.out, s.ctx, s.block), error |-> s.error]

AsClaimed(i) == ~ledger \/ files[i] = claimed[i]

Entry(i, file) == [source |-> i, file |-> file]

\* verify_capture_source_hash: where there is a ledger a file is hashed before it is read.
HashSource ==
    /\ pc = "serial" /\ next <= N
    /\ IF AsClaimed(next) THEN pc' = "rows" /\ UNCHANGED error ELSE pc' = "finish" /\ error' = "changed"
    /\ UNCHANGED <<inputs, next, serial, seen, bulkVars, committed, listed, status, faults>>

\* The row after the first k of the file ends a block: append_block is called.
Appends(s, f, k) ==
    k < Len(f.rows) /\ SerialRow(s, f.context, f.rows[k + 1]).out # s.out

\* visit_source: blocks are committed up to the row that is refused, or before which a call fails.
\* A block that cannot be appended is kept: append_block is called for it once more at the end.
ReadRows ==
    /\ pc = "rows"
    /\ LET f == files[next] IN
       \/ /\ serial' = SourceRows(serial, f.context, f.rows)
          /\ error' = serial'.error /\ seen' = f
          /\ pc' = IF error' = "none" THEN "confirm" ELSE "finish"
          /\ UNCHANGED faults
       \/ /\ faults < MaxFaults /\ faults' = faults + 1
          /\ \E k \in 0 .. Len(f.rows) :
                /\ serial' = SourceRows(serial, f.context, SubSeq(f.rows, 1, k))
                /\ serial'.error = "none"
                /\ error' = "io" \/ (Appends(serial', f, k) /\ error' = "storage")
          /\ pc' = "finish" /\ UNCHANGED seen
    /\ committed' = serial'.out
    /\ UNCHANGED <<inputs, next, bulkVars, listed, status>>

\* Mutant: the source is not compared with the ledger after it has been read.
ConfirmSourceUnchecked ==
    /\ pc = "confirm"
    /\ serial' = EndSource(serial, seen.context) /\ error' = serial'.error
    /\ IF error' = "none"
       THEN listed' = Append(listed, Entry(next, seen)) /\ next' = next + 1 /\ pc' = "serial"
       ELSE pc' = "finish" /\ UNCHANGED <<listed, next>>
    /\ UNCHANGED <<inputs, seen, bulkVars, committed, status, faults>>

\* verify_capture_segment: what was read, and what is there now, must be what the ledger says.
\* Then the source is listed, with a line in the checked ledger.
ConfirmSource ==
    /\ pc = "confirm"
    /\ \/ /\ ledger /\ {seen, files[next]} # {claimed[next]}
          /\ error' = "changed" /\ pc' = "finish" /\ UNCHANGED <<serial, seen, listed, next, faults>>
       \/ /\ ledger => {seen, files[next]} = {claimed[next]}
          /\ serial' = EndSource(serial, seen.context) /\ error' = serial'.error
          /\ IF error' = "none"
             THEN listed' = Append(listed, Entry(next, seen)) /\ next' = next + 1 /\ pc' = "serial"
             ELSE pc' = "finish" /\ UNCHANGED <<listed, next>>
          /\ UNCHANGED faults
       \/ /\ ledger /\ faults < MaxFaults /\ faults' = faults + 1
          /\ error' = "io" /\ pc' = "finish" /\ UNCHANGED <<serial, seen, listed, next>>
    /\ UNCHANGED <<inputs, seen, bulkVars, committed, status>>

\* The tail is appended whether the sources failed or not.
SourcesOver == (pc = "serial" /\ next > N) \/ (pc = "finish" /\ ~Bulk)

AppendTail ==
    /\ SourcesOver /\ serial.block # <<>>
    /\ committed' = Emit(serial.out, serial.ctx, serial.block)
    /\ serial' = [serial EXCEPT !.out = committed', !.block = <<>>]
    /\ UNCHANGED <<inputs, pc, next, seen, bulkVars, listed, error, status, faults>>

\* The first error stays; a writer that has failed may fail again.
TailFails ==
    /\ SourcesOver /\ serial.block # <<>>
    /\ serial' = [serial EXCEPT !.block = <<>>]
    /\ error' = IF error = "none" THEN "storage" ELSE error
    /\ IF error = "storage" THEN UNCHANGED faults ELSE faults < MaxFaults /\ faults' = faults + 1
    /\ pc' = "finish"
    /\ UNCHANGED <<inputs, next, seen, bulkVars, committed, listed, status>>

SerialDone ==
    /\ pc = "serial" /\ next > N /\ serial.block = <<>>
    /\ pc' = "finish"
    /\ UNCHANGED <<inputs, next, serial, seen, bulkVars, outVars, faults>>

----------------------------------------------------------------------------
(* Pass one *)

\* What a worker of either pass has come to
Only(what) == [is |-> what]
Todo == Only("todo")

ResetsOf(rows) == UNION {Resets(rows[k].quality) : k \in DOMAIN rows}
OfflineRow(a, row) ==
    IF a.ok /\ Accepts(a.v, row) THEN [ok |-> TRUE, v |-> Validated(a.v, row).v] ELSE [a EXCEPT !.ok = FALSE]
Offline(seed, rows) == FoldLeft(LAMBDA a, row : OfflineRow(a, row), [ok |-> TRUE, v |-> seed], rows)

\* summary_budget_exceeded at some row; the rows before it were accepted.
TooManyIn(rows) ==
    \E k \in DOMAIN rows :
        LET before == Offline(NewValidator(Unlimited), SubSeq(rows, 1, k - 1))
            here == Resets(rows[k].quality)
            after == (DOMAIN before.v.previous \ here)
                     \cup {rows[k].processes[j].id : j \in DOMAIN rows[k].processes}
        IN  /\ before.ok
            /\ \/ Cardinality(ResetsOf(SubSeq(rows, 1, k))) > MaxSeeds
               \/ Cardinality(here) + Cardinality(after) > MaxSeeds

\* summarize_source
Summary(i) ==
    LET f == files[i]
        end == Offline(NewValidator(Unlimited), f.rows)
    IN  IF ~AsClaimed(i) THEN Only("changed")
        ELSE IF TooManyIn(f.rows) THEN Only("too many")
        ELSE IF ~end.ok THEN Only("order")
        ELSE [is |-> "ok", file |-> f, resets |-> ResetsOf(f.rows), final |-> end.v.previous]

IsError(r) == r.is \in {"changed", "too many", "order", "stream", "io", "large"}

\* The group is over: its seeds stay until pass two
Close(p, end) ==
    [p EXCEPT !.groups = Append(@, [start |-> p.group.start, end |-> end, context |-> p.group.context,
                                    seed |-> p.group.seed, last |-> p.group.last]),
              !.retained = @ + Cardinality(DOMAIN p.group.seed),
              !.group = None, !.from = end]

\* Mutant: a seed is taken for every identity of the summary, touched before or not.
TouchEvery(p, ids) ==
    [p EXCEPT !.group.touched = @ \cup ids,
              !.group.seed = [i \in DOMAIN @ \cup (ids \cap DOMAIN p.global) |->
                                IF i \in ids \cap DOMAIN p.global THEN p.global[i] ELSE @[i]]]

\* An identity touched first in this group takes the state it comes in with.
Touch(p, ids) ==
    [p EXCEPT !.group.touched = @ \cup ids,
              !.group.seed = LET new == (ids \ p.group.touched) \cap DOMAIN p.global
                             IN  [i \in DOMAIN @ \cup new |-> IF i \in new THEN p.global[i] ELSE @[i]]]

\* A source with rows joins the open group or opens one.
JoinGroup(p, i, sum) ==
    LET context == sum.file.context
        closed == IF p.group # None /\ p.group.context # context THEN Close(p, i) ELSE p
        opened == IF closed.group # None THEN closed
                  ELSE [closed EXCEPT !.group = [start |-> closed.from, context |-> context, seed |-> Nothing,
                                                 touched |-> {}, last |-> p.last]]
        touched == Touch(opened, sum.resets \cup DOMAIN sum.final)
    IN  IF \/ Cardinality(touched.group.touched) > MaxSeeds
           \/ touched.retained + Cardinality(DOMAIN touched.group.seed) > MaxSeeds
        THEN [p EXCEPT !.error = "too many"]
        ELSE [touched EXCEPT !.last = Last(sum.file.rows).seq]

\* build_plan on one summary
Fold(p, i, sum) ==
    LET context == sum.file.context
        rows == sum.file.rows
        joined == IF rows = <<>> THEN p ELSE JoinGroup(p, i, sum)
    IN  IF p.error # "none" THEN p
        ELSE IF p.first # None /\ p.first[1] # context[1] THEN [p EXCEPT !.error = "stream"]
        ELSE IF rows # <<>> /\ p.last # Never /\ Head(rows).seq <= p.last THEN [p EXCEPT !.error = "order"]
        ELSE IF joined.error # "none" THEN joined
        ELSE [joined EXCEPT !.read = Append(@, sum.file),
                !.first = IF @ = None THEN context ELSE @,
                !.global = [j \in (DOMAIN @ \ sum.resets) \cup DOMAIN sum.final |->
                              IF j \in DOMAIN sum.final THEN sum.final[j] ELSE @[j]]]

\* The end of build_plan
Planned(p) ==
    IF p.error # "none" THEN p
    ELSE IF p.group # None THEN Close(p, N + 1)
    ELSE [p EXCEPT !.groups = <<[start |-> 1, end |-> N + 1, context |-> p.first, seed |-> Nothing, last |-> Never]>>]

----------------------------------------------------------------------------
(* Pass two *)

SourcesOf(g) == [k \in 1 .. g.end - g.start |-> g.start + k - 1]

\* Mutant: what is read is not compared with what pass one read.
ReplaySourceUnchecked(a, g, i) ==
    IF a.error # "none" THEN a
    ELSE IF ~AsClaimed(i) THEN [a EXCEPT !.error = "changed"]
    ELSE SourceRows(a, g.context, files[i].rows)

\* replay_group on one source: the file must be what the ledger says, and what is read of it
\* what pass one read.
ReplaySource(a, g, i) ==
    LET s == SourceRows(a, g.context, files[i].rows)
    IN  IF a.error # "none" THEN a
        ELSE IF ~AsClaimed(i) THEN [a EXCEPT !.error = "changed"]
        ELSE IF s.error = "none" /\ files[i] # plan.read[i] THEN [s EXCEPT !.error = "changed"]
        ELSE s

\* replay_group: the rows of the group through a validator that starts from the seed
StartOf(g) ==
    [NoSerial EXCEPT !.v = [@ EXCEPT !.previous = g.seed, !.seq = g.last, !.stamp = g.last],
                     !.ctx = g.context, !.first = g.context]
Replayed(g) == FoldLeft(LAMBDA a, i : ReplaySource(a, g, i), StartOf(g), SourcesOf(g))

\* The blocks handed on: a replay that fails does not hand on its last.
BlocksOf(s) == IF s.error = "none" THEN Emit(s.out, s.ctx, s.block) ELSE s.out

\* The sources of a group, with what is read of them
EntriesOf(g) == [k \in 1 .. g.end - g.start |-> Entry(g.start + k - 1, files[g.start + k - 1])]

\* encode_group: one block too many ends it before any later error.
Encoded(g) ==
    LET s == Replayed(g)
    IN  IF Len(s.out) > MaxGroup THEN Only("large")
        ELSE IF s.error # "none" THEN Only(s.error)
        ELSE IF Len(BlocksOf(s)) > MaxGroup THEN Only("large")
        ELSE [is |-> "ok", blocks |-> BlocksOf(s), sources |-> EntriesOf(g)]

----------------------------------------------------------------------------
(* Batches of workers *)

Width == IF pc = "plan" THEN Least(workers, N) ELSE Least(workers, Len(plan.groups))
Compute(i) == IF pc = "plan" THEN Summary(i) ELSE Encoded(plan.groups[i])
NewBatch(from, width, size) == [i \in from .. Least(from + width - 1, size) |-> Todo]

\* A single group is not given to a worker.
Batched == pc = "plan" \/ (pc = "encode" /\ Len(plan.groups) > 1)

\* A worker ends: with its result, with a failed call, or because a peer failed.
Work(i) ==
    /\ Batched /\ i \in DOMAIN job /\ job[i] = Todo
    /\ \/ job' = [job EXCEPT ![i] = Compute(i)] /\ UNCHANGED faults
       \/ cancel /\ job' = [job EXCEPT ![i] = Only("cancelled")] /\ UNCHANGED faults
       \/ faults < MaxFaults /\ faults' = faults + 1 /\ job' = [job EXCEPT ![i] = Only("io")]
    /\ cancel' = (cancel \/ IsError(job'[i]))
    /\ UNCHANGED <<inputs, pc, next, serial, seen, plan, outVars>>

\* A worker cannot be started: neither it nor those after it are.
SpawnFails(i) ==
    /\ Batched /\ i \in DOMAIN job /\ error = "none"
    /\ \A j \in DOMAIN job : j >= i => job[j] = Todo
    /\ faults < MaxFaults /\ faults' = faults + 1
    /\ job' = [j \in DOMAIN job |-> IF j >= i THEN Only("unspawned") ELSE job[j]]
    /\ cancel' = TRUE /\ error' = "spawn"
    /\ UNCHANGED <<inputs, pc, next, serial, seen, plan, committed, listed, status>>

\* Mutant: the first worker without a result is the cause, cancelled or not.
CauseFirst ==
    LET failed == {i \in DOMAIN job : job[i].is # "ok"}
    IN  IF error # "none" THEN error
        ELSE IF failed # {} THEN job[CHOOSE i \in failed : \A j \in failed : i <= j].is ELSE "none"

\* The first error in the order of the batch, not the first in time
Cause ==
    LET failed == {i \in DOMAIN job : IsError(job[i])}
    IN  IF error # "none" THEN error
        ELSE IF failed # {} THEN job[CHOOSE i \in failed : \A j \in failed : i <= j].is
        ELSE IF \E i \in DOMAIN job : job[i].is # "ok" THEN "cancelled" ELSE "none"

AllJoined == \A i \in DOMAIN job : job[i] # Todo

\* Pass one: fold the batch; after the last, start pass two.
FoldBatch ==
    /\ pc = "plan" /\ AllJoined
    /\ LET width == Width
           p == FoldLeft(LAMBDA a, i : Fold(a, i, job[i]), plan,
                         [k \in 1 .. Least(width, N + 1 - next) |-> next + k - 1])
           over == next + width > N
           whole == IF over THEN Planned(p) ELSE p
           why == IF Cause # "none" THEN Cause ELSE p.error
       IN  IF why # "none"
           THEN /\ error' = why /\ pc' = "finish"
                /\ UNCHANGED <<next, job, cancel, plan>>
           ELSE /\ plan' = whole
                /\ pc' = IF over THEN "encode" ELSE "plan"
                /\ next' = IF over THEN 1 ELSE next + width
                /\ job' = IF over THEN NewBatch(1, Least(workers, Len(whole.groups)), Len(whole.groups))
                          ELSE NewBatch(next + width, width, N)
                /\ cancel' = FALSE /\ UNCHANGED error
    /\ UNCHANGED <<inputs, serial, seen, committed, listed, status, faults>>

\* Mutant: what the workers that succeeded made is committed although a peer failed.
JoinBatchKeepsDone ==
    /\ pc = "encode" /\ Len(plan.groups) > 1 /\ AllJoined
    /\ error' = IF Cause # "none" THEN Cause ELSE error
    /\ pc' = "commit" /\ job' = [i \in {j \in DOMAIN job : job[j].is = "ok"} |-> job[i]]
    /\ UNCHANGED <<inputs, next, serial, seen, cancel, plan, committed, listed, status, faults>>

\* Pass two: the whole batch, or none of it, is committed.
JoinBatch ==
    /\ pc = "encode" /\ Len(plan.groups) > 1 /\ AllJoined
    /\ IF Cause # "none" THEN error' = Cause /\ pc' = "finish"
       ELSE pc' = "commit" /\ UNCHANGED error
    /\ UNCHANGED <<inputs, next, serial, seen, bulkVars, committed, listed, status, faults>>

\* A block cannot be appended, or a line of the checked ledger not be written when the blocks are
\* in the archive: the source of that line is listed all the same.
CommitFails(blocks, entries) ==
    /\ faults < MaxFaults /\ faults' = faults + 1
    /\ error' = "storage" /\ pc' = "finish"
    /\ \/ /\ \E k \in 0 .. Len(blocks) - 1 : committed' = committed \o SubSeq(blocks, 1, k)
          /\ UNCHANGED listed
       \/ /\ ledger /\ committed' = committed \o blocks
          /\ \E m \in 1 .. Len(entries) : listed' = listed \o SubSeq(entries, 1, m)

\* Append the blocks of the next group, and list its sources; or fail in the middle.
CommitGroup ==
    /\ pc = "commit" /\ DOMAIN job # {}
    /\ LET i == CHOOSE i \in DOMAIN job : \A j \in DOMAIN job : i <= j
       IN  \/ /\ committed' = committed \o job[i].blocks /\ listed' = listed \o job[i].sources
              /\ job' = [j \in DOMAIN job \ {i} |-> job[j]]
              /\ UNCHANGED <<pc, error, faults>>
           \/ CommitFails(job[i].blocks, job[i].sources) /\ UNCHANGED job
    /\ UNCHANGED <<inputs, next, serial, seen, cancel, plan, status>>

NextBatch ==
    /\ pc = "commit" /\ DOMAIN job = {}
    /\ LET size == Len(plan.groups)
           from == next + Least(workers, size)
       IN  IF from > size THEN pc' = "finish" /\ UNCHANGED <<next, job, cancel>>
           ELSE /\ pc' = "encode" /\ next' = from /\ job' = NewBatch(from, Least(workers, size), size)
                /\ cancel' = FALSE
    /\ UNCHANGED <<inputs, serial, seen, plan, outVars, faults>>

\* With one group the blocks go to the archive as they are made, before the checks of the sources
\* they come from; and a read or an append may fail in the middle.
StreamGroup ==
    /\ pc = "encode" /\ Len(plan.groups) = 1
    /\ LET g == plan.groups[1]
           s == Replayed(g)
           entries == IF s.error = "none" THEN EntriesOf(g) ELSE <<>>
       IN  \/ committed' = BlocksOf(s) /\ listed' = entries /\ error' = s.error /\ pc' = "finish" /\ UNCHANGED faults
           \/ /\ faults < MaxFaults /\ faults' = faults + 1
              /\ \E k \in 0 .. Len(s.out) : committed' = SubSeq(s.out, 1, k)
              /\ error' = "io" /\ pc' = "finish" /\ UNCHANGED listed
           \/ CommitFails(BlocksOf(s), entries)
    /\ UNCHANGED <<inputs, next, serial, seen, bulkVars, status>>

\* create_private_directory or ArchiveWriter::open fails: there is nothing to finish.
OpenFails ==
    /\ pc = "encode" /\ next = 1 /\ \A i \in DOMAIN job : job[i] = Todo
    /\ faults < MaxFaults /\ faults' = faults + 1
    /\ error' = "storage" /\ pc' = "publish"
    /\ UNCHANGED <<inputs, next, serial, seen, bulkVars, committed, listed, status>>

----------------------------------------------------------------------------
\* finish_sink
FinishFails ==
    /\ pc = "finish" /\ (Bulk \/ serial.block = <<>>)
    /\ faults < MaxFaults /\ faults' = faults + 1
    /\ error' = IF error = "none" THEN "storage" ELSE error
    /\ pc' = "publish"
    /\ UNCHANGED <<inputs, next, serial, seen, bulkVars, committed, listed, status>>

FinishArchive ==
    /\ pc = "finish" /\ (Bulk \/ serial.block = <<>>)
    /\ pc' = "publish"
    /\ UNCHANGED <<inputs, next, serial, seen, bulkVars, outVars, faults>>

\* Mutant: the status of the run the sources come from is not looked at.
PublishOwn ==
    /\ pc = "publish" /\ pc' = "end"
    /\ status' = IF error # "none" THEN "failed" ELSE "complete"
    /\ UNCHANGED <<inputs, next, serial, seen, bulkVars, committed, listed, error, faults>>

\* The last status: a failure marker, or that of the run the sources come from.
Publish ==
    /\ pc = "publish" /\ pc' = "end"
    /\ status' = IF error # "none" THEN "failed" ELSE IF upstream = "partial" THEN "partial" ELSE "complete"
    /\ UNCHANGED <<inputs, next, serial, seen, bulkVars, committed, listed, error, faults>>

\* The only place to stop: nobody waits for a worker that failed or was never started.
Done == pc = "end" /\ UNCHANGED vars

\* Somebody cuts a source file short.
Change(i) ==
    /\ pc \notin {"publish", "end"} /\ files[i].rows # <<>>
    /\ faults < MaxFaults /\ faults' = faults + 1
    /\ files' = [files EXCEPT ![i].rows = Front(@)]
    /\ UNCHANGED <<claimed, ledger, upstream, workers, pc, next, serial, seen, bulkVars, outVars>>

Next ==
    \/ HashSource \/ ReadRows \/ ConfirmSource \/ AppendTail \/ TailFails \/ SerialDone
    \/ \E i \in DOMAIN job : Work(i) \/ SpawnFails(i)
    \/ FoldBatch \/ JoinBatch \/ CommitGroup \/ NextBatch \/ StreamGroup \/ OpenFails
    \/ FinishFails \/ FinishArchive \/ Publish
    \/ \E i \in Files : Change(i)
    \/ Done

Spec == Init /\ [][Next]_vars

----------------------------------------------------------------------------
\* Types; listed sources are a beginning; the seeds kept for pass two fit the limit.
TypeOK ==
    /\ pc \in {"serial", "rows", "confirm", "plan", "encode", "commit", "finish", "publish", "end"}
    /\ pc \in {"encode", "commit"} => plan.retained <= MaxSeeds
    /\ next \in 1 .. N + 1 /\ cancel \in BOOLEAN /\ faults \in 0 .. MaxFaults
    /\ DOMAIN job \subseteq 1 .. N /\ Cardinality(DOMAIN job) <= workers
    /\ Len(listed) <= N /\ \A k \in 1 .. Len(listed) : listed[k].source = k
    /\ (pc = "end") = (status # "in-progress")

Same == \A i \in Files : files[i] = claimed[i]

\* However the workers are scheduled, the archive of a transform that ends well is the one the
\* serial transform would have made, block for block, and it would have ended well too.  At every
\* moment the archive holds a beginning of it, in the order of the sources, also when a worker or
\* a call has failed; only a single group is written before its sources are checked.
BulkIsSerial ==
    Bulk => LET s == Serially([i \in Files |-> plan.read[i]]) IN
        /\ pc = "end" /\ error = "none" => s.error = "none" /\ committed = s.out
        /\ committed # <<>> /\ (Len(plan.groups) > 1 \/ Same) => IsPrefix(committed, s.out)

\* Sources the serial transform accepts are only refused for their number of identities, for a
\* size, or because something failed or changed; and what is reported is the cause, never the
\* cancellation that followed from it.
RefusedForCause ==
    /\ error # "cancelled"
    /\ error \in {"order", "stream"} => Serially(claimed).error # "none" \/ ~Same

\* A complete import is of a run that ended well.  It lists all the sources, each with what was read
\* of it: what the ledger says, and in a bulk transform what pass one summarised; and its archive is
\* what the serial transform makes of that, block for block.
CompleteIsWhole ==
    status = "complete" =>
        /\ upstream # "partial" /\ Len(listed) = N
        /\ \A i \in Files : /\ listed[i].source = i
                            /\ ledger => listed[i].file = claimed[i]
                            /\ Bulk => listed[i].file = plan.read[i]
        /\ Serially([i \in Files |-> listed[i].file]) = [out |-> committed, error |-> "none"]
=============================================================================
