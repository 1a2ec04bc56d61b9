------------------------------ MODULE RecordRun ------------------------------
(***************************************************************************)
(* The directories of recording runs under one root, and who writes and    *)
(* reads them: `record` (consume_live of recording/pipeline.rs) and        *)
(* `inspect` (recording/cli.rs).                                           *)
(*                                                                         *)
(* A recorder takes the root's record.lock, recovers the archives of older *)
(* runs, makes its own run directory with a partial.json, writes its rows  *)
(* to a binary archive or to raw segments, and publishes its outcome:      *)
(* complete.json by a hard link, after which partial.json goes, or a       *)
(* failed partial.json by a rename.  An inspection lists the data, reads   *)
(* the two statuses one after the other and then the data, while a         *)
(* recorder may be at any of its steps.                                    *)
(*                                                                         *)
(* What the archive does inside is ArchiveStore; here a run's data is a    *)
(* number of rows kept, of which some are framed.                          *)
(***************************************************************************)
EXTENDS Integers, FiniteSets, FiniteSetsExt

CONSTANTS
    Runs,           \* one recorder per run; a run id is never used again
    Raw,            \* the runs that write raw segments (jsonl-zstd)
    None,           \* no recorder
    MaxRows,        \* bound: rows a producer delivers
    MaxFaults,      \* bound: failed calls, kills and power losses
    MaxBytes,       \* options.max_bytes of each recorder, in units of a small status
    StatusReserve,  \* STATUS_CAPACITY_RESERVE, also the most a reader takes
    Growth,         \* the bytes one append may add to a run's data
    Vias            \* what inspect may be given: "run", "root"

ASSUME RunAssumption ==
    /\ IsFiniteSet(Runs) /\ Raw \subseteq Runs
    /\ None \notin Runs
    /\ MaxRows \in Nat /\ MaxFaults \in Nat /\ MaxBytes \in [Runs -> Nat]
    /\ StatusReserve \in Nat \ {0}
    /\ Growth \subseteq Nat \ {0}
    /\ Vias \subseteq {"run", "root"}

VARIABLES
    pc,         \* the next system call of each recorder
    lock,       \* who holds record.lock
    dir,        \* each run directory
    crashDirs,  \* the directories a power loss may leave of each run
    data,       \* rows kept, rows framed and bytes of each run's data
    got,        \* rows accepted from the producer
    ended,      \* how the producer ended
    failed,     \* consume_live has a failure
    todo,       \* older archives the recorder has still to recover
    warned,     \* archives it could not recover, reported and left alone
    reports,    \* lines in the recovery report, which the status repeats
    allot,      \* bytes the sink of the run may use
    status,     \* the status being published
    insp,       \* the inspection
    unlimited,  \* an inspection has recovered an archive without a limit
    faults

recVars == <<got, ended, failed, todo, warned, reports, allot, status>>
vars == <<pc, lock, dir, crashDirs, data, recVars, insp, unlimited, faults>>

NoStatus == [state |-> "none", links |-> 0, size |-> 0]
NoDir == [made |-> FALSE, partial |-> NoStatus, complete |-> NoStatus,
          temp |-> 0, data |-> FALSE]
Idle == [pc |-> "idle", run |-> None, via |-> "run", incomplete |-> FALSE, seen |-> 0]

Init ==
    /\ pc = [r \in Runs |-> "idle"]
    /\ lock = None
    /\ dir = [r \in Runs |-> NoDir]
    /\ crashDirs = [r \in Runs |-> {NoDir}]
    /\ data = [r \in Runs |-> [rows |-> 0, framed |-> 0, bytes |-> 0]]
    /\ got = [r \in Runs |-> 0]
    /\ ended = [r \in Runs |-> "running"]
    /\ failed = [r \in Runs |-> FALSE]
    /\ todo = [r \in Runs |-> {}]
    /\ warned = [r \in Runs |-> {}]
    /\ reports = [r \in Runs |-> 0]
    /\ allot = [r \in Runs |-> 0]
    /\ status = [r \in Runs |-> "none"]
    /\ insp = Idle
    /\ unlimited = FALSE
    /\ faults = 0

-----------------------------------------------------------------------------
(* The files                                                                *)

\* recording_tree_bytes counts every name, so a status with two links twice.
DirBytes(d) == d.temp + d.partial.links * d.partial.size
                      + d.complete.links * d.complete.size

Used == MapThenSumSet(LAMBDA r : DirBytes(dir[r]) + data[r].bytes, Runs)

\* Mutant: the allotment forgets the reserve for the statuses.
AllotmentNoReserve(r, o) == MaxBytes[r] - (Used - data[o].bytes)

\* The bytes recorder r leaves for the data of o, as archive_options_for_root computes them
Allotment(r, o) == MaxBytes[r] - (Used - data[o].bytes) - StatusReserve

\* A change of a directory that no sync has followed may be lost.
Change(r, d) ==
    /\ dir' = [dir EXCEPT ![r] = d]
    /\ crashDirs' = [crashDirs EXCEPT ![r] = @ \cup {d}]

Sync(r) ==
    /\ crashDirs' = [crashDirs EXCEPT ![r] = {dir[r]}]
    /\ UNCHANGED dir

\* read_owned_metadata takes one link and a bounded size.
Unreadable(s) == s # NoStatus /\ (s.links # 1 \/ s.size > StatusReserve)

Goto(r, label) == pc' = [pc EXCEPT ![r] = label]

\* Mutant: only a recorder that was killed gives the lock back.
ReturnKeepsLock(r) == Goto(r, "over") /\ UNCHANGED lock

\* consume_live returns; the lock's descriptor is closed.
Return(r) == Goto(r, "over") /\ lock' = None

-----------------------------------------------------------------------------
(* prepare_root and recover_owned_archives                                  *)

TakeLock(r) ==
    /\ pc[r] = "idle" /\ lock = None
    /\ lock' = r
    /\ Goto(r, "scan")
    /\ UNCHANGED <<dir, crashDirs, data, recVars, insp, unlimited, faults>>

LockBusy(r) ==
    /\ pc[r] = "idle" /\ lock # None
    /\ Goto(r, "over")
    /\ UNCHANGED <<lock, dir, crashDirs, data, recVars, insp, unlimited, faults>>

\* Mutant: a run directory without a status stops a start as well.
BlockingEmpty(o) ==
    \/ Unreadable(dir[o].complete)
    \/ /\ dir[o].complete = NoStatus
       /\ Unreadable(dir[o].partial) \/ (dir[o].made /\ dir[o].partial = NoStatus)

\* The statuses of an older run stop every later recorder.
Blocking(o) ==
    \/ Unreadable(dir[o].complete)
    \/ dir[o].complete = NoStatus /\ Unreadable(dir[o].partial)

\* Mutant: only runs whose status is in progress are recovered.
InterruptedInProgress(o) ==
    /\ o \notin Raw /\ dir[o].data /\ dir[o].complete = NoStatus
    /\ dir[o].partial.state = "in-progress"

Interrupted(o) ==
    /\ o \notin Raw /\ dir[o].data /\ dir[o].complete = NoStatus
    /\ dir[o].partial # NoStatus \/ data[o].rows > data[o].framed

ScanOldRuns(r) ==
    /\ pc[r] = "scan"
    /\ ~\E o \in Runs : Blocking(o)
    /\ todo' = [todo EXCEPT ![r] = {o \in Runs : Interrupted(o)}]
    /\ Goto(r, "recover")
    /\ UNCHANGED <<lock, dir, crashDirs, data, got, ended, failed, warned, reports,
                   allot, status, insp, unlimited, faults>>

RefuseOldRuns(r) ==
    /\ pc[r] = "scan"
    /\ \E o \in Runs : Blocking(o)
    /\ Goto(r, "refused") /\ lock' = None
    /\ UNCHANGED <<dir, crashDirs, data, recVars, insp, unlimited, faults>>

\* open and finish of the older archive: everything it kept is framed.
RecoverArchive(r, o) ==
    /\ pc[r] = "recover" /\ o \in todo[r]
    /\ \E growth \in Growth :
          /\ data[o].bytes + growth - 1 <= Allotment(r, o)
          /\ data' = [data EXCEPT ![o].framed = data[o].rows, ![o].bytes = @ + growth - 1]
    /\ todo' = [todo EXCEPT ![r] = @ \ {o}]
    /\ reports' = [reports EXCEPT ![r] = @ + 1]
    /\ UNCHANGED <<pc, lock, dir, crashDirs, got, ended, failed, warned, allot, status,
                   insp, unlimited, faults>>

\* An error of that archive alone: reported, and recording goes on.
WarnArchive(r, o) ==
    /\ pc[r] = "recover" /\ o \in todo[r]
    /\ \/ /\ \E growth \in Growth : data[o].bytes + growth - 1 > Allotment(r, o)
          /\ UNCHANGED faults
       \/ faults < MaxFaults /\ faults' = faults + 1
    /\ todo' = [todo EXCEPT ![r] = @ \ {o}]
    /\ warned' = [warned EXCEPT ![r] = @ \cup {o}]
    /\ reports' = [reports EXCEPT ![r] = @ + 1]
    /\ UNCHANGED <<pc, lock, dir, crashDirs, data, got, ended, failed, allot, status,
                   insp, unlimited>>

-----------------------------------------------------------------------------
(* open_sink                                                                *)

\* Mutant: the run directory without its first status.
MakeRunNoStatus(r) ==
    /\ pc[r] = "recover" /\ todo[r] = {}
    /\ Used + 1 <= MaxBytes[r]
    /\ Change(r, [dir[r] EXCEPT !.made = TRUE])
    /\ status' = [status EXCEPT ![r] = "in-progress"]
    /\ Goto(r, "openSink")
    /\ UNCHANGED <<lock, data, got, ended, failed, todo, warned, reports, allot,
                   insp, unlimited, faults>>

MakeRun(r) ==
    /\ pc[r] = "recover" /\ todo[r] = {}
    /\ Used + 1 <= MaxBytes[r]
    /\ Change(r, [dir[r] EXCEPT !.made = TRUE])
    /\ status' = [status EXCEPT ![r] = "in-progress"]
    /\ Goto(r, "writeTemp")
    /\ UNCHANGED <<lock, data, got, ended, failed, todo, warned, reports, allot,
                   insp, unlimited, faults>>

NoRoomForRun(r) ==
    /\ pc[r] = "recover" /\ todo[r] = {}
    /\ Used + 1 > MaxBytes[r]
    /\ Return(r)
    /\ UNCHANGED <<dir, crashDirs, data, recVars, insp, unlimited, faults>>

\* The archive's own directory and metadata are durable when open returns;
\* a raw sink creates its first segment with its first block.
OpenSink(r) ==
    /\ pc[r] = "openSink" /\ Allotment(r, r) > 0
    /\ allot' = [allot EXCEPT ![r] = Allotment(r, r)]
    /\ IF r \in Raw
       THEN UNCHANGED <<dir, crashDirs, data>>
       ELSE /\ dir' = [dir EXCEPT ![r].data = TRUE]
            /\ crashDirs' = [crashDirs EXCEPT ![r] = {dir'[r]}]
            /\ data' = [data EXCEPT ![r].bytes = 1]
    /\ Goto(r, "loop")
    /\ UNCHANGED <<lock, got, ended, failed, todo, warned, reports, status,
                   insp, unlimited, faults>>

\* The run stays in progress for ever: the caller gets the error only.
NoRoomForSink(r) ==
    /\ pc[r] = "openSink" /\ Allotment(r, r) <= 0
    /\ Return(r)
    /\ UNCHANGED <<dir, crashDirs, data, recVars, insp, unlimited, faults>>

-----------------------------------------------------------------------------
(* consume_live: rows, the end, the tail                                    *)

\* append_block: all rows of the open block are kept; a frame may be sealed.
Appends(r) ==
    \E growth \in Growth, seal \in BOOLEAN :
       /\ data[r].bytes + growth <= allot[r]
       /\ data' = [data EXCEPT ![r] =
             [rows |-> got[r], framed |-> IF seal \/ r \in Raw THEN got[r] ELSE @.framed,
              bytes |-> @.bytes + growth]]
       /\ dir' = [dir EXCEPT ![r].data = TRUE]
       /\ crashDirs' = [crashDirs EXCEPT ![r] = {dir'[r]}]

Full(r) == \E growth \in Growth : data[r].bytes + growth > allot[r]

TakeRow(r) ==
    /\ pc[r] = "loop" /\ got[r] < MaxRows
    /\ got' = [got EXCEPT ![r] = @ + 1]
    /\ \/ data[r].rows < got[r] /\ Appends(r)
       \/ UNCHANGED <<dir, crashDirs, data>>
    /\ UNCHANGED <<pc, lock, ended, failed, todo, warned, reports, allot, status,
                   insp, unlimited, faults>>

\* The validator refuses the row, or the block before it cannot be appended.
RowFails(r) ==
    /\ pc[r] = "loop" /\ got[r] < MaxRows
    /\ faults < MaxFaults \/ Full(r)
    /\ faults' = IF faults < MaxFaults THEN faults + 1 ELSE faults
    /\ failed' = [failed EXCEPT ![r] = TRUE]
    /\ Goto(r, "tail")
    /\ UNCHANGED <<lock, dir, crashDirs, data, got, ended, todo, warned, reports, allot,
                   status, insp, unlimited>>

\* Mutant: a closed channel counts as an orderly end.
TakeEndClosedIsOrderly(r) ==
    /\ pc[r] = "loop"
    /\ \E how \in {"end", "error", "closed"} :
          /\ ended' = [ended EXCEPT ![r] = how]
          /\ failed' = [failed EXCEPT ![r] = (how = "error")]
    /\ Goto(r, "tail")
    /\ UNCHANGED <<lock, dir, crashDirs, data, got, todo, warned, reports, allot, status,
                   insp, unlimited, faults>>

\* The End message, with or without the producer's error, or a closed channel.
TakeEnd(r) ==
    /\ pc[r] = "loop"
    /\ \E how \in {"end", "error", "closed"} :
          /\ ended' = [ended EXCEPT ![r] = how]
          /\ failed' = [failed EXCEPT ![r] = how # "end"]
    /\ Goto(r, "tail")
    /\ UNCHANGED <<lock, dir, crashDirs, data, got, todo, warned, reports, allot, status,
                   insp, unlimited, faults>>

\* Mutant: complete.json goes out before the sink is finished.
AppendTailOutcomeFirst(r) ==
    /\ pc[r] = "tail"
    /\ IF data[r].rows < got[r] THEN Appends(r) ELSE UNCHANGED <<dir, crashDirs, data>>
    /\ status' = [status EXCEPT ![r] = IF failed[r] THEN "failed" ELSE "complete"]
    /\ Goto(r, "writeTemp")
    /\ UNCHANGED <<lock, got, ended, failed, todo, warned, reports, allot,
                   insp, unlimited, faults>>

AppendTail(r) ==
    /\ pc[r] = "tail"
    /\ IF data[r].rows < got[r] THEN Appends(r) ELSE UNCHANGED <<dir, crashDirs, data>>
    /\ Goto(r, "finish")
    /\ UNCHANGED <<lock, recVars, insp, unlimited, faults>>

TailFails(r) ==
    /\ pc[r] = "tail" /\ data[r].rows < got[r]
    /\ faults < MaxFaults \/ Full(r)
    /\ faults' = IF faults < MaxFaults THEN faults + 1 ELSE faults
    /\ failed' = [failed EXCEPT ![r] = TRUE]
    /\ Goto(r, "finish")
    /\ UNCHANGED <<lock, dir, crashDirs, data, got, ended, todo, warned, reports, allot,
                   status, insp, unlimited>>

\* finish_sink, then the outcome is known.
FinishSink(r) ==
    /\ pc[r] = "finish"
    /\ data' = [data EXCEPT ![r].framed = data[r].rows]
    /\ status' = [status EXCEPT ![r] = IF failed[r] THEN "failed" ELSE "complete"]
    /\ Goto(r, "writeTemp")
    /\ UNCHANGED <<lock, dir, crashDirs, got, ended, failed, todo, warned, reports, allot,
                   insp, unlimited, faults>>

FinishFails(r) ==
    /\ pc[r] = "finish" /\ faults < MaxFaults
    /\ faults' = faults + 1
    /\ failed' = [failed EXCEPT ![r] = TRUE]
    /\ status' = [status EXCEPT ![r] = "failed"]
    /\ Goto(r, "writeTemp")
    /\ UNCHANGED <<lock, dir, crashDirs, data, got, ended, todo, warned, reports, allot,
                   insp, unlimited>>

-----------------------------------------------------------------------------
(* publish_status and remove_partial_status                                 *)

\* An outcome repeats the recovery report; the first status has none.
StatusSize(r) == IF status[r] = "in-progress" THEN 1 ELSE 1 + reports[r]

WriteTemp(r) ==
    /\ pc[r] = "writeTemp"
    /\ Change(r, [dir[r] EXCEPT !.temp = StatusSize(r)])
    /\ Goto(r, IF status[r] = "failed" THEN "rename" ELSE "link")
    /\ UNCHANGED <<lock, data, recVars, insp, unlimited, faults>>

Published(r, links) == [state |-> status[r], links |-> links, size |-> dir[r].temp]

\* From here to UnlinkTemp the status has two links.
LinkStatus(r) ==
    /\ pc[r] = "link"
    /\ Change(r, IF status[r] = "complete"
                 THEN [dir[r] EXCEPT !.complete = Published(r, 2), !.temp = 0]
                 ELSE [dir[r] EXCEPT !.partial = Published(r, 2), !.temp = 0])
    /\ Goto(r, "unlinkTemp")
    /\ UNCHANGED <<lock, data, recVars, insp, unlimited, faults>>

UnlinkTemp(r) ==
    /\ pc[r] = "unlinkTemp"
    /\ Change(r, IF status[r] = "complete"
                 THEN [dir[r] EXCEPT !.complete.links = 1]
                 ELSE [dir[r] EXCEPT !.partial.links = 1])
    /\ Goto(r, "syncRun")
    /\ UNCHANGED <<lock, data, recVars, insp, unlimited, faults>>

\* The failed status takes the place of the one in progress.
RenameStatus(r) ==
    /\ pc[r] = "rename"
    /\ Change(r, [dir[r] EXCEPT !.partial = Published(r, 1), !.temp = 0])
    /\ Goto(r, "syncRun")
    /\ UNCHANGED <<lock, data, recVars, insp, unlimited, faults>>

SyncRun(r) ==
    /\ pc[r] = "syncRun"
    /\ Sync(r)
    /\ \/ status[r] = "in-progress" /\ Goto(r, "openSink") /\ UNCHANGED lock
       \/ status[r] = "complete" /\ Goto(r, "removePartial") /\ UNCHANGED lock
       \/ status[r] = "failed" /\ Return(r)
    /\ UNCHANGED <<data, recVars, insp, unlimited, faults>>

RemovePartial(r) ==
    /\ pc[r] = "removePartial"
    /\ Change(r, [dir[r] EXCEPT !.partial = NoStatus])
    /\ Goto(r, "syncClean")
    /\ UNCHANGED <<lock, data, recVars, insp, unlimited, faults>>

SyncClean(r) ==
    /\ pc[r] = "syncClean"
    /\ Sync(r)
    /\ Return(r)
    /\ UNCHANGED <<data, recVars, insp, unlimited, faults>>

\* A call of publish_status fails; its temporary file is removed if it can be.
StatusFails(r) ==
    /\ pc[r] \in {"writeTemp", "link", "unlinkTemp", "rename", "syncRun",
                  "removePartial", "syncClean"}
    /\ faults < MaxFaults
    /\ faults' = faults + 1
    /\ \/ pc[r] = "unlinkTemp"
          /\ Change(r, IF status[r] = "complete"
                       THEN [dir[r] EXCEPT !.complete.links = 1]
                       ELSE [dir[r] EXCEPT !.partial.links = 1])
       \/ dir[r].temp # 0 /\ Change(r, [dir[r] EXCEPT !.temp = 0])
       \/ UNCHANGED <<dir, crashDirs>>
    /\ Return(r)
    /\ UNCHANGED <<data, recVars, insp, unlimited>>

-----------------------------------------------------------------------------
(* The end of a process                                                     *)

Active(r) == pc[r] \notin {"idle", "over", "dead", "refused"}

Kill(r) ==
    /\ Active(r) /\ faults < MaxFaults
    /\ faults' = faults + 1
    /\ Goto(r, "dead") /\ lock' = None
    /\ UNCHANGED <<dir, crashDirs, data, recVars, insp, unlimited>>

\* Every directory goes back to some state since its last sync.
PowerLoss ==
    /\ faults < MaxFaults
    /\ \E r \in Runs : Active(r)
    /\ faults' = faults + 1
    /\ dir' \in {d \in [Runs -> UNION {crashDirs[r] : r \in Runs}] :
                    \A r \in Runs : d[r] \in crashDirs[r]}
    /\ crashDirs' = [r \in Runs |-> {dir'[r]}]
    /\ pc' = [r \in Runs |-> IF Active(r) THEN "dead" ELSE pc[r]]
    /\ lock' = None
    /\ insp' = Idle
    /\ UNCHANGED <<data, recVars, unlimited>>

-----------------------------------------------------------------------------
(* inspect                                                                  *)

\* archive_paths: of a root only binary archives; if there is none, all raw
\* sources under it are read instead.
Inspect(r, via) ==
    /\ insp.pc \in {"idle", "done"} /\ dir[r].data
    /\ (via = "root" /\ r \in Raw) => \A o \in Runs \ Raw : ~dir[o].data
    /\ insp' = [Idle EXCEPT !.pc = "partial", !.run = r, !.via = via]
    /\ UNCHANGED <<pc, lock, dir, crashDirs, data, recVars, unlimited, faults>>

\* partial_recording_error looks beside the input and beside every archive.
LooksBeside(r, via) == via = "run" \/ r \notin Raw

\* A status above the size limit ends the inspection with an error.
ReadPartial ==
    /\ insp.pc = "partial"
    /\ LET s == IF LooksBeside(insp.run, insp.via) THEN dir[insp.run].partial ELSE NoStatus
       IN  insp' = IF s.size > StatusReserve THEN Idle
                   ELSE [insp EXCEPT !.pc = IF s = NoStatus THEN "visit" ELSE "complete"]
    /\ UNCHANGED <<pc, lock, dir, crashDirs, data, recVars, unlimited, faults>>

ReadComplete ==
    /\ insp.pc = "complete"
    /\ LET s == dir[insp.run].complete
       IN  insp' = IF s.size > StatusReserve THEN Idle
                   ELSE [insp EXCEPT !.pc = "visit", !.incomplete = (s = NoStatus)]
    /\ UNCHANGED <<pc, lock, dir, crashDirs, data, recVars, unlimited, faults>>

\* maybe_recover: the archive is opened without a limit and finished.
InspectRecovers ==
    LET r == insp.run IN
    /\ insp.pc = "visit" /\ r \notin Raw
    /\ pc[r] \notin {"loop", "tail", "finish"}
    /\ data[r].rows > data[r].framed
    /\ \E growth \in Growth :
          /\ data' = [data EXCEPT ![r].framed = data[r].rows, ![r].bytes = @ + growth - 1]
          /\ unlimited' = (unlimited \/ growth > 1)
    /\ UNCHANGED <<pc, lock, dir, crashDirs, recVars, insp, faults>>

Visit ==
    /\ insp.pc = "visit"
    /\ insp' = [insp EXCEPT !.pc = "done", !.seen = data[insp.run].rows]
    /\ UNCHANGED <<pc, lock, dir, crashDirs, data, recVars, unlimited, faults>>

-----------------------------------------------------------------------------

Recorder(r) ==
    \/ TakeLock(r) \/ LockBusy(r) \/ ScanOldRuns(r) \/ RefuseOldRuns(r)
    \/ \E o \in Runs : RecoverArchive(r, o) \/ WarnArchive(r, o)
    \/ MakeRun(r) \/ NoRoomForRun(r) \/ OpenSink(r) \/ NoRoomForSink(r)
    \/ TakeRow(r) \/ RowFails(r) \/ TakeEnd(r) \/ AppendTail(r) \/ TailFails(r)
    \/ FinishSink(r) \/ FinishFails(r)
    \/ WriteTemp(r) \/ LinkStatus(r) \/ UnlinkTemp(r) \/ RenameStatus(r) \/ SyncRun(r)
    \/ RemovePartial(r) \/ SyncClean(r) \/ StatusFails(r)

Next ==
    \/ \E r \in Runs : Recorder(r) \/ Kill(r)
    \/ PowerLoss
    \/ \E r \in Runs, via \in Vias : Inspect(r, via)
    \/ ReadPartial \/ ReadComplete \/ InspectRecovers \/ Visit

\* Every recorder is a thread that runs, and producers end.
Spec == Init /\ [][Next]_vars /\ \A r \in Runs : WF_vars(Recorder(r))

-----------------------------------------------------------------------------
(* Properties                                                               *)

StatusType == [state : {"none", "in-progress", "failed", "complete"},
               links : 0..2, size : Nat]
DirType == [made : BOOLEAN, partial : StatusType, complete : StatusType,
            temp : Nat, data : BOOLEAN]

\* The files of the root, two names of one file counted once, never exceed the
\* largest max_bytes a recorder was started with, statuses and temporary files included,
\* unless an inspection has recovered without a limit, a status outgrew its
\* reserve, or a second failure follows the first: a power loss after a failed
\* sync of the directory brings back names that were already given up.
RootWithinLimit ==
    \/ unlimited \/ faults > 1
    \/ \E r \in Runs : 1 + reports[r] > StatusReserve
    \/ MapThenSumSet(LAMBDA r : dir[r].temp + dir[r].partial.size + dir[r].complete.size
                                + data[r].bytes, Runs) <= Max({MaxBytes[r] : r \in {o \in Runs : pc[o] # "idle"}} \cup {0})

\* Types and sizes; the rows framed are among those kept, those among the rows taken.
TypeOK ==
    /\ lock \in Runs \cup {None}
    /\ \A r \in Runs : /\ dir[r] \in DirType /\ dir[r] \in crashDirs[r]
                       /\ 0 <= data[r].framed /\ data[r].framed <= data[r].rows
                       /\ data[r].rows <= got[r]
    /\ \A r \in Runs : Active(r) <=> lock = r
    /\ RootWithinLimit

\* Whatever a power loss leaves at any instant: where there is a
\* complete.json, the producer ended in order and every row it delivered is in
\* an immutable frame, and no failed status stands beside it.  And data never
\* lies in a run directory without a status: an inspection takes a run without
\* partial.json for a whole one.
StatusTrue ==
    \A r \in Runs : \A d \in crashDirs[r] :
        /\ d.complete # NoStatus =>
            /\ ended[r] = "end" /\ ~failed[r]
            /\ data[r].framed = got[r]
            /\ d.partial.state # "failed"
        /\ d.data => d.partial # NoStatus \/ d.complete # NoStatus

\* An inspection that looks at the statuses of a run and does not call it
\* incomplete has read every row that the run's producer delivered, and the
\* producer ended in order (partial_recording_error beside a recorder at any
\* step).  Raw segments found under a root are read without a look.
VerdictTrue ==
    insp.pc = "done" /\ ~insp.incomplete /\ LooksBeside(insp.run, insp.via) =>
        /\ ended[insp.run] = "end"
        /\ insp.seen = got[insp.run]

\* Older runs stop a recorder only if a process died or failed between the
\* hard link and the unlink of publish_status, or if a status outgrew what a
\* reader takes: no other leftover does.
RefusedOnlyForLeftover ==
    \A r, o \in Runs : pc[r] = "scan" /\ Blocking(o) =>
        \/ dir[o].partial.links = 2 \/ dir[o].complete.links = 2
        \/ dir[o].complete.size > StatusReserve
        \/ dir[o].partial.size > StatusReserve

\* A start is refused for no other leftover; and after its recovery every
\* older binary run that is not complete has all it kept in immutable frames,
\* unless a warning was reported for it.
StartRecovers ==
    /\ RefusedOnlyForLeftover
    /\ \A r \in Runs : pc[r] \in {"writeTemp", "openSink", "loop"} =>
        \A o \in (Runs \ Raw) \ {r} :
            data[o].rows > data[o].framed => o \in warned[r]

\* A recorder that has the lock returns or is killed, whatever fails.
RecorderEnds == \A r \in Runs : (lock = r) ~> (lock # r)
=============================================================================
