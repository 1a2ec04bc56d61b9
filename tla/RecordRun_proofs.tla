-------------------------- MODULE RecordRun_proofs --------------------------
(***************************************************************************)
(* What the statuses of the runs say is true, for any number of recorders  *)
(* and inspections, rows, limits and failures, and whatever a power loss   *)
(* leaves; and the root they share stays within their limits.              *)
(***************************************************************************)
EXTENDS RecordRun, FiniteSetTheorems, WellFoundedInduction, TLAPS

-----------------------------------------------------------------------------
(* The inductive invariant                                                  *)

Labels == {"idle", "scan", "refused", "recover", "writeTemp", "link", "unlinkTemp", "rename",
           "syncRun", "openSink", "loop", "tail", "finish", "removePartial", "syncClean",
           "over", "dead"}

Data == [rows : Nat, framed : Nat, bytes : Int]

Typed ==
    /\ pc \in [Runs -> Labels] /\ lock \in Runs \cup {None}
    /\ dir \in [Runs -> DirType] /\ crashDirs \in [Runs -> SUBSET DirType]
    /\ data \in [Runs -> Data]
    /\ got \in [Runs -> Nat] /\ ended \in [Runs -> {"running", "end", "error", "closed"}]
    /\ failed \in [Runs -> BOOLEAN]
    /\ todo \in [Runs -> SUBSET Runs] /\ warned \in [Runs -> SUBSET Runs]
    /\ reports \in [Runs -> Nat]
    /\ status \in [Runs -> {"none", "in-progress", "failed", "complete"}]
    /\ insp \in [pc : {"idle", "partial", "complete", "visit", "done"}, run : Runs \cup {None},
                 via : {"run", "root"}, incomplete : BOOLEAN, seen : Nat]

\* One recorder is at work, the one that holds the lock.
Locked == \A r \in Runs : Active(r) <=> lock = r

\* Which status a recorder is publishing at each of its steps.
StatusAt(r) ==
    /\ pc[r] \in {"idle", "scan", "recover"} => status[r] = "none"
    /\ pc[r] \in {"openSink", "loop", "tail", "finish"} => status[r] = "in-progress"
    /\ pc[r] \in {"writeTemp", "syncRun"} => status[r] # "none"
    /\ pc[r] \in {"link", "unlinkTemp"} => status[r] \in {"in-progress", "complete"}
    /\ pc[r] = "rename" => status[r] = "failed"
    /\ pc[r] \in {"removePartial", "syncClean"} => status[r] = "complete"

\* A recorder that has not failed has kept all it was given, in the end.
Outcome(r) ==
    /\ data[r].framed <= data[r].rows /\ data[r].rows <= got[r]
    /\ pc[r] \in {"tail", "finish"} /\ ~failed[r] => ended[r] = "end"
    /\ pc[r] = "finish" /\ ~failed[r] => data[r].rows = got[r]
    /\ status[r] = "complete" =>
          ended[r] = "end" /\ ~failed[r] /\ data[r].rows = got[r] /\ data[r].framed = got[r]

\* A status file as publish_status leaves it.
StatusFile(s) == IF s.state = "none" THEN s = NoStatus ELSE s.links \in {1, 2}

\* A directory that a power loss may leave of run r.
Names(r, d) ==
    /\ StatusFile(d.partial) /\ StatusFile(d.complete)
    /\ d.complete # NoStatus => status[r] = "complete"
    /\ d.partial.state = "failed" => status[r] = "failed"
    /\ d.data => d.partial # NoStatus \/ d.complete # NoStatus
    /\ data[r].rows # 0 => d.data

\* The status that has been published is there.
StatusThere(r) ==
    /\ pc[r] \in {"openSink", "loop", "tail", "finish"} => dir[r].partial # NoStatus
    /\ pc[r] \in {"unlinkTemp", "syncRun"} =>
          IF status[r] = "complete" THEN dir[r].complete # NoStatus ELSE dir[r].partial # NoStatus
    /\ pc[r] = "removePartial" => dir[r].complete # NoStatus

RunTrue(r) ==
    /\ StatusAt(r) /\ Outcome(r) /\ StatusThere(r)
    /\ dir[r] \in crashDirs[r] /\ \A d \in crashDirs[r] : Names(r, d)

\* What an active recorder has still to do for the older runs.
Recovered ==
    \A r \in Runs : Active(r) /\ pc[r] # "scan" =>
        /\ pc[r] # "recover" => todo[r] = {}
        /\ \A o \in (Runs \ Raw) \ {r} :
              data[o].rows > data[o].framed => o \in todo[r] \cup warned[r]

\* An inspection that has seen no partial.json, or a complete.json, reads a complete run.
Inspected ==
    /\ insp.pc # "idle" => insp.run \in Runs
    /\ insp.pc = "partial" => dir[insp.run].data
    /\ insp.pc \in {"visit", "done"} /\ ~insp.incomplete /\ LooksBeside(insp.run, insp.via) =>
          status[insp.run] = "complete"
    /\ insp.pc = "done" /\ ~insp.incomplete /\ LooksBeside(insp.run, insp.via) =>
          insp.seen = got[insp.run]

RInv == Typed /\ Locked /\ (\A r \in Runs : RunTrue(r)) /\ Recovered /\ Inspected

-----------------------------------------------------------------------------
(* Types                                                                    *)

\* The changes that are made to a run directory.
LEMMA DirChanges ==
    ASSUME NEW d \in DirType, NEW s \in StatusType, NEW n \in Nat
    PROVE  /\ [d EXCEPT !.made = TRUE] \in DirType
           /\ [d EXCEPT !.data = TRUE] \in DirType
           /\ [d EXCEPT !.temp = n] \in DirType
           /\ [d EXCEPT !.partial = s] \in DirType
           /\ [d EXCEPT !.partial = s, !.temp = 0] \in DirType
           /\ [d EXCEPT !.complete = s, !.temp = 0] \in DirType
           /\ [d EXCEPT !.partial.links = 1] \in DirType
           /\ [d EXCEPT !.complete.links = 1] \in DirType
<1>1. /\ [d EXCEPT !.made = TRUE] \in DirType
      /\ [d EXCEPT !.data = TRUE] \in DirType
      /\ [d EXCEPT !.temp = n] \in DirType
  BY DEF DirType
<1>2. /\ [d EXCEPT !.partial = s] \in DirType
      /\ [d EXCEPT !.partial = s, !.temp = 0] \in DirType
      /\ [d EXCEPT !.complete = s, !.temp = 0] \in DirType
  BY DEF DirType
<1>3. d.partial \in StatusType /\ d.complete \in StatusType BY DEF DirType
<1>4. /\ [d.partial EXCEPT !.links = 1] \in StatusType
      /\ [d.complete EXCEPT !.links = 1] \in StatusType
  BY <1>3 DEF StatusType
<1>5. /\ [d EXCEPT !.partial.links = 1] = [d EXCEPT !.partial = [d.partial EXCEPT !.links = 1]]
      /\ [d EXCEPT !.complete.links = 1] = [d EXCEPT !.complete = [d.complete EXCEPT !.links = 1]]
  BY DEF DirType
<1>6. /\ [d EXCEPT !.partial.links = 1] \in DirType
      /\ [d EXCEPT !.complete.links = 1] \in DirType
  BY <1>4, <1>5 DEF DirType
<1> QED BY <1>1, <1>2, <1>6

\* Change and Sync keep the types of the directories.
LEMMA ChangeTypes ==
    ASSUME Typed, NEW r \in Runs
    PROVE  /\ \A e \in DirType : Change(r, e) => /\ dir' \in [Runs -> DirType]
                                                  /\ crashDirs' \in [Runs -> SUBSET DirType]
           /\ Sync(r) => /\ dir' \in [Runs -> DirType]
                         /\ crashDirs' \in [Runs -> SUBSET DirType]
<1>1. ASSUME NEW e \in DirType, Change(r, e)
      PROVE  dir' \in [Runs -> DirType] /\ crashDirs' \in [Runs -> SUBSET DirType]
  <2>1. dir \in [Runs -> DirType] /\ crashDirs \in [Runs -> SUBSET DirType] BY DEF Typed
  <2>2. dir' = [dir EXCEPT ![r] = e] /\ crashDirs' = [crashDirs EXCEPT ![r] = @ \cup {e}]
    BY <1>1 DEF Change
  <2> QED BY <2>1, <2>2
<1>2. ASSUME Sync(r)
      PROVE  dir' \in [Runs -> DirType] /\ crashDirs' \in [Runs -> SUBSET DirType]
  <2>1. dir \in [Runs -> DirType] /\ crashDirs \in [Runs -> SUBSET DirType] BY DEF Typed
  <2>2. dir' = dir /\ crashDirs' = [crashDirs EXCEPT ![r] = {dir[r]}] BY <1>2 DEF Sync
  <2> QED BY <2>1, <2>2
<1> QED BY <1>1, <1>2

\* A status is published as it was written.
LEMMA PublishedType ==
    ASSUME Typed, NEW r \in Runs, NEW n \in {1, 2}
    PROVE  Published(r, n) \in StatusType
BY DEF Typed, Published, StatusType, DirType

\* The directory of a run.
LEMMA DirTyped ==
    ASSUME Typed, NEW r \in Runs
    PROVE  /\ dir[r] \in DirType /\ data[r] \in Data
           /\ [dir[r] EXCEPT !.made = TRUE] \in DirType
           /\ [dir[r] EXCEPT !.data = TRUE] \in DirType
           /\ [dir[r] EXCEPT !.temp = 0] \in DirType
           /\ [dir[r] EXCEPT !.partial.links = 1] \in DirType
           /\ [dir[r] EXCEPT !.complete.links = 1] \in DirType
           /\ [dir[r] EXCEPT !.partial = NoStatus] \in DirType
           /\ reports[r] \in Nat
<1>1. dir[r] \in DirType /\ data[r] \in Data /\ reports[r] \in Nat BY DEF Typed
<1>2. NoStatus \in StatusType BY DEF NoStatus, StatusType
<1> QED BY <1>1, <1>2, DirChanges

\* A recovered archive has its rows framed.
LEMMA FramedTypes ==
    ASSUME Typed, NEW o \in Runs, NEW growth \in Growth,
           NEW new, new = [data EXCEPT ![o].framed = data[o].rows, ![o].bytes = @ + growth - 1]
    PROVE  /\ new \in [Runs -> Data]
           /\ new[o].rows = data[o].rows /\ new[o].framed = data[o].rows
           /\ \A q \in Runs \ {o} : new[q] = data[q]
<1> DEFINE e == [rows |-> data[o].rows, framed |-> data[o].rows,
                 bytes |-> data[o].bytes + growth - 1]
<1>1. growth \in Int BY RunAssumption
<1>2. data \in [Runs -> Data] /\ data[o] \in Data BY DEF Typed
<1>3. e \in Data BY <1>1, <1>2 DEF Data
<1>4. new = [data EXCEPT ![o] = e]
  <2>1. data[o] = [rows |-> data[o].rows, framed |-> data[o].framed, bytes |-> data[o].bytes]
    BY <1>2 DEF Data
  <2> DEFINE mid == [rows |-> data[o].rows, framed |-> data[o].rows, bytes |-> data[o].bytes]
  <2>2. [data[o] EXCEPT !.framed = data[o].rows] = mid BY <2>1
  <2>3. [data EXCEPT ![o].framed = data[o].rows] = [data EXCEPT ![o] = mid] BY <2>2
  <2>4. [mid EXCEPT !.bytes = @ + growth - 1] = e OBVIOUS
  <2> HIDE DEF mid, e
  <2>5. [[data EXCEPT ![o] = mid] EXCEPT ![o].bytes = @ + growth - 1] = [data EXCEPT ![o] = e]
    BY <1>2, <2>4
  <2>6. new = [[data EXCEPT ![o].framed = data[o].rows] EXCEPT ![o].bytes = @ + growth - 1]
    OBVIOUS
  <2> QED BY <2>3, <2>5, <2>6
<1> QED BY <1>2, <1>3, <1>4

\* An append keeps the types.
LEMMA AppendTypes ==
    ASSUME Typed, NEW r \in Runs, Appends(r)
    PROVE  /\ dir' \in [Runs -> DirType] /\ crashDirs' \in [Runs -> SUBSET DirType]
           /\ data' \in [Runs -> Data]
<1>1. PICK growth \in Growth, seal \in BOOLEAN :
         /\ data' = [data EXCEPT ![r] =
               [rows |-> got[r], framed |-> IF seal \/ r \in Raw THEN got[r] ELSE @.framed,
                bytes |-> @.bytes + growth]]
         /\ dir' = [dir EXCEPT ![r].data = TRUE]
         /\ crashDirs' = [crashDirs EXCEPT ![r] = {dir'[r]}]
  BY DEF Appends
<1>2. growth \in Int BY RunAssumption
<1>3. [dir[r] EXCEPT !.data = TRUE] \in DirType BY DirTyped
<1>4. dir' \in [Runs -> DirType]
  <2>1. dir' = [dir EXCEPT ![r] = [dir[r] EXCEPT !.data = TRUE]] BY <1>1
  <2> QED BY <1>3, <2>1 DEF Typed
<1>5. crashDirs' \in [Runs -> SUBSET DirType] BY <1>1, <1>4 DEF Typed
<1>6. data' \in [Runs -> Data]
  BY <1>1, <1>2 DEF Typed, Data
<1> QED BY <1>4, <1>5, <1>6

\* A recorder's step keeps the types.
LEMMA RecorderTypes ==
    ASSUME Typed, NEW r \in Runs, Recorder(r)
    PROVE  Typed'
<1> USE DEF Goto, Return, recVars
<1>1. CASE TakeLock(r) \/ LockBusy(r) \/ RefuseOldRuns(r) \/ NoRoomForRun(r) \/ NoRoomForSink(r)
  BY <1>1 DEF TakeLock, LockBusy, RefuseOldRuns, NoRoomForRun, NoRoomForSink, Typed, Labels
<1>2. CASE ScanOldRuns(r)
  BY <1>2 DEF ScanOldRuns, Typed, Labels
<1>3. CASE \E o \in Runs : RecoverArchive(r, o)
  <2>1. PICK o \in Runs, growth \in Growth :
           /\ data' = [data EXCEPT ![o].framed = data[o].rows, ![o].bytes = @ + growth - 1]
           /\ RecoverArchive(r, o)
    BY <1>3 DEF RecoverArchive
  <2>3. data' \in [Runs -> Data] BY <2>1, FramedTypes
  <2> QED BY <2>1, <2>3 DEF RecoverArchive, Typed
<1>4. CASE \E o \in Runs : WarnArchive(r, o)
  BY <1>4 DEF WarnArchive, Typed
<1>5. CASE MakeRun(r)
  <2>1. [dir[r] EXCEPT !.made = TRUE] \in DirType BY DirTyped
  <2> QED BY <1>5, <2>1, ChangeTypes DEF MakeRun, Typed, Labels
<1>6. CASE OpenSink(r)
  <2>1. [dir[r] EXCEPT !.data = TRUE] \in DirType BY DirTyped
  <2>2. data' \in [Runs -> Data]
    <3>1. [data[r] EXCEPT !.bytes = 1] \in Data
      <4>1. data[r] \in Data BY DirTyped
      <4> QED BY <4>1 DEF Data
    <3>2. data' = data \/ data' = [data EXCEPT ![r] = [data[r] EXCEPT !.bytes = 1]]
      BY <1>6 DEF OpenSink
    <3> QED BY <3>1, <3>2 DEF Typed
  <2>3. dir' \in [Runs -> DirType]
    <3>1. dir' = dir \/ dir' = [dir EXCEPT ![r] = [dir[r] EXCEPT !.data = TRUE]]
      BY <1>6 DEF OpenSink
    <3> QED BY <2>1, <3>1 DEF Typed
  <2>4. crashDirs' \in [Runs -> SUBSET DirType] BY <1>6, <2>3 DEF OpenSink, Typed
  <2> QED BY <1>6, <2>2, <2>3, <2>4 DEF OpenSink, Typed, Labels
<1>7. CASE TakeRow(r)
  <2>1. /\ dir' \in [Runs -> DirType] /\ crashDirs' \in [Runs -> SUBSET DirType]
        /\ data' \in [Runs -> Data]
    BY <1>7, AppendTypes DEF TakeRow, Typed
  <2>2. got' \in [Runs -> Nat] BY <1>7 DEF TakeRow, Typed
  <2> QED BY <1>7, <2>1, <2>2 DEF TakeRow, Typed
<1>8. CASE AppendTail(r)
  <2>1. /\ dir' \in [Runs -> DirType] /\ crashDirs' \in [Runs -> SUBSET DirType]
        /\ data' \in [Runs -> Data]
    BY <1>8, AppendTypes DEF AppendTail, Typed
  <2> QED BY <1>8, <2>1 DEF AppendTail, Typed, Labels
<1>9. CASE RowFails(r) \/ TakeEnd(r) \/ TailFails(r) \/ FinishSink(r) \/ FinishFails(r)
  <2>1. CASE RowFails(r) BY <2>1 DEF RowFails, Typed, Labels
  <2>4. CASE TailFails(r) BY <2>4 DEF TailFails, Typed, Labels
  <2>5. CASE FinishFails(r) BY <2>5 DEF FinishFails, Typed, Labels
  <2>2. CASE TakeEnd(r) BY <2>2 DEF TakeEnd, Typed, Labels
  <2>3. CASE FinishSink(r)
    <3>1. data' \in [Runs -> Data] BY <2>3 DEF FinishSink, Typed, Data
    <3> QED BY <2>3, <3>1 DEF FinishSink, Typed, Labels
  <2> QED BY <1>9, <2>1, <2>2, <2>3, <2>4, <2>5
<1>10. CASE WriteTemp(r)
  <2>1. StatusSize(r) \in Nat BY DEF StatusSize, Typed
  <2>2. [dir[r] EXCEPT !.temp = StatusSize(r)] \in DirType
    <3>1. dir[r] \in DirType BY DirTyped
    <3>2. NoStatus \in StatusType BY DEF NoStatus, StatusType
    <3> QED BY <2>1, <3>1, <3>2, DirChanges
  <2> QED BY <1>10, <2>2, ChangeTypes DEF WriteTemp, Typed, Labels
<1>11. CASE LinkStatus(r)
  <2>1. dir[r] \in DirType /\ Published(r, 2) \in StatusType BY PublishedType DEF Typed
  <2>2. /\ [dir[r] EXCEPT !.complete = Published(r, 2), !.temp = 0] \in DirType
        /\ [dir[r] EXCEPT !.partial = Published(r, 2), !.temp = 0] \in DirType
    BY <2>1, DirChanges
  <2> QED BY <1>11, <2>2, ChangeTypes DEF LinkStatus, Typed, Labels
<1>12. CASE UnlinkTemp(r)
  <2>1. /\ [dir[r] EXCEPT !.complete.links = 1] \in DirType
        /\ [dir[r] EXCEPT !.partial.links = 1] \in DirType
    BY DirTyped
  <2> QED BY <1>12, <2>1, ChangeTypes DEF UnlinkTemp, Typed, Labels
<1>13. CASE RenameStatus(r)
  <2>1. dir[r] \in DirType /\ Published(r, 1) \in StatusType BY PublishedType DEF Typed
  <2>2. [dir[r] EXCEPT !.partial = Published(r, 1), !.temp = 0] \in DirType
    BY <2>1, DirChanges
  <2> QED BY <1>13, <2>2, ChangeTypes DEF RenameStatus, Typed, Labels
<1>14. CASE SyncRun(r) \/ SyncClean(r)
  <2>1. dir' \in [Runs -> DirType] /\ crashDirs' \in [Runs -> SUBSET DirType]
    BY <1>14, ChangeTypes DEF SyncRun, SyncClean
  <2>2. pc' \in [Runs -> Labels] /\ lock' \in Runs \cup {None}
    BY <1>14 DEF SyncRun, SyncClean, Typed, Labels
  <2> QED BY <1>14, <2>1, <2>2 DEF SyncRun, SyncClean, Typed
<1>15. CASE RemovePartial(r)
  <2>2. [dir[r] EXCEPT !.partial = NoStatus] \in DirType BY DirTyped
  <2> QED BY <1>15, <2>2, ChangeTypes DEF RemovePartial, Typed, Labels
<1>16. CASE StatusFails(r)
  <2>1. /\ [dir[r] EXCEPT !.complete.links = 1] \in DirType
        /\ [dir[r] EXCEPT !.partial.links = 1] \in DirType
        /\ [dir[r] EXCEPT !.temp = 0] \in DirType
    BY DirTyped
  <2>2. dir' \in [Runs -> DirType] /\ crashDirs' \in [Runs -> SUBSET DirType]
    BY <1>16, <2>1, ChangeTypes DEF StatusFails, Typed
  <2> QED BY <1>16, <2>2 DEF StatusFails, Typed, Labels
<1> QED
  BY <1>1, <1>2, <1>3, <1>4, <1>5, <1>6, <1>7, <1>8, <1>9, <1>10, <1>11, <1>12, <1>13, <1>14,
     <1>15, <1>16 DEF Recorder

\* So do the end of a process and an inspection.
LEMMA OtherTypes ==
    ASSUME Typed, Inspected,
                  \/ \E r \in Runs : Kill(r)
                  \/ PowerLoss
                  \/ \E r \in Runs, via \in Vias : Inspect(r, via)
                  \/ ReadPartial \/ ReadComplete \/ InspectRecovers \/ Visit
    PROVE  Typed'
<1> USE DEF recVars
<1>1. CASE \E r \in Runs : Kill(r)
  BY <1>1 DEF Kill, Goto, Typed, Labels
<1>2. CASE PowerLoss
  <2>1. /\ \A q \in Runs : dir'[q] \in DirType
        /\ \E S : dir' \in [Runs -> S]
    BY <1>2 DEF PowerLoss, Typed
  <2>2. dir' \in [Runs -> DirType] BY <2>1
  <2>3. crashDirs' \in [Runs -> SUBSET DirType] BY <1>2, <2>2 DEF PowerLoss
  <2>4. pc' \in [Runs -> Labels] BY <1>2 DEF PowerLoss, Typed, Labels
  <2>5. insp' = Idle /\ lock' = None BY <1>2 DEF PowerLoss
  <2>6. insp' \in [pc : {"idle", "partial", "complete", "visit", "done"}, run : Runs \cup {None},
                    via : {"run", "root"}, incomplete : BOOLEAN, seen : Nat]
    BY <2>5 DEF Idle
  <2> QED BY <1>2, <2>2, <2>3, <2>4, <2>5, <2>6 DEF PowerLoss, Typed
<1>3. CASE \E r \in Runs, via \in Vias : Inspect(r, via)
  <2>1. PICK r \in Runs, via \in Vias :
           Inspect(r, via) /\ insp' = [Idle EXCEPT !.pc = "partial", !.run = r, !.via = via]
    BY <1>3 DEF Inspect
  <2>2. via \in {"run", "root"} BY RunAssumption
  <2>3. insp' = [pc |-> "partial", run |-> r, via |-> via, incomplete |-> FALSE, seen |-> 0]
    BY <2>1 DEF Idle
  <2>4. insp' \in [pc : {"idle", "partial", "complete", "visit", "done"}, run : Runs \cup {None},
                    via : {"run", "root"}, incomplete : BOOLEAN, seen : Nat]
    BY <2>2, <2>3
  <2> QED BY <2>1, <2>4 DEF Inspect, Typed
<1>4. CASE ReadPartial
  BY <1>4 DEF ReadPartial, Idle, Typed
<1>5. CASE ReadComplete
  BY <1>5 DEF ReadComplete, Idle, Typed
<1>6. CASE InspectRecovers
  <2>1. PICK o \in Runs : o = insp.run BY <1>6 DEF InspectRecovers, Inspected
  <2>2. PICK growth \in Growth :
           data' = [data EXCEPT ![o].framed = data[o].rows, ![o].bytes = @ + growth - 1]
    BY <1>6, <2>1 DEF InspectRecovers
  <2>3. data' \in [Runs -> Data] BY <2>2, FramedTypes
  <2> QED BY <1>6, <2>3 DEF InspectRecovers, Typed
<1>7. CASE Visit
  <2>1. insp.run \in Runs /\ data[insp.run].rows \in Nat
    BY <1>7 DEF Visit, Typed, Inspected, Data
  <2> QED BY <1>7, <2>1 DEF Visit, Typed
<1> QED BY <1>1, <1>2, <1>3, <1>4, <1>5, <1>6, <1>7

-----------------------------------------------------------------------------
(* What a step does to the other runs                                       *)

\* Nothing of run o changes but that its rows may be framed by a recovery.
Untouched(o) ==
    /\ pc'[o] = pc[o] /\ dir'[o] = dir[o] /\ crashDirs'[o] = crashDirs[o]
    /\ got'[o] = got[o] /\ ended'[o] = ended[o] /\ failed'[o] = failed[o]
    /\ status'[o] = status[o]
    /\ data'[o].rows = data[o].rows
    /\ data'[o].framed \in {data[o].framed, data[o].rows}

\* What is known of a run stays true while it is left alone.
LEMMA UntouchedTrue ==
    ASSUME Typed, NEW o \in Runs, RunTrue(o), Untouched(o)
    PROVE  RunTrue(o)'
<1>1. data[o].rows \in Nat /\ data[o].framed \in Nat /\ got[o] \in Nat BY DEF Typed, Data
<1>2. StatusAt(o)' BY DEF RunTrue, StatusAt, Untouched
<1>3. Outcome(o)' BY <1>1 DEF RunTrue, Outcome, Untouched
<1>4. StatusThere(o)' BY DEF RunTrue, StatusThere, Untouched
<1>5. (dir[o] \in crashDirs[o] /\ \A d \in crashDirs[o] : Names(o, d))'
  BY DEF RunTrue, Names, Untouched
<1> QED BY <1>2, <1>3, <1>4, <1>5 DEF RunTrue

\* A recorder leaves the other runs alone.
LEMMA OthersUntouched ==
    ASSUME Typed, NEW r \in Runs, Recorder(r), NEW o \in Runs \ {r}
    PROVE  Untouched(o)
<1> USE DEF Untouched, Goto, Return, recVars
<1>1. CASE TakeLock(r) \/ LockBusy(r) \/ RefuseOldRuns(r) \/ NoRoomForRun(r) \/ NoRoomForSink(r)
  BY <1>1 DEF TakeLock, LockBusy, RefuseOldRuns, NoRoomForRun, NoRoomForSink, Typed
<1>2. CASE ScanOldRuns(r) \/ \E q \in Runs : WarnArchive(r, q)
  BY <1>2 DEF ScanOldRuns, WarnArchive, Typed
<1>3. CASE \E q \in Runs : RecoverArchive(r, q)
  <2>1. PICK q \in Runs, growth \in Growth :
           /\ data' = [data EXCEPT ![q].framed = data[q].rows, ![q].bytes = @ + growth - 1]
           /\ RecoverArchive(r, q)
    BY <1>3 DEF RecoverArchive
  <2>2. data'[o].rows = data[o].rows /\ data'[o].framed \in {data[o].framed, data[o].rows}
    BY <2>1, FramedTypes
  <2> QED BY <2>1, <2>2 DEF RecoverArchive
<1>4. CASE MakeRun(r) BY <1>4 DEF MakeRun, Change, Typed
<1>5. CASE OpenSink(r) BY <1>5 DEF OpenSink, Typed
<1>6. CASE TakeRow(r) BY <1>6 DEF TakeRow, Appends, Typed
<1>7. CASE AppendTail(r) BY <1>7 DEF AppendTail, Appends, Typed
<1>8. CASE RowFails(r) \/ TakeEnd(r) \/ TailFails(r)
  BY <1>8 DEF RowFails, TakeEnd, TailFails, Typed
<1>9. CASE FinishSink(r) \/ FinishFails(r)
  BY <1>9 DEF FinishSink, FinishFails, Typed
<1>10. CASE WriteTemp(r) \/ LinkStatus(r) \/ RenameStatus(r) \/ RemovePartial(r)
  BY <1>10 DEF WriteTemp, LinkStatus, RenameStatus, RemovePartial, Change, Typed
<1>11. CASE UnlinkTemp(r) BY <1>11 DEF UnlinkTemp, Change, Typed
<1>12. CASE SyncRun(r) \/ SyncClean(r) BY <1>12 DEF SyncRun, SyncClean, Sync, Typed
<1>13. CASE StatusFails(r) BY <1>13 DEF StatusFails, Change, Typed
<1> QED
  BY <1>1, <1>2, <1>3, <1>4, <1>5, <1>6, <1>7, <1>8, <1>9, <1>10, <1>11, <1>12, <1>13
  DEF Recorder

-----------------------------------------------------------------------------
(* What a recorder does to its own run                                      *)

\* One more directory that a power loss may leave.
LEMMA NamesChange ==
    ASSUME Typed, NEW r \in Runs, RunTrue(r), NEW e, Change(r, e), Names(r, e)',
           status'[r] = status[r], data'[r].rows = data[r].rows
    PROVE  (dir[r] \in crashDirs[r] /\ \A d \in crashDirs[r] : Names(r, d))' /\ dir'[r] = e
<1>1. dir'[r] = e /\ crashDirs'[r] = crashDirs[r] \cup {e} BY DEF Change, Typed
<1>2. \A d \in crashDirs[r] : Names(r, d)' BY DEF RunTrue, Names
<1> QED BY <1>1, <1>2

\* A call of publish_status keeps what is known of its run.
LEMMA PublishingTrue ==
    ASSUME Typed, NEW r \in Runs, RunTrue(r),
           \/ WriteTemp(r) \/ LinkStatus(r) \/ UnlinkTemp(r) \/ RenameStatus(r) \/ SyncRun(r)
           \/ RemovePartial(r) \/ SyncClean(r) \/ StatusFails(r)
    PROVE  RunTrue(r)'
<1> DEFINE d == dir[r]
<1>1. /\ d \in DirType /\ d \in crashDirs[r] /\ Names(r, d)
      /\ d.partial \in StatusType /\ d.complete \in StatusType /\ d.temp \in Nat
  BY DirTyped DEF RunTrue, DirType
<1>2. /\ data' = data /\ got' = got /\ ended' = ended /\ failed' = failed /\ status' = status
      /\ pc' \in [Runs -> Labels \cup {"over"}]
  BY DEF WriteTemp, LinkStatus, UnlinkTemp, RenameStatus, SyncRun, RemovePartial, SyncClean,
         StatusFails, recVars, Goto, Return, Typed, Labels
<1>3. pc[r] \in {"writeTemp", "link", "unlinkTemp", "rename", "syncRun", "removePartial", "syncClean"}
  BY DEF WriteTemp, LinkStatus, UnlinkTemp, RenameStatus, SyncRun, RemovePartial, SyncClean,
         StatusFails
<1>4. ASSUME StatusAt(r)', StatusThere(r)',
             (dir[r] \in crashDirs[r] /\ \A f \in crashDirs[r] : Names(r, f))',
             pc'[r] \notin {"tail", "finish"}
      PROVE  RunTrue(r)'
  <2>1. Outcome(r)' BY <1>2, <1>4 DEF RunTrue, Outcome
  <2> QED BY <1>4, <2>1 DEF RunTrue
<1>5. ASSUME NEW e, e.partial = d.partial, e.complete = d.complete, e.data = d.data
      PROVE  Names(r, e)'
  BY <1>1, <1>2, <1>5 DEF Names
<1>6. CASE WriteTemp(r)
  <2> PICK e : e = [d EXCEPT !.temp = StatusSize(r)] OBVIOUS
  <2>1. Change(r, e) /\ pc'[r] = (IF status[r] = "failed" THEN "rename" ELSE "link")
    BY <1>6 DEF WriteTemp, Goto, Typed
  <2>2. e.partial = d.partial /\ e.complete = d.complete /\ e.data = d.data
    BY <1>1 DEF DirType
  <2>3. Names(r, e)' BY <1>5, <2>2
  <2>4. (dir[r] \in crashDirs[r] /\ \A f \in crashDirs[r] : Names(r, f))'
    BY <1>2, <2>1, <2>3, NamesChange
  <2>5. StatusAt(r)' /\ StatusThere(r)'
    BY <1>2, <1>6, <2>1 DEF WriteTemp, RunTrue, StatusAt, StatusThere, Typed
  <2> QED BY <1>4, <2>1, <2>4, <2>5
<1>7. CASE LinkStatus(r)
  <2> PICK s : s = Published(r, 2) OBVIOUS
  <2> PICK e : e = IF status[r] = "complete" THEN [d EXCEPT !.complete = s, !.temp = 0]
                                             ELSE [d EXCEPT !.partial = s, !.temp = 0]
    OBVIOUS
  <2>1. Change(r, e) /\ pc[r] = "link" /\ pc'[r] = "unlinkTemp"
    BY <1>7 DEF LinkStatus, Goto, Typed
  <2>2. s.state = status[r] /\ s.links = 2 /\ status[r] \in {"in-progress", "complete"}
    BY <2>1 DEF Published, RunTrue, StatusAt
  <2>3. /\ e.data = d.data
        /\ status[r] = "complete" => e.complete = s /\ e.partial = d.partial
        /\ status[r] # "complete" => e.partial = s /\ e.complete = d.complete
    BY <1>1 DEF DirType
  <2>4. s # NoStatus /\ StatusFile(s) BY <2>2 DEF NoStatus, StatusFile
  <2>5. Names(r, e)' BY <1>1, <1>2, <2>2, <2>3, <2>4 DEF Names
  <2>6. (dir[r] \in crashDirs[r] /\ \A f \in crashDirs[r] : Names(r, f))' /\ dir'[r] = e
    BY <1>2, <2>1, <2>5, NamesChange
  <2>7. StatusAt(r)' /\ StatusThere(r)'
    BY <1>2, <2>1, <2>2, <2>3, <2>4, <2>6 DEF StatusAt, StatusThere
  <2> QED BY <1>4, <2>1, <2>6, <2>7
<1>8. CASE pc[r] = "unlinkTemp" /\ Change(r, IF status[r] = "complete"
                                             THEN [dir[r] EXCEPT !.complete.links = 1]
                                             ELSE [dir[r] EXCEPT !.partial.links = 1])
                                /\ pc'[r] \in {"syncRun", "over"}
  <2> PICK e : e = IF status[r] = "complete" THEN [d EXCEPT !.complete.links = 1]
                                             ELSE [d EXCEPT !.partial.links = 1]
    OBVIOUS
  <2>1. Change(r, e) BY <1>8
  <2>2. /\ status[r] \in {"in-progress", "complete"}
        /\ IF status[r] = "complete" THEN d.complete # NoStatus ELSE d.partial # NoStatus
    BY <1>8 DEF RunTrue, StatusAt, StatusThere
  <2>3. /\ e.data = d.data
        /\ status[r] = "complete" => /\ e.complete = [d.complete EXCEPT !.links = 1]
                                     /\ e.partial = d.partial
        /\ status[r] # "complete" => /\ e.partial = [d.partial EXCEPT !.links = 1]
                                     /\ e.complete = d.complete
    BY <1>1 DEF DirType
  <2>4. ASSUME NEW s \in StatusType, s # NoStatus, StatusFile(s),
               NEW t, t = [s EXCEPT !.links = 1]
        PROVE  t # NoStatus /\ StatusFile(t) /\ t.state = s.state
    BY <2>4 DEF StatusFile, NoStatus, StatusType
  <2>5. Names(r, e)'
    <3>1. CASE status[r] = "complete"
      <4>1. e.complete # NoStatus /\ StatusFile(e.complete) /\ e.partial = d.partial
        BY <1>1, <2>2, <2>3, <2>4, <3>1 DEF Names
      <4> QED BY <1>1, <1>2, <2>3, <3>1, <4>1 DEF Names
    <3>2. CASE status[r] # "complete"
      <4>1. /\ e.partial # NoStatus /\ StatusFile(e.partial) /\ e.complete = d.complete
            /\ e.partial.state = d.partial.state
        BY <1>1, <2>2, <2>3, <2>4, <3>2 DEF Names
      <4> QED BY <1>1, <1>2, <2>3, <3>2, <4>1 DEF Names
    <3> QED BY <3>1, <3>2
  <2>6. (dir[r] \in crashDirs[r] /\ \A f \in crashDirs[r] : Names(r, f))' /\ dir'[r] = e
    BY <1>2, <2>1, <2>5, NamesChange
  <2>7. IF status[r] = "complete" THEN e.complete # NoStatus ELSE e.partial # NoStatus
    BY <1>1, <2>2, <2>3, <2>4 DEF Names
  <2>8. StatusAt(r)' /\ StatusThere(r)'
    BY <1>2, <1>8, <2>2, <2>6, <2>7 DEF StatusAt, StatusThere
  <2> QED BY <1>4, <1>8, <2>6, <2>8
<1>9. CASE RenameStatus(r)
  <2> PICK s : s = Published(r, 1) OBVIOUS
  <2> PICK e : e = [d EXCEPT !.partial = s, !.temp = 0] OBVIOUS
  <2>1. Change(r, e) /\ pc[r] = "rename" /\ pc'[r] = "syncRun"
    BY <1>9 DEF RenameStatus, Goto, Typed
  <2>2. s.state = "failed" /\ s.links = 1 /\ status[r] = "failed"
    BY <2>1 DEF Published, RunTrue, StatusAt
  <2>3. e.data = d.data /\ e.partial = s /\ e.complete = d.complete
    BY <1>1 DEF DirType
  <2>4. s # NoStatus /\ StatusFile(s) BY <2>2 DEF NoStatus, StatusFile
  <2>5. Names(r, e)' BY <1>1, <1>2, <2>2, <2>3, <2>4 DEF Names
  <2>6. (dir[r] \in crashDirs[r] /\ \A f \in crashDirs[r] : Names(r, f))' /\ dir'[r] = e
    BY <1>2, <2>1, <2>5, NamesChange
  <2>7. StatusAt(r)' /\ StatusThere(r)'
    BY <1>2, <2>1, <2>2, <2>3, <2>4, <2>6 DEF StatusAt, StatusThere
  <2> QED BY <1>4, <2>1, <2>6, <2>7
<1>10. CASE SyncRun(r) \/ SyncClean(r)
  <2>1. dir' = dir /\ crashDirs'[r] = {d}
    BY <1>10 DEF SyncRun, SyncClean, Sync, Typed
  <2>2. (dir[r] \in crashDirs[r] /\ \A f \in crashDirs[r] : Names(r, f))'
    BY <1>1, <1>2, <2>1 DEF Names
  <2>3. \/ pc'[r] = "over"
        \/ pc[r] = "syncRun" /\ status[r] = "in-progress" /\ pc'[r] = "openSink"
        \/ pc[r] = "syncRun" /\ status[r] = "complete" /\ pc'[r] = "removePartial"
    BY <1>10 DEF SyncRun, SyncClean, Goto, Return, Typed
  <2>4. StatusAt(r)' /\ StatusThere(r)'
    BY <1>2, <2>1, <2>3 DEF RunTrue, StatusAt, StatusThere
  <2> QED BY <1>4, <2>2, <2>3, <2>4
<1>11. CASE RemovePartial(r)
  <2> PICK e : e = [d EXCEPT !.partial = NoStatus] OBVIOUS
  <2>1. Change(r, e) /\ pc[r] = "removePartial" /\ pc'[r] = "syncClean"
    BY <1>11 DEF RemovePartial, Goto, Typed
  <2>2. d.complete # NoStatus /\ status[r] = "complete"
    BY <2>1 DEF RunTrue, StatusAt, StatusThere
  <2>3. e.data = d.data /\ e.partial = NoStatus /\ e.complete = d.complete
    BY <1>1 DEF DirType
  <2>4. NoStatus.state = "none" BY DEF NoStatus
  <2>5. Names(r, e)' BY <1>1, <1>2, <2>2, <2>3, <2>4 DEF Names, StatusFile
  <2>6. (dir[r] \in crashDirs[r] /\ \A f \in crashDirs[r] : Names(r, f))'
    BY <1>2, <2>1, <2>5, NamesChange
  <2>7. StatusAt(r)' /\ StatusThere(r)' BY <1>2, <2>1, <2>2 DEF StatusAt, StatusThere
  <2> QED BY <1>4, <2>1, <2>6, <2>7
<1>12. CASE StatusFails(r)
  <2>1. pc'[r] = "over" BY <1>12 DEF StatusFails, Return, Goto, Typed
  <2>2. StatusAt(r)' /\ StatusThere(r)' BY <2>1 DEF StatusAt, StatusThere
  <2>3. CASE Change(r, [dir[r] EXCEPT !.temp = 0])
    <3> PICK e : e = [d EXCEPT !.temp = 0] OBVIOUS
    <3>1. e.partial = d.partial /\ e.complete = d.complete /\ e.data = d.data
      BY <1>1 DEF DirType
    <3>2. Names(r, e)' BY <1>5, <3>1
    <3>3. Change(r, e) BY <2>3
    <3>4. (dir[r] \in crashDirs[r] /\ \A f \in crashDirs[r] : Names(r, f))'
      BY <1>2, <3>2, <3>3, NamesChange
    <3> QED BY <1>4, <2>1, <2>2, <3>4
  <2>4. CASE dir' = dir /\ crashDirs' = crashDirs
    <3>1. (dir[r] \in crashDirs[r] /\ \A f \in crashDirs[r] : Names(r, f))'
      BY <1>1, <1>2, <2>4 DEF RunTrue, Names
    <3> QED BY <1>4, <2>1, <2>2, <3>1
  <2> QED BY <1>8, <1>12, <2>1, <2>3, <2>4 DEF StatusFails
<1>13. CASE UnlinkTemp(r)
  <2>1. pc[r] = "unlinkTemp" /\ pc'[r] = "syncRun" BY <1>13 DEF UnlinkTemp, Goto, Typed
  <2> QED BY <1>8, <1>13, <2>1 DEF UnlinkTemp
<1> QED BY <1>6, <1>7, <1>9, <1>10, <1>11, <1>12, <1>13

\* A sink is opened and fed under a status in progress.
LEMMA AppendTrue ==
    ASSUME Typed, NEW r \in Runs, RunTrue(r), Appends(r), status' = status,
           pc[r] \in {"loop", "tail"}
    PROVE  /\ (dir[r] \in crashDirs[r] /\ \A d \in crashDirs[r] : Names(r, d))'
           /\ dir'[r].partial = dir[r].partial
           /\ data'[r].rows = got[r] /\ data'[r].framed <= got[r]
<1>1. PICK growth \in Growth, seal \in BOOLEAN :
         /\ data' = [data EXCEPT ![r] =
               [rows |-> got[r], framed |-> IF seal \/ r \in Raw THEN got[r] ELSE @.framed,
                bytes |-> @.bytes + growth]]
         /\ dir' = [dir EXCEPT ![r].data = TRUE]
         /\ crashDirs' = [crashDirs EXCEPT ![r] = {dir'[r]}]
  BY DEF Appends
<1>2. PICK e : e = [dir[r] EXCEPT !.data = TRUE] OBVIOUS
<1>3. dir[r] \in DirType /\ Names(r, dir[r]) /\ dir[r].partial # NoStatus
  BY DirTyped DEF RunTrue, StatusThere
<1>4. e.partial = dir[r].partial /\ e.complete = dir[r].complete /\ e.data = TRUE
  BY <1>2, <1>3 DEF DirType
<1>5. dir'[r] = e /\ crashDirs'[r] = {e} BY <1>1, <1>2 DEF Typed
<1>6. Names(r, e)' BY <1>3, <1>4 DEF Names
<1>7. /\ data'[r].rows = got[r]
      /\ data'[r].framed = got[r] \/ data'[r].framed = data[r].framed
  BY <1>1 DEF Typed
<1>8. data[r].framed \in Nat /\ data[r].rows \in Nat /\ got[r] \in Nat
      /\ data[r].framed <= data[r].rows /\ data[r].rows <= got[r]
  BY DEF Typed, Data, RunTrue, Outcome
<1> QED BY <1>4, <1>5, <1>6, <1>7, <1>8

\* The steps before and after the rows, which leave the directory and the data alone.
LEMMA QuietTrue ==
    ASSUME Typed, NEW r \in Runs, RunTrue(r),
           \/ TakeLock(r) \/ LockBusy(r) \/ ScanOldRuns(r) \/ RefuseOldRuns(r)
           \/ NoRoomForRun(r) \/ NoRoomForSink(r)
           \/ RowFails(r) \/ TakeEnd(r) \/ TailFails(r) \/ FinishFails(r)
    PROVE  RunTrue(r)'
<1> USE DEF recVars, Goto, Return
<1>1. dir' = dir /\ crashDirs' = crashDirs /\ data' = data /\ got' = got
  BY DEF TakeLock, LockBusy, ScanOldRuns, RefuseOldRuns, NoRoomForRun, NoRoomForSink, RowFails,
         TakeEnd, TailFails, FinishFails
<1>2. Names(r, dir[r]) /\ \A d \in crashDirs[r] : Names(r, d) BY DEF RunTrue
<1>3. CASE TakeLock(r) \/ LockBusy(r) \/ ScanOldRuns(r) \/ RefuseOldRuns(r)
           \/ NoRoomForRun(r) \/ NoRoomForSink(r)
  <2>1. /\ ended' = ended /\ failed' = failed /\ status' = status
        /\ \/ pc[r] = "idle" /\ pc'[r] \in {"scan", "over"}
           \/ pc[r] = "scan" /\ pc'[r] \in {"recover", "refused"}
           \/ pc'[r] = "over"
    BY <1>3 DEF TakeLock, LockBusy, ScanOldRuns, RefuseOldRuns, NoRoomForRun, NoRoomForSink, Typed
  <2>2. StatusAt(r)' BY <2>1 DEF RunTrue, StatusAt
  <2>3. Outcome(r)' /\ StatusThere(r)'
    BY <1>1, <2>1 DEF RunTrue, Outcome, StatusThere
  <2>4. (dir[r] \in crashDirs[r] /\ \A d \in crashDirs[r] : Names(r, d))'
    BY <1>1, <2>1 DEF RunTrue, Names
  <2> QED BY <2>2, <2>3, <2>4 DEF RunTrue
<1>4. CASE RowFails(r) \/ TakeEnd(r) \/ TailFails(r)
  <2>1. /\ status' = status /\ pc[r] \in {"loop", "tail"}
        /\ pc'[r] \in {"tail", "finish"}
        /\ pc'[r] = "finish" => failed'[r]
        /\ ~failed'[r] => ended'[r] = "end"
    BY <1>4 DEF RowFails, TakeEnd, TailFails, Typed
  <2>2. status[r] = "in-progress" /\ dir[r].partial # NoStatus
    BY <2>1 DEF RunTrue, StatusAt, StatusThere
  <2>3. StatusAt(r)' /\ StatusThere(r)' BY <1>1, <2>1, <2>2 DEF StatusAt, StatusThere
  <2>4. Outcome(r)' BY <1>1, <2>1, <2>2 DEF RunTrue, Outcome
  <2>5. (dir[r] \in crashDirs[r] /\ \A d \in crashDirs[r] : Names(r, d))'
    BY <1>1, <2>1 DEF RunTrue, Names
  <2> QED BY <2>3, <2>4, <2>5 DEF RunTrue
<1>5. CASE FinishFails(r)
  <2>1. pc[r] = "finish" /\ pc'[r] = "writeTemp" /\ status'[r] = "failed"
    BY <1>5 DEF FinishFails, Typed
  <2>2. status[r] = "in-progress" BY <2>1 DEF RunTrue, StatusAt
  <2>3. StatusAt(r)' /\ StatusThere(r)' BY <2>1 DEF StatusAt, StatusThere
  <2>4. Outcome(r)' BY <1>1, <2>1 DEF RunTrue, Outcome
  <2>5. (dir[r] \in crashDirs[r] /\ \A d \in crashDirs[r] : Names(r, d))'
    BY <1>1, <2>1, <2>2 DEF RunTrue, Names
  <2> QED BY <2>3, <2>4, <2>5 DEF RunTrue
<1> QED BY <1>3, <1>4, <1>5

\* What a recorder's step keeps true of its own run.
LEMMA OwnTrue ==
    ASSUME Typed, NEW r \in Runs, RunTrue(r), Recorder(r)
    PROVE  RunTrue(r)'
<1> USE DEF recVars, Goto
<1>1. CASE \E o \in Runs : RecoverArchive(r, o)
  <2>1. PICK q \in Runs, growth \in Growth :
           /\ data' = [data EXCEPT ![q].framed = data[q].rows, ![q].bytes = @ + growth - 1]
           /\ RecoverArchive(r, q)
    BY <1>1 DEF RecoverArchive
  <2>2. data'[r].rows = data[r].rows /\ data'[r].framed \in {data[r].framed, data[r].rows}
    BY <2>1, FramedTypes
  <2>3. Untouched(r) BY <2>1, <2>2 DEF RecoverArchive, Untouched
  <2> QED BY <2>3, UntouchedTrue
<1>2. CASE \E o \in Runs : WarnArchive(r, o)
  <2>1. Untouched(r) BY <1>2 DEF WarnArchive, Untouched
  <2> QED BY <2>1, UntouchedTrue
<1>3. CASE MakeRun(r)
  <2> PICK e : e = [dir[r] EXCEPT !.made = TRUE] OBVIOUS
  <2>1. /\ dir'[r] = e /\ crashDirs'[r] = crashDirs[r] \cup {e}
        /\ pc[r] = "recover" /\ pc'[r] = "writeTemp" /\ status'[r] = "in-progress"
        /\ data' = data /\ got' = got /\ ended' = ended /\ failed' = failed
    BY <1>3 DEF MakeRun, Change, Typed
  <2>2. status[r] = "none" BY <2>1 DEF RunTrue, StatusAt
  <2>3. \A d \in crashDirs[r] : Names(r, d)' BY <2>1, <2>2 DEF RunTrue, Names
  <2>4. e.partial = dir[r].partial /\ e.complete = dir[r].complete /\ e.data = dir[r].data
    BY DirTyped DEF DirType
  <2>5. Names(r, e)' BY <2>1, <2>2, <2>4 DEF RunTrue, Names
  <2>6. StatusAt(r)' /\ StatusThere(r)' BY <2>1 DEF StatusAt, StatusThere
  <2>7. Outcome(r)' BY <2>1 DEF RunTrue, Outcome
  <2> QED BY <2>1, <2>3, <2>5, <2>6, <2>7 DEF RunTrue
<1>4. CASE OpenSink(r)
  <2>1. /\ pc[r] = "openSink" /\ pc'[r] = "loop" /\ status' = status
        /\ got' = got /\ ended' = ended /\ failed' = failed
        /\ data'[r].rows = data[r].rows /\ data'[r].framed = data[r].framed
    BY <1>4 DEF OpenSink, Typed, Data
  <2>2. status[r] = "in-progress" /\ Names(r, dir[r]) /\ dir[r].partial # NoStatus
    BY <2>1 DEF RunTrue, StatusAt, StatusThere
  <2>3. /\ dir'[r].partial = dir[r].partial
        /\ (dir[r] \in crashDirs[r] /\ \A d \in crashDirs[r] : Names(r, d))'
    <3>1. CASE dir' = dir /\ crashDirs' = crashDirs
      BY <2>1, <3>1 DEF RunTrue, Names
    <3>2. CASE dir' = [dir EXCEPT ![r].data = TRUE]
               /\ crashDirs' = [crashDirs EXCEPT ![r] = {dir'[r]}]
      <4> PICK e : e = [dir[r] EXCEPT !.data = TRUE] OBVIOUS
      <4>1. e.partial = dir[r].partial /\ e.complete = dir[r].complete /\ e.data = TRUE
        BY DirTyped DEF DirType
      <4>2. dir'[r] = e /\ crashDirs'[r] = {e} BY <3>2 DEF Typed
      <4>3. Names(r, e)' BY <2>1, <2>2, <4>1 DEF Names
      <4> QED BY <4>1, <4>2, <4>3
    <3> QED BY <1>4, <3>1, <3>2 DEF OpenSink
  <2>4. StatusAt(r)' /\ StatusThere(r)' BY <2>1, <2>2, <2>3 DEF StatusAt, StatusThere
  <2>5. Outcome(r)' BY <2>1, <2>2 DEF RunTrue, Outcome
  <2> QED BY <2>3, <2>4, <2>5 DEF RunTrue
<1>5. CASE TakeRow(r)
  <2>1. /\ pc[r] = "loop" /\ pc' = pc /\ status' = status /\ got'[r] = got[r] + 1
        /\ ended' = ended /\ failed' = failed
    BY <1>5 DEF TakeRow, Typed
  <2>2. status[r] = "in-progress" /\ dir[r].partial # NoStatus
    BY <2>1 DEF RunTrue, StatusAt, StatusThere
  <2>3. /\ data[r].framed \in Nat /\ data[r].rows \in Nat /\ got[r] \in Nat
        /\ data[r].framed <= data[r].rows /\ data[r].rows <= got[r]
    BY DEF Typed, Data, RunTrue, Outcome
  <2>4. CASE Appends(r)
    <3>1. /\ (dir[r] \in crashDirs[r] /\ \A d \in crashDirs[r] : Names(r, d))'
          /\ dir'[r].partial = dir[r].partial
          /\ data'[r].rows = got[r] /\ data'[r].framed <= got[r]
      BY <2>1, <2>4, AppendTrue
    <3>2. data'[r].framed <= data'[r].rows /\ data'[r].rows <= got'[r] BY <2>1, <2>3, <3>1
    <3>3. Outcome(r)' BY <2>1, <2>2, <3>2 DEF Outcome
    <3>4. StatusAt(r)' /\ StatusThere(r)' BY <2>1, <2>2, <3>1 DEF StatusAt, StatusThere
    <3> QED BY <3>1, <3>3, <3>4 DEF RunTrue
  <2>5. CASE UNCHANGED <<dir, crashDirs, data>>
    <3>1. data[r].rows <= got'[r] BY <2>1, <2>3
    <3>2. Outcome(r)' BY <2>1, <2>2, <2>3, <2>5, <3>1 DEF Outcome
    <3>3. StatusAt(r)' /\ StatusThere(r)' BY <2>1, <2>2, <2>5 DEF StatusAt, StatusThere
    <3>4. (dir[r] \in crashDirs[r] /\ \A d \in crashDirs[r] : Names(r, d))'
      BY <2>1, <2>5 DEF RunTrue, Names
    <3> QED BY <3>2, <3>3, <3>4 DEF RunTrue
  <2> QED BY <1>5, <2>4, <2>5 DEF TakeRow
<1>6. CASE AppendTail(r)
  <2>1. /\ pc[r] = "tail" /\ pc'[r] = "finish" /\ status' = status /\ got' = got
        /\ ended' = ended /\ failed' = failed
    BY <1>6 DEF AppendTail, Typed
  <2>2. /\ status[r] = "in-progress" /\ dir[r].partial # NoStatus
        /\ ~failed[r] => ended[r] = "end"
    BY <2>1 DEF RunTrue, StatusAt, StatusThere, Outcome
  <2>3. /\ data[r].framed \in Nat /\ data[r].rows \in Nat /\ got[r] \in Nat
        /\ data[r].framed <= data[r].rows /\ data[r].rows <= got[r]
    BY DEF Typed, Data, RunTrue, Outcome
  <2>4. /\ (dir[r] \in crashDirs[r] /\ \A d \in crashDirs[r] : Names(r, d))'
        /\ dir'[r].partial = dir[r].partial
        /\ data'[r].rows = got[r] /\ data'[r].framed <= got[r]
    <3>1. CASE data[r].rows < got[r]
      BY <1>6, <2>1, <3>1, AppendTrue DEF AppendTail
    <3>2. CASE ~(data[r].rows < got[r])
      <4>1. dir' = dir /\ crashDirs' = crashDirs /\ data' = data BY <1>6, <3>2 DEF AppendTail
      <4>2. (dir[r] \in crashDirs[r] /\ \A d \in crashDirs[r] : Names(r, d))'
        BY <2>1, <4>1 DEF RunTrue, Names
      <4>3. data[r].rows = got[r] BY <2>3, <3>2
      <4> QED BY <2>3, <4>1, <4>2, <4>3
    <3> QED BY <3>1, <3>2
  <2>5. data'[r].framed <= data'[r].rows /\ data'[r].rows <= got[r] BY <2>3, <2>4
  <2>6. Outcome(r)' BY <2>1, <2>2, <2>4, <2>5 DEF Outcome
  <2>7. StatusAt(r)' /\ StatusThere(r)' BY <2>1, <2>2, <2>4 DEF StatusAt, StatusThere
  <2> QED BY <2>4, <2>6, <2>7 DEF RunTrue
<1>7. CASE FinishSink(r)
  <2>1. /\ pc[r] = "finish" /\ pc'[r] = "writeTemp" /\ got' = got
        /\ ended' = ended /\ failed' = failed /\ dir' = dir /\ crashDirs' = crashDirs
        /\ status'[r] = (IF failed[r] THEN "failed" ELSE "complete")
        /\ data'[r].rows = data[r].rows /\ data'[r].framed = data[r].rows
    BY <1>7 DEF FinishSink, Typed, Data
  <2>2. status[r] = "in-progress" BY <2>1 DEF RunTrue, StatusAt
  <2>3. /\ data[r].rows \in Nat /\ data[r].rows <= got[r]
        /\ ~failed[r] => ended[r] = "end" /\ data[r].rows = got[r]
    BY <2>1 DEF Typed, Data, RunTrue, Outcome
  <2>4. data'[r].framed <= data'[r].rows /\ data'[r].rows <= got[r] BY <2>1, <2>3
  <2>5. Outcome(r)' BY <2>1, <2>3, <2>4 DEF Outcome
  <2>6. StatusAt(r)' /\ StatusThere(r)' BY <2>1 DEF StatusAt, StatusThere
  <2>7. (dir[r] \in crashDirs[r] /\ \A d \in crashDirs[r] : Names(r, d))'
    BY <2>1, <2>2 DEF RunTrue, Names
  <2> QED BY <2>5, <2>6, <2>7 DEF RunTrue
<1> QED
  BY <1>1, <1>2, <1>3, <1>4, <1>5, <1>6, <1>7, QuietTrue, PublishingTrue DEF Recorder

-----------------------------------------------------------------------------
(* The end of a process and an inspection                                   *)

\* A process that dies leaves its run as it is.
LEMMA KillTrue ==
    ASSUME Typed, NEW r \in Runs, Kill(r), NEW o \in Runs, RunTrue(o)
    PROVE  RunTrue(o)'
<1>1. /\ dir' = dir /\ crashDirs' = crashDirs /\ data' = data /\ got' = got /\ ended' = ended
      /\ failed' = failed /\ status' = status /\ (pc'[o] = pc[o] \/ pc'[o] = "dead")
  BY DEF Kill, Goto, recVars, Typed
<1>2. StatusAt(o)' BY <1>1 DEF RunTrue, StatusAt
<1>3. Outcome(o)' BY <1>1 DEF RunTrue, Outcome
<1>4. StatusThere(o)' BY <1>1 DEF RunTrue, StatusThere
<1>5. (dir[o] \in crashDirs[o] /\ \A d \in crashDirs[o] : Names(o, d))'
  BY <1>1 DEF RunTrue, Names
<1> QED BY <1>2, <1>3, <1>4, <1>5 DEF RunTrue

\* A power loss leaves a directory of which everything was known before.
LEMMA PowerLossTrue ==
    ASSUME Typed, PowerLoss, NEW o \in Runs, RunTrue(o)
    PROVE  RunTrue(o)'
<1>1. /\ data' = data /\ got' = got /\ ended' = ended /\ failed' = failed /\ status' = status
      /\ dir'[o] \in crashDirs[o] /\ crashDirs'[o] = {dir'[o]}
      /\ pc'[o] = (IF Active(o) THEN "dead" ELSE pc[o])
  BY DEF PowerLoss, recVars, Typed
<1>2. pc'[o] \in {"idle", "over", "dead", "refused"} /\ (pc'[o] = "idle" => pc[o] = "idle")
  BY <1>1 DEF Active
<1>3. StatusAt(o)' BY <1>1, <1>2 DEF RunTrue, StatusAt
<1>4. Outcome(o)' BY <1>1, <1>2 DEF RunTrue, Outcome
<1>5. StatusThere(o)' BY <1>2 DEF StatusThere
<1>6. PICK e \in crashDirs[o] : e = dir'[o] BY <1>1
<1>7. Names(o, e)' BY <1>1, <1>6 DEF RunTrue, Names
<1> QED BY <1>1, <1>3, <1>4, <1>5, <1>6, <1>7 DEF RunTrue

\* An inspection changes no run, but that it may recover one.
LEMMA InspectionUntouched ==
    ASSUME Typed, Inspected, NEW o \in Runs,
           \/ \E r \in Runs, via \in Vias : Inspect(r, via)
           \/ ReadPartial \/ ReadComplete \/ InspectRecovers \/ Visit
    PROVE  Untouched(o)
<1> USE DEF Untouched, recVars
<1>1. CASE InspectRecovers
  <2>1. PICK q \in Runs : q = insp.run BY <1>1 DEF InspectRecovers, Inspected
  <2>2. PICK growth \in Growth :
           data' = [data EXCEPT ![q].framed = data[q].rows, ![q].bytes = @ + growth - 1]
    BY <1>1, <2>1 DEF InspectRecovers
  <2>3. data'[o].rows = data[o].rows /\ data'[o].framed \in {data[o].framed, data[o].rows}
    BY <2>2, FramedTypes
  <2> QED BY <1>1, <2>3 DEF InspectRecovers
<1> QED BY <1>1 DEF Inspect, ReadPartial, ReadComplete, Visit

-----------------------------------------------------------------------------
(* One recorder at a time, and what it owes to the older runs               *)

\* A recorder works under its lock, and gives it back when it is done.
LEMMA RecorderLock ==
    ASSUME Typed, Locked, NEW r \in Runs, Recorder(r)
    PROVE  /\ Locked'
           /\ \A q \in Runs \ {r} : pc'[q] = pc[q]
           /\ \/ lock = r
              \/ pc'[r] \in {"scan", "over"} /\ UNCHANGED <<data, todo, warned>>
<1> USE DEF Goto, Return, recVars
<1>1. None \notin Runs BY RunAssumption
<1>2. CASE TakeLock(r) \/ LockBusy(r)
  BY <1>1, <1>2 DEF TakeLock, LockBusy, Typed, Locked, Active
<1>3. CASE ~(TakeLock(r) \/ LockBusy(r))
  <2>1. /\ Active(r) /\ \A q \in Runs \ {r} : pc'[q] = pc[q]
        /\ \/ pc'[r] \notin {"idle", "over", "dead", "refused"} /\ lock' = lock
           \/ pc'[r] \in {"over", "refused"} /\ lock' = None
    <3> USE DEF Active
    <3>1. CASE ScanOldRuns(r) \/ RefuseOldRuns(r) \/ NoRoomForRun(r) \/ NoRoomForSink(r)
      BY <3>1 DEF ScanOldRuns, RefuseOldRuns, NoRoomForRun, NoRoomForSink, Typed
    <3>2. CASE \E o \in Runs : RecoverArchive(r, o) \/ WarnArchive(r, o)
      BY <3>2 DEF RecoverArchive, WarnArchive, Typed
    <3>3. CASE MakeRun(r) \/ OpenSink(r)
      BY <3>3 DEF MakeRun, OpenSink, Typed
    <3>4. CASE TakeRow(r) \/ RowFails(r) \/ TakeEnd(r) \/ AppendTail(r) \/ TailFails(r)
      BY <3>4 DEF TakeRow, RowFails, TakeEnd, AppendTail, TailFails, Typed
    <3>5. CASE FinishSink(r) \/ FinishFails(r)
      BY <3>5 DEF FinishSink, FinishFails, Typed
    <3>6. CASE WriteTemp(r) \/ LinkStatus(r) \/ UnlinkTemp(r) \/ RenameStatus(r)
      BY <3>6 DEF WriteTemp, LinkStatus, UnlinkTemp, RenameStatus, Typed
    <3>7. CASE SyncRun(r) \/ RemovePartial(r) \/ SyncClean(r)
      BY <3>7 DEF SyncRun, RemovePartial, SyncClean, Typed
    <3>8. CASE StatusFails(r)
      BY <3>8 DEF StatusFails, Typed
    <3> QED BY <1>3, <3>1, <3>2, <3>3, <3>4, <3>5, <3>6, <3>7, <3>8 DEF Recorder
  <2>2. lock = r /\ \A q \in Runs \ {r} : ~Active(q) BY <2>1 DEF Locked
  <2>3. Active(r)' <=> lock' = r BY <1>1, <2>1, <2>2 DEF Active
  <2>4. \A q \in Runs \ {r} : ~Active(q)' /\ lock' # q BY <1>1, <2>1, <2>2 DEF Active
  <2>5. Locked' BY <2>3, <2>4 DEF Locked
  <2> QED BY <2>1, <2>2, <2>5
<1> QED BY <1>2, <1>3

\* No step but a row of the run itself leaves more rows outside the frames.
LEMMA FramesGrow ==
    ASSUME Typed, NEW o \in Runs, Untouched(o), data'[o].rows > data'[o].framed
    PROVE  data[o].rows > data[o].framed
<1>1. data[o].rows \in Nat /\ data[o].framed \in Nat BY DEF Typed, Data
<1> QED BY <1>1 DEF Untouched

\* A recorder recovers every older run, or reports it.
LEMMA RecoveredKept ==
    ASSUME RInv, NEW r \in Runs, Recorder(r)
    PROVE  Recovered'
<1> USE DEF recVars, Goto, Return
<1>0. Typed /\ Locked /\ Recovered /\ (\A o \in Runs : RunTrue(o)) BY DEF RInv
<1>1. /\ Locked' /\ \A q \in Runs \ {r} : pc'[q] = pc[q]
      /\ \/ lock = r
         \/ pc'[r] \in {"scan", "over"} /\ UNCHANGED <<data, todo, warned>>
  BY <1>0, RecorderLock
<1>2. \A o \in Runs \ {r} : Untouched(o) BY <1>0, OthersUntouched
<1>3. ASSUME NEW o \in Runs \ {r}, data'[o].rows > data'[o].framed
      PROVE  data[o].rows > data[o].framed
  BY <1>0, <1>2, <1>3, FramesGrow
<1>4. ASSUME NEW q \in Runs, Active(q)', pc'[q] # "scan"
      PROVE  /\ pc'[q] # "recover" => todo'[q] = {}
             /\ \A o \in (Runs \ Raw) \ {q} :
                   data'[o].rows > data'[o].framed => o \in todo'[q] \cup warned'[q]
  <2>1. CASE q # r
    <3>1. pc'[q] = pc[q] /\ Active(q) /\ lock = q
      BY <1>0, <1>1, <1>4, <2>1 DEF Active, Locked
    <3>2. UNCHANGED <<data, todo, warned>> BY <1>1, <2>1, <3>1
    <3> QED BY <1>0, <1>4, <3>1, <3>2 DEF Recovered
  <2>2. CASE q = r /\ lock # r
    BY <1>1, <1>4, <2>2 DEF Active
  <2>3. CASE q = r /\ lock = r
    <3>1. Active(r) BY <1>0, <2>3 DEF Locked
    <3>2. CASE ScanOldRuns(r)
      <4>1. pc'[r] = "recover" /\ todo'[r] = {o \in Runs : Interrupted(o)}
        BY <1>0, <3>2 DEF ScanOldRuns, Typed
      <4>2. ASSUME NEW o \in (Runs \ Raw) \ {r}, data'[o].rows > data'[o].framed
            PROVE  Interrupted(o)
        <5>1. data[o].rows > data[o].framed BY <1>3, <4>2
        <5>2. RunTrue(o) /\ data[o].rows \in Nat /\ data[o].framed \in Nat
          BY <1>0 DEF Typed, Data
        <5>3. data[o].rows # 0 /\ ~(data[o].rows = data[o].framed) BY <5>1, <5>2
        <5>4. Names(o, dir[o]) /\ status[o] # "complete"
          BY <5>2, <5>3 DEF RunTrue, Outcome
        <5>5. dir[o].data /\ dir[o].complete = NoStatus BY <5>3, <5>4 DEF Names
        <5> QED BY <5>1, <5>5 DEF Interrupted
      <4> QED BY <2>3, <4>1, <4>2
    <3>3. CASE \E o \in Runs : RecoverArchive(r, o)
      <4>1. PICK p \in Runs, growth \in Growth :
               /\ data' = [data EXCEPT ![p].framed = data[p].rows, ![p].bytes = @ + growth - 1]
               /\ RecoverArchive(r, p)
        BY <3>3 DEF RecoverArchive
      <4>2. data'[p].rows = data[p].rows /\ data'[p].framed = data[p].rows /\ data[p].rows \in Nat
        BY <1>0, <4>1, FramedTypes DEF Typed, Data
      <4>3. /\ pc[r] = "recover" /\ pc' = pc /\ warned' = warned /\ todo'[r] = todo[r] \ {p}
        BY <1>0, <4>1 DEF RecoverArchive, Typed
      <4>4. \A o \in (Runs \ Raw) \ {r} :
               data[o].rows > data[o].framed => o \in todo[r] \cup warned[r]
        BY <1>0, <3>1, <4>3 DEF Recovered
      <4>5. ~(data'[p].rows > data'[p].framed) BY <4>2
      <4> QED BY <1>3, <2>3, <4>3, <4>4, <4>5
    <3>4. CASE \E o \in Runs : WarnArchive(r, o)
      <4>1. PICK p \in Runs : WarnArchive(r, p) BY <3>4
      <4>2. /\ pc[r] = "recover" /\ pc' = pc /\ warned'[r] = warned[r] \cup {p}
            /\ todo'[r] = todo[r] \ {p} /\ data' = data
        BY <1>0, <4>1 DEF WarnArchive, Typed
      <4>4. \A o \in (Runs \ Raw) \ {r} :
               data[o].rows > data[o].framed => o \in todo[r] \cup warned[r]
        BY <1>0, <3>1, <4>2 DEF Recovered
      <4> QED BY <2>3, <4>2, <4>4
    <3>5. ASSUME pc[r] # "scan", todo' = todo, warned' = warned, pc'[r] # "recover",
                 pc[r] = "recover" => todo[r] = {}
          PROVE  /\ todo'[r] = {}
                 /\ \A o \in (Runs \ Raw) \ {r} :
                       data'[o].rows > data'[o].framed => o \in todo'[r] \cup warned'[r]
      BY <1>0, <1>3, <3>1, <3>5 DEF Recovered
    <3>6. CASE ~(ScanOldRuns(r) \/ \E o \in Runs : RecoverArchive(r, o) \/ WarnArchive(r, o))
      <4>1. /\ pc[r] # "scan" /\ todo' = todo /\ warned' = warned /\ pc'[r] # "recover"
            /\ pc[r] = "recover" => todo[r] = {}
        <5> USE <1>0, <1>4, <2>3, <3>1 DEF Active
        <5>1. CASE TakeLock(r) \/ LockBusy(r) \/ RefuseOldRuns(r) \/ NoRoomForRun(r)
                   \/ NoRoomForSink(r)
          BY <5>1 DEF TakeLock, LockBusy, RefuseOldRuns, NoRoomForRun, NoRoomForSink, Typed
        <5>2. CASE MakeRun(r) \/ OpenSink(r) BY <5>2 DEF MakeRun, OpenSink, Typed
        <5>3. CASE TakeRow(r) \/ RowFails(r) \/ TakeEnd(r) \/ AppendTail(r) \/ TailFails(r)
          BY <5>3 DEF TakeRow, RowFails, TakeEnd, AppendTail, TailFails, Typed
        <5>4. CASE FinishSink(r) \/ FinishFails(r)
          BY <5>4 DEF FinishSink, FinishFails, Typed
        <5>5. CASE WriteTemp(r) \/ LinkStatus(r) \/ UnlinkTemp(r) \/ RenameStatus(r)
          BY <5>5 DEF WriteTemp, LinkStatus, UnlinkTemp, RenameStatus, Typed
        <5>6. CASE SyncRun(r) \/ RemovePartial(r) \/ SyncClean(r)
          BY <5>6 DEF SyncRun, RemovePartial, SyncClean, Typed
        <5>7. CASE StatusFails(r) BY <5>7 DEF StatusFails, Typed
        <5> QED BY <3>6, <5>1, <5>2, <5>3, <5>4, <5>5, <5>6, <5>7 DEF Recorder
      <4> QED BY <2>3, <3>5, <4>1
    <3> QED BY <3>2, <3>3, <3>4, <3>6
  <2> QED BY <2>1, <2>2, <2>3
<1> QED BY <1>4 DEF Recovered, Active

-----------------------------------------------------------------------------
(* What an inspection has seen stays true                                   *)

\* A published completion is final, and data that is there stays there.
LEMMA CompleteStable ==
    ASSUME Typed, NEW r \in Runs, RunTrue(r), Recorder(r)
    PROVE  /\ insp' = insp
           /\ status[r] = "complete" => status'[r] = "complete" /\ got'[r] = got[r]
           /\ dir[r].data => dir'[r].data
<1> USE DEF recVars, Goto, Return, RunTrue, StatusAt
<1>1. dir[r] \in DirType BY DirTyped
<1>2. CASE TakeLock(r) \/ LockBusy(r) \/ ScanOldRuns(r) \/ RefuseOldRuns(r)
           \/ NoRoomForRun(r) \/ NoRoomForSink(r)
           \/ RowFails(r) \/ TakeEnd(r) \/ TailFails(r) \/ FinishFails(r) \/ FinishSink(r)
           \/ (\E o \in Runs : RecoverArchive(r, o) \/ WarnArchive(r, o))
  BY <1>2 DEF TakeLock, LockBusy, ScanOldRuns, RefuseOldRuns, NoRoomForRun, NoRoomForSink,
              RowFails, TakeEnd, TailFails, FinishFails, FinishSink, RecoverArchive, WarnArchive
<1>3. CASE MakeRun(r) \/ OpenSink(r)
  BY <1>1, <1>3 DEF MakeRun, OpenSink, Change, Typed, DirType
<1>4. CASE TakeRow(r) \/ AppendTail(r)
  BY <1>1, <1>4 DEF TakeRow, AppendTail, Appends, Typed, DirType
<1>5. ASSUME NEW e, Change(r, e), e.data = dir[r].data
      PROVE  dir[r].data => dir'[r].data
  BY <1>5 DEF Change, Typed
<1>6. CASE WriteTemp(r) \/ LinkStatus(r) \/ UnlinkTemp(r) \/ RenameStatus(r) \/ RemovePartial(r)
           \/ StatusFails(r)
  <2>1. insp' = insp /\ status' = status /\ got' = got
    BY <1>6 DEF WriteTemp, LinkStatus, UnlinkTemp, RenameStatus, RemovePartial, StatusFails
  <2>2. \A s, t : /\ [dir[r] EXCEPT !.temp = t].data = dir[r].data
                  /\ [dir[r] EXCEPT !.partial = s].data = dir[r].data
                  /\ [dir[r] EXCEPT !.partial = s, !.temp = 0].data = dir[r].data
                  /\ [dir[r] EXCEPT !.complete = s, !.temp = 0].data = dir[r].data
    BY <1>1 DEF DirType
  <2>3. /\ [dir[r] EXCEPT !.partial.links = 1].data = dir[r].data
        /\ [dir[r] EXCEPT !.complete.links = 1].data = dir[r].data
    BY <1>1 DEF DirType
  <2>4. dir' = dir \/ \E e : Change(r, e) /\ e.data = dir[r].data
    <3>1. CASE WriteTemp(r) BY <2>2, <3>1 DEF WriteTemp
    <3>2. CASE LinkStatus(r) BY <2>2, <3>2 DEF LinkStatus
    <3>3. CASE UnlinkTemp(r) BY <2>3, <3>3 DEF UnlinkTemp
    <3>4. CASE RenameStatus(r) BY <2>2, <3>4 DEF RenameStatus
    <3>5. CASE RemovePartial(r) BY <2>2, <3>5 DEF RemovePartial
    <3>6. CASE StatusFails(r) BY <2>2, <2>3, <3>6 DEF StatusFails
    <3> QED BY <1>6, <3>1, <3>2, <3>3, <3>4, <3>5, <3>6
  <2>5. dir[r].data => dir'[r].data BY <1>5, <2>4
  <2> QED BY <2>1, <2>5
<1>7. CASE SyncRun(r) \/ SyncClean(r) BY <1>7 DEF SyncRun, SyncClean, Sync
<1> QED BY <1>2, <1>3, <1>4, <1>6, <1>7 DEF Recorder

\* A recorder beside an inspection.
LEMMA RecorderInspected ==
    ASSUME RInv, NEW r \in Runs, Recorder(r)
    PROVE  Inspected'
<1>1. Typed /\ Inspected /\ RunTrue(r) BY DEF RInv
<1>2. /\ insp' = insp
      /\ status[r] = "complete" => status'[r] = "complete" /\ got'[r] = got[r]
      /\ dir[r].data => dir'[r].data
  BY <1>1, CompleteStable
<1>3. \A o \in Runs \ {r} : dir'[o] = dir[o] /\ status'[o] = status[o] /\ got'[o] = got[o]
  BY <1>1, OthersUntouched DEF Untouched
<1>4. \A o \in Runs : /\ status[o] = "complete" => status'[o] = "complete" /\ got'[o] = got[o]
                      /\ dir[o].data => dir'[o].data
  BY <1>2, <1>3
<1> QED BY <1>1, <1>2, <1>4 DEF Inspected, LooksBeside

\* A step of the inspection itself.
LEMMA InspectionInspected ==
    ASSUME RInv, \/ \E r \in Runs, via \in Vias : Inspect(r, via)
                 \/ ReadPartial \/ ReadComplete \/ InspectRecovers \/ Visit
    PROVE  Inspected'
<1> USE DEF recVars
<1>1. Typed /\ Inspected /\ \A o \in Runs : RunTrue(o) BY DEF RInv
<1>2. dir' = dir /\ status' = status /\ got' = got
  BY DEF Inspect, ReadPartial, ReadComplete, InspectRecovers, Visit
<1>3. CASE \E r \in Runs, via \in Vias : Inspect(r, via)
  <2>1. PICK r \in Runs, via \in Vias : Inspect(r, via) BY <1>3
  <2>2. insp' = [pc |-> "partial", run |-> r, via |-> via, incomplete |-> FALSE, seen |-> 0]
        /\ dir[r].data
    BY <2>1 DEF Inspect, Idle
  <2> QED BY <1>2, <2>2 DEF Inspected
<1>4. CASE ReadPartial
  <2>1. PICK o \in Runs : o = insp.run BY <1>1, <1>4 DEF ReadPartial, Inspected
  <2>2. dir[o].data /\ Names(o, dir[o]) BY <1>1, <1>4, <2>1 DEF ReadPartial, Inspected, RunTrue
  <2>3. CASE insp' = Idle BY <2>3 DEF Inspected, Idle
  <2>4. CASE LooksBeside(o, insp.via) /\ dir[o].partial = NoStatus
             /\ insp' = [insp EXCEPT !.pc = "visit"]
    <3>1. status[o] = "complete" BY <2>2, <2>4 DEF Names
    <3>2. insp'.pc = "visit" /\ insp'.run = o BY <1>1, <2>1, <2>4 DEF Typed
    <3> QED BY <1>2, <3>1, <3>2 DEF Inspected
  <2>5. CASE insp' = [insp EXCEPT !.pc = "complete"]
    <3>1. insp'.pc = "complete" /\ insp'.run = o BY <1>1, <2>1, <2>5 DEF Typed
    <3> QED BY <3>1 DEF Inspected
  <2>6. CASE ~LooksBeside(o, insp.via) /\ insp' = [insp EXCEPT !.pc = "visit"]
    <3>1. insp'.pc = "visit" /\ insp'.run = o /\ insp'.via = insp.via
      BY <1>1, <2>1, <2>6 DEF Typed
    <3> QED BY <2>6, <3>1 DEF Inspected, LooksBeside
  <2> QED BY <1>4, <2>1, <2>3, <2>4, <2>5, <2>6 DEF ReadPartial
<1>5. CASE ReadComplete
  <2>1. PICK o \in Runs : o = insp.run BY <1>1, <1>5 DEF ReadComplete, Inspected
  <2>2. Names(o, dir[o]) BY <1>1 DEF RunTrue
  <2>3. CASE insp' = Idle BY <2>3 DEF Inspected, Idle
  <2>4. CASE insp' = [insp EXCEPT !.pc = "visit", !.incomplete = (dir[o].complete = NoStatus)]
    <3>1. /\ insp'.pc = "visit" /\ insp'.run = o
          /\ insp'.incomplete <=> dir[o].complete = NoStatus
      BY <1>1, <2>1, <2>4 DEF Typed
    <3>2. ~insp'.incomplete => status[o] = "complete" BY <2>2, <3>1 DEF Names
    <3> QED BY <1>2, <3>1, <3>2 DEF Inspected
  <2> QED BY <1>5, <2>1, <2>3, <2>4 DEF ReadComplete
<1>6. CASE InspectRecovers
  <2>1. insp' = insp BY <1>6 DEF InspectRecovers
  <2> QED BY <1>1, <1>2, <2>1 DEF Inspected, LooksBeside
<1>7. CASE Visit
  <2>1. PICK o \in Runs : o = insp.run BY <1>1, <1>7 DEF Visit, Inspected
  <2>2. /\ insp'.pc = "done" /\ insp'.run = o /\ insp'.via = insp.via
        /\ insp'.incomplete = insp.incomplete /\ insp'.seen = data[o].rows
    BY <1>1, <1>7, <2>1 DEF Visit, Typed
  <2>3. ~insp.incomplete /\ LooksBeside(o, insp.via) => status[o] = "complete"
    BY <1>1, <1>7, <2>1 DEF Visit, Inspected
  <2>4. status[o] = "complete" => data[o].rows = got[o] BY <1>1 DEF RunTrue, Outcome
  <2> QED BY <1>2, <2>2, <2>3, <2>4 DEF Inspected, LooksBeside
<1> QED BY <1>3, <1>4, <1>5, <1>6, <1>7

-----------------------------------------------------------------------------
(* The statuses: theorems                                                   *)

LEMMA InitRInv == Init => RInv
<1> SUFFICES ASSUME Init PROVE RInv OBVIOUS
<1> USE DEF Init
<1>1. None \notin Runs BY RunAssumption
<1>2. NoStatus \in StatusType BY DEF NoStatus, StatusType
<1>3. NoDir \in DirType BY <1>2 DEF NoDir, DirType
<1>4. Typed BY <1>3 DEF Typed, Labels, Data, Idle
<1>5. Locked BY <1>1 DEF Locked, Active
<1>6. ASSUME NEW r \in Runs PROVE RunTrue(r)
  <2>1. StatusAt(r) /\ Outcome(r) /\ StatusThere(r) BY DEF StatusAt, Outcome, StatusThere
  <2>2. Names(r, NoDir) BY DEF Names, NoDir, NoStatus, StatusFile
  <2> QED BY <2>1, <2>2 DEF RunTrue
<1>7. Recovered BY DEF Recovered, Active
<1>8. Inspected BY DEF Inspected, Idle
<1> QED BY <1>4, <1>5, <1>6, <1>7, <1>8 DEF RInv

\* A process or the machine dies: nobody is at work, or the others are as they were.
LEMMA DeathRInv ==
    ASSUME RInv, (\E r \in Runs : Kill(r)) \/ PowerLoss
    PROVE  RInv'
<1>1. Typed /\ Locked /\ Recovered /\ Inspected /\ \A o \in Runs : RunTrue(o) BY DEF RInv
<1>2. Typed' BY <1>1, OtherTypes
<1>3. \A o \in Runs : RunTrue(o)' BY <1>1, KillTrue, PowerLossTrue
<1>4. Inspected'
  <2>1. CASE \E r \in Runs : Kill(r)
    BY <1>1, <2>1 DEF Kill, recVars, Inspected, LooksBeside
  <2>2. CASE PowerLoss BY <2>2 DEF PowerLoss, Inspected, Idle
  <2> QED BY <2>1, <2>2
<1>5. \A q \in Runs : ~Active(q)'
  <2>1. CASE \E r \in Runs : Kill(r)
    <3>1. PICK r \in Runs : Kill(r) BY <2>1
    <3>2. Active(r) /\ pc' = [pc EXCEPT ![r] = "dead"] BY <3>1 DEF Kill, Goto
    <3>3. \A q \in Runs \ {r} : ~Active(q) BY <1>1, <3>2 DEF Locked
    <3> QED BY <1>1, <3>2, <3>3 DEF Typed, Active
  <2>2. CASE PowerLoss BY <2>2 DEF PowerLoss, Active
  <2> QED BY <2>1, <2>2
<1>6. lock' = None /\ None \notin Runs BY RunAssumption DEF Kill, PowerLoss
<1>7. Locked' /\ Recovered' BY <1>5, <1>6 DEF Locked, Recovered, Active
<1> QED BY <1>2, <1>3, <1>4, <1>7 DEF RInv

\* An inspection beside the recorders.
LEMMA InspectionRInv ==
    ASSUME RInv, \/ \E r \in Runs, via \in Vias : Inspect(r, via)
                 \/ ReadPartial \/ ReadComplete \/ InspectRecovers \/ Visit
    PROVE  RInv'
<1>1. Typed /\ Locked /\ Recovered /\ Inspected /\ \A o \in Runs : RunTrue(o) BY DEF RInv
<1>2. Typed' BY <1>1, OtherTypes
<1>3. \A o \in Runs : Untouched(o) BY <1>1, InspectionUntouched
<1>4. \A o \in Runs : RunTrue(o)' BY <1>1, <1>3, UntouchedTrue
<1>5. Inspected' BY InspectionInspected
<1>6. pc' = pc /\ lock' = lock /\ todo' = todo /\ warned' = warned
  BY DEF Inspect, ReadPartial, ReadComplete, InspectRecovers, Visit, recVars
<1>7. Locked' BY <1>1, <1>6 DEF Locked, Active
<1>8. \A o \in Runs : data'[o].rows > data'[o].framed => data[o].rows > data[o].framed
  BY <1>1, <1>3, FramesGrow
<1>9. Recovered' BY <1>1, <1>6, <1>8 DEF Recovered, Active
<1> QED BY <1>2, <1>4, <1>5, <1>7, <1>9 DEF RInv

LEMMA NextRInv == RInv /\ [Next]_vars => RInv'
<1> SUFFICES ASSUME RInv, [Next]_vars PROVE RInv' OBVIOUS
<1>1. ASSUME NEW r \in Runs, Recorder(r) PROVE RInv'
  <2>1. Typed /\ Locked /\ Recovered /\ Inspected /\ \A o \in Runs : RunTrue(o) BY DEF RInv
  <2>2. Typed' BY <1>1, <2>1, RecorderTypes
  <2>3. Locked' BY <1>1, <2>1, RecorderLock
  <2>4. RunTrue(r)' BY <1>1, <2>1, OwnTrue
  <2>5. \A o \in Runs \ {r} : RunTrue(o)' BY <1>1, <2>1, OthersUntouched, UntouchedTrue
  <2>6. Recovered' BY <1>1, RecoveredKept
  <2>7. Inspected' BY <1>1, RecorderInspected
  <2> QED BY <2>2, <2>3, <2>4, <2>5, <2>6, <2>7 DEF RInv
<1>2. CASE UNCHANGED vars
  BY <1>2 DEF vars, recVars, RInv, Typed, Locked, RunTrue, StatusAt, Outcome, StatusThere, Names,
              Recovered, Inspected, Active, LooksBeside
<1> QED BY <1>1, <1>2, DeathRInv, InspectionRInv DEF Next

LEMMA AlwaysRInv == Spec => []RInv
BY InitRInv, NextRInv, PTL DEF Spec

\* Whatever a crash leaves, a complete.json is only ever beside a whole recording,
\* and data is never without a status (publish_status, consume_live).
THEOREM AlwaysStatusTrue == Spec => []StatusTrue
<1>1. RInv => StatusTrue
  <2> SUFFICES ASSUME RInv, NEW r \in Runs, NEW d \in crashDirs[r]
               PROVE  /\ d.complete # NoStatus =>
                            /\ ended[r] = "end" /\ ~failed[r]
                            /\ data[r].framed = got[r]
                            /\ d.partial.state # "failed"
                      /\ d.data => d.partial # NoStatus \/ d.complete # NoStatus
    BY DEF StatusTrue
  <2>1. Names(r, d) /\ Outcome(r) BY DEF RInv, RunTrue
  <2> QED BY <2>1 DEF Names, Outcome
<1> QED BY <1>1, AlwaysRInv, PTL

\* An inspection that calls a run complete has read all of it, whatever the
\* recorders did while it read (partial_recording_error).
THEOREM AlwaysVerdictTrue == Spec => []VerdictTrue
<1>1. RInv => VerdictTrue
  <2> SUFFICES ASSUME RInv, insp.pc = "done", ~insp.incomplete, LooksBeside(insp.run, insp.via)
               PROVE  ended[insp.run] = "end" /\ insp.seen = got[insp.run]
    BY DEF VerdictTrue
  <2>1. insp.run \in Runs /\ status[insp.run] = "complete" /\ insp.seen = got[insp.run]
    BY DEF RInv, Inspected
  <2> QED BY <2>1 DEF RInv, RunTrue, Outcome
<1> QED BY <1>1, AlwaysRInv, PTL

\* A recorder is refused only for the leftover of a publication that was cut or
\* for a status that outgrew its reserve, and has every older archive recovered
\* or reported before it writes (recover_owned_archives).
THEOREM AlwaysStartRecovers == Spec => []StartRecovers
<1>1. RInv => StartRecovers
  <2> SUFFICES ASSUME RInv PROVE StartRecovers OBVIOUS
  <2>1. RefusedOnlyForLeftover
    <3> SUFFICES ASSUME NEW o \in Runs, Blocking(o)
                 PROVE  \/ dir[o].partial.links = 2 \/ dir[o].complete.links = 2
                        \/ dir[o].complete.size > StatusReserve
                        \/ dir[o].partial.size > StatusReserve
      BY DEF RefusedOnlyForLeftover
    <3>1. Names(o, dir[o]) BY DEF RInv, RunTrue
    <3> QED BY <3>1 DEF Names, StatusFile, Blocking, Unreadable, NoStatus
  <2>2. ASSUME NEW r \in Runs, pc[r] \in {"writeTemp", "openSink", "loop"},
               NEW o \in (Runs \ Raw) \ {r}, data[o].rows > data[o].framed
        PROVE  o \in warned[r]
    BY <2>2 DEF RInv, Recovered, Active
  <2> QED BY <2>1, <2>2 DEF StartRecovers
<1> QED BY <1>1, AlwaysRInv, PTL

-----------------------------------------------------------------------------
(* Sums over the runs                                                       *)

\* Induction over the natural numbers, for a set instead of a predicate
LEMMA Induction ==
    ASSUME NEW T, 0 \in T, \A n \in Nat : n \in T => n + 1 \in T
    PROVE  Nat \subseteq T
<1> SUFFICES ASSUME Nat \ T # {} PROVE FALSE OBVIOUS
<1>1. PICK n \in Nat \ T : \A m \in Nat \ T : ~(<<m, n>> \in OpToRel(<, Nat))
  <2>1. IsWellFoundedOn(OpToRel(<, Nat), Nat) BY NatLessThanWellFounded
  <2> QED BY <2>1, Nat \ T \subseteq Nat, WFMin
<1>2. n - 1 \in Nat /\ n - 1 < n /\ (n - 1) + 1 = n
  <2>1. n # 0 OBVIOUS
  <2> QED BY <2>1
<1>3. n - 1 \notin T BY <1>2
<1>4. <<n - 1, n>> \in OpToRel(<, Nat) BY <1>2 DEF OpToRel
<1> QED BY <1>1, <1>2, <1>3, <1>4

\* The place of s the sum takes first
Pick(s) == CHOOSE x \in s : TRUE

\* g sums h over the subsets of S, as MapThenSumSet does.
Sums(g, h, S) == g = [s \in SUBSET S |-> IF s = {} THEN 0 ELSE h[Pick(s)] + g[s \ {Pick(s)}]]

\* Without the place taken first there is one less.
LEMMA Smaller ==
    ASSUME NEW S, IsFiniteSet(S), NEW s \in SUBSET S
    PROVE  /\ Cardinality(s) \in Nat /\ Cardinality(s) <= Cardinality(S)
           /\ Cardinality(s) = 0 => s = {}
           /\ s # {} => Pick(s) \in s /\ Cardinality(s \ {Pick(s)}) = Cardinality(s) - 1
<1>1. IsFiniteSet(s) /\ Cardinality(s) <= Cardinality(S) BY FS_Subset
<1>2. Cardinality(s) \in Nat BY <1>1, FS_CardinalityType
<1>3. s # {} => Pick(s) \in s BY DEF Pick
<1>4. s # {} => Cardinality(s \ {Pick(s)}) = Cardinality(s) - 1 BY <1>1, <1>3, FS_RemoveElement
<1>5. Cardinality(s) = 0 => s = {} BY <1>1, FS_EmptySet
<1> QED BY <1>1, <1>2, <1>3, <1>4, <1>5

\* There is such a sum.
LEMMA SumsExist ==
    ASSUME NEW h, NEW S, IsFiniteSet(S)
    PROVE  \E g : Sums(g, h, S)
<1> DEFINE next(g) == [s \in SUBSET S |-> IF s = {} THEN 0 ELSE h[Pick(s)] + g[s \ {Pick(s)}]]
           Good(g, n) == /\ g = [s \in SUBSET S |-> g[s]]
                         /\ \A s \in SUBSET S : Cardinality(s) <= n => g[s] = next(g)[s]
           T == {n \in Nat : \E g : Good(g, n)}
<1>1. \A s \in SUBSET S : /\ Cardinality(s) \in Nat /\ Cardinality(s) <= Cardinality(S)
                          /\ Cardinality(s) = 0 => s = {}
                          /\ s # {} => /\ s \ {Pick(s)} \in SUBSET S
                                       /\ Cardinality(s \ {Pick(s)}) = Cardinality(s) - 1
  BY Smaller
<1>2. 0 \in T
  <2> DEFINE g == [s \in SUBSET S |-> 0]
  <2>1. ASSUME NEW s \in SUBSET S, Cardinality(s) <= 0 PROVE s = {}
    <3>1. Cardinality(s) \in Nat /\ Cardinality(s) <= 0 BY <1>1, <2>1
    <3>2. Cardinality(s) = 0 BY <3>1
    <3> QED BY <1>1, <3>2
  <2>2. Good(g, 0) BY <2>1
  <2> QED BY <2>2
<1>3. ASSUME NEW n \in Nat, n \in T PROVE n + 1 \in T
  <2>1. PICK g : Good(g, n) BY <1>3
  <2> DEFINE k == next(g)
  <2>2. k = [s \in SUBSET S |-> k[s]] OBVIOUS
  <2>3. ASSUME NEW s \in SUBSET S, Cardinality(s) <= n + 1 PROVE k[s] = next(k)[s]
    <3>1. CASE s = {} BY <3>1
    <3>2. CASE s # {}
      <4> PICK t \in SUBSET S : t = s \ {Pick(s)} BY <1>1, <3>2
      <4>1. Cardinality(t) <= n BY <1>1, <2>3, <3>2
      <4>2. g[t] = next(g)[t] BY <2>1, <4>1
      <4>3. next(k)[s] = h[Pick(s)] + k[t] BY <3>2
      <4>4. k[s] = h[Pick(s)] + g[t] BY <3>2
      <4> QED BY <4>2, <4>3, <4>4
    <3> QED BY <3>1, <3>2
  <2>4. Good(k, n + 1) BY <2>2, <2>3
  <2> HIDE DEF Good, k
  <2> QED BY <2>4
<1>4. Cardinality(S) \in T
  <2>1. Cardinality(S) \in Nat BY FS_CardinalityType
  <2> HIDE DEF T
  <2> QED BY <2>1, <1>2, <1>3, Induction
<1>5. PICK g : Good(g, Cardinality(S)) BY <1>4
<1>6. \A s \in SUBSET S : g[s] = next(g)[s] BY <1>1, <1>5
<1>7. g = next(g) BY <1>5, <1>6
<1> QED BY <1>7 DEF Sums

\* What is nowhere more has no greater sum.
LEMMA SumsRise ==
    ASSUME NEW S, IsFiniteSet(S), NEW h \in [S -> Int], NEW k \in [S -> Int],
           \A x \in S : h[x] <= k[x], NEW f, NEW g, Sums(f, h, S), Sums(g, k, S)
    PROVE  f[S] \in Int /\ g[S] \in Int /\ f[S] <= g[S]
<1> DEFINE T == {n \in Nat : \A s \in SUBSET S : Cardinality(s) = n =>
                               f[s] \in Int /\ g[s] \in Int /\ f[s] <= g[s]}
<1>1. 0 \in T
  <2>1. \A s \in SUBSET S : Cardinality(s) = 0 => s = {} BY Smaller
  <2>2. f[{}] = 0 /\ g[{}] = 0 BY DEF Sums
  <2> QED BY <2>1, <2>2
<1>2. ASSUME NEW n \in Nat, n \in T PROVE n + 1 \in T
  <2> SUFFICES ASSUME NEW s \in SUBSET S, Cardinality(s) = n + 1
               PROVE  f[s] \in Int /\ g[s] \in Int /\ f[s] <= g[s]
    OBVIOUS
  <2>1. s # {} BY FS_EmptySet
  <2> PICK x \in S, t \in SUBSET S : x = Pick(s) /\ t = s \ {Pick(s)} BY <2>1, Smaller
  <2>2. f[s] = h[x] + f[t] /\ g[s] = k[x] + g[t] BY <2>1 DEF Sums
  <2>3. Cardinality(t) = n
    <3>1. Cardinality(t) = Cardinality(s) - 1 BY <2>1, Smaller
    <3> QED BY <3>1
  <2>4. f[t] \in Int /\ g[t] \in Int /\ f[t] <= g[t] BY <2>3, <1>2
  <2>5. h[x] \in Int /\ k[x] \in Int /\ h[x] <= k[x] OBVIOUS
  <2> QED BY <2>2, <2>4, <2>5
<1>3. Cardinality(S) \in T
  <2>1. Cardinality(S) \in Nat BY FS_CardinalityType
  <2> HIDE DEF T
  <2> QED BY <2>1, <1>1, <1>2, Induction
<1> QED BY <1>3

\* The sum of nothing but zeros is zero.
LEMMA NoSum ==
    ASSUME NEW S, IsFiniteSet(S), NEW g, Sums(g, [x \in S |-> 0], S)
    PROVE  g[S] = 0
<1> DEFINE T == {n \in Nat : \A s \in SUBSET S : Cardinality(s) = n => g[s] = 0}
<1>1. 0 \in T
  <2>1. \A s \in SUBSET S : Cardinality(s) = 0 => s = {} BY Smaller
  <2>2. g[{}] = 0 BY DEF Sums
  <2> QED BY <2>1, <2>2
<1>2. ASSUME NEW n \in Nat, n \in T PROVE n + 1 \in T
  <2> SUFFICES ASSUME NEW s \in SUBSET S, Cardinality(s) = n + 1 PROVE g[s] = 0 OBVIOUS
  <2>1. s # {} BY FS_EmptySet
  <2> PICK x \in S, t \in SUBSET S : x = Pick(s) /\ t = s \ {Pick(s)} BY <2>1, Smaller
  <2>2. g[s] = 0 + g[t] BY <2>1 DEF Sums
  <2>3. Cardinality(t) = n
    <3>1. Cardinality(t) = Cardinality(s) - 1 BY <2>1, Smaller
    <3> QED BY <3>1
  <2> QED BY <1>2, <2>2, <2>3
<1>3. Cardinality(S) \in T
  <2>1. Cardinality(S) \in Nat BY FS_CardinalityType
  <2> HIDE DEF T
  <2> QED BY <2>1, <1>1, <1>2, Induction
<1> QED BY <1>3

\* A change at one place changes the sum by as much.
LEMMA SumsMove ==
    ASSUME NEW S, IsFiniteSet(S), NEW h \in [S -> Int], NEW k \in [S -> Int],
           NEW o \in S, \A x \in S \ {o} : h[x] = k[x], NEW f, NEW g, Sums(f, h, S), Sums(g, k, S)
    PROVE  f[S] \in Int /\ g[S] \in Int /\ g[S] = f[S] - h[o] + k[o]
<1> DEFINE T == {n \in Nat : \A s \in SUBSET S : Cardinality(s) = n =>
                               /\ f[s] \in Int /\ g[s] \in Int
                               /\ o \notin s => f[s] = g[s]
                               /\ o \in s => g[s] = f[s] - h[o] + k[o]}
<1>1. 0 \in T
  <2>1. \A s \in SUBSET S : Cardinality(s) = 0 => s = {} BY Smaller
  <2>2. f[{}] = 0 /\ g[{}] = 0 BY DEF Sums
  <2> QED BY <2>1, <2>2
<1>2. ASSUME NEW n \in Nat, n \in T PROVE n + 1 \in T
  <2> SUFFICES ASSUME NEW s \in SUBSET S, Cardinality(s) = n + 1
               PROVE  /\ f[s] \in Int /\ g[s] \in Int
                      /\ o \notin s => f[s] = g[s]
                      /\ o \in s => g[s] = f[s] - h[o] + k[o]
    OBVIOUS
  <2>1. s # {} BY FS_EmptySet
  <2> PICK x \in S, t \in SUBSET S : x = Pick(s) /\ t = s \ {Pick(s)} BY <2>1, Smaller
  <2>2. f[s] = h[x] + f[t] /\ g[s] = k[x] + g[t] BY <2>1 DEF Sums
  <2>3. Cardinality(t) = n
    <3>1. Cardinality(t) = Cardinality(s) - 1 BY <2>1, Smaller
    <3> QED BY <3>1
  <2>4. /\ f[t] \in Int /\ g[t] \in Int
        /\ o \notin t => f[t] = g[t]
        /\ o \in t => g[t] = f[t] - h[o] + k[o]
    BY <2>3, <1>2
  <2>5. h[x] \in Int /\ k[x] \in Int /\ h[o] \in Int /\ k[o] \in Int OBVIOUS
  <2>6. x \in s BY <2>1, Smaller
  <2>7. CASE x = o
    <3>1. o \notin t /\ o \in s BY <2>6, <2>7
    <3> QED BY <2>2, <2>4, <2>5, <2>7, <3>1
  <2>8. CASE x # o
    <3>1. h[x] = k[x] /\ (o \in t <=> o \in s) BY <2>8
    <3> QED BY <2>2, <2>4, <2>5, <3>1
  <2> QED BY <2>7, <2>8
<1>3. Cardinality(S) \in T
  <2>1. Cardinality(S) \in Nat BY FS_CardinalityType
  <2> HIDE DEF T
  <2> QED BY <2>1, <1>1, <1>2, Induction
<1> QED BY <1>3

-----------------------------------------------------------------------------
(* The bytes under the root                                                 *)

\* The bytes of a directory, two names of one file counted once
Size(d) == d.temp + d.partial.size + d.complete.size

\* The bytes held by directories d and data x
Held(d, x) == MapThenSumSet(LAMBDA r : d[r].temp + d[r].partial.size + d[r].complete.size
                                       + x[r].bytes, Runs)
\* The same run by run
Weights(d, x) == [r \in Runs |-> d[r].temp + d[r].partial.size + d[r].complete.size + x[r].bytes]
\* What recording_tree_bytes counts, run by run
Counted(d, x) == [r \in Runs |-> DirBytes(d[r]) + x[r].bytes]

\* Held and Used are sums over the runs.
LEMMA HeldSums ==
    ASSUME NEW d, NEW x
    PROVE  \E g : Sums(g, Weights(d, x), Runs) /\ Held(d, x) = g[Runs]
<1> DEFINE w == Weights(d, x)
           next(g) == [s \in SUBSET Runs |-> IF s = {} THEN 0 ELSE
                         (d[Pick(s)].temp + d[Pick(s)].partial.size + d[Pick(s)].complete.size
                            + x[Pick(s)].bytes) + g[s \ {Pick(s)}]]
<1>1. Held(d, x) = (CHOOSE g : g = next(g))[Runs]
  BY Zenon DEF Held, MapThenSumSet, MapThenFoldSet, Pick
<1>2. \A s \in SUBSET Runs : s # {} => Pick(s) \in Runs BY DEF Pick
<1>3. \A g : Sums(g, w, Runs) <=> g = next(g)
  <2> TAKE g
  <2>1. \A s \in SUBSET Runs : s # {} => w[Pick(s)] = d[Pick(s)].temp + d[Pick(s)].partial.size + d[Pick(s)].complete.size
                            + x[Pick(s)].bytes
    BY <1>2 DEF Weights
  <2> HIDE DEF w
  <2>2. next(g) = [s \in SUBSET Runs |-> IF s = {} THEN 0 ELSE w[Pick(s)] + g[s \ {Pick(s)}]]
    BY <2>1
  <2> QED BY <2>2 DEF Sums
<1>4. PICK f : Sums(f, w, Runs) BY SumsExist, RunAssumption
<1>5. f = next(f) BY <1>3, <1>4
<1> HIDE DEF next
<1>6. (CHOOSE g : g = next(g)) = next(CHOOSE g : g = next(g)) BY <1>5, Zenon
<1> HIDE DEF w
<1> QED BY <1>1, <1>3, <1>6 DEF w

LEMMA UsedSums ==
    \E g : Sums(g, Counted(dir, data), Runs) /\ Used = g[Runs]
<1> DEFINE w == Counted(dir, data)
           next(g) == [s \in SUBSET Runs |-> IF s = {} THEN 0 ELSE
                         (DirBytes(dir[Pick(s)]) + data[Pick(s)].bytes) + g[s \ {Pick(s)}]]
<1>1. Used = (CHOOSE g : g = next(g))[Runs]
  BY Zenon DEF Used, MapThenSumSet, MapThenFoldSet, Pick
<1>2. \A s \in SUBSET Runs : s # {} => Pick(s) \in Runs BY DEF Pick
<1>3. \A g : Sums(g, w, Runs) <=> g = next(g)
  <2> TAKE g
  <2>1. \A s \in SUBSET Runs : s # {} => w[Pick(s)] = DirBytes(dir[Pick(s)]) + data[Pick(s)].bytes
    BY <1>2 DEF Counted
  <2> HIDE DEF w
  <2>2. next(g) = [s \in SUBSET Runs |-> IF s = {} THEN 0 ELSE w[Pick(s)] + g[s \ {Pick(s)}]]
    BY <2>1
  <2> QED BY <2>2 DEF Sums
<1>4. PICK f : Sums(f, w, Runs) BY SumsExist, RunAssumption
<1>5. f = next(f) BY <1>3, <1>4
<1> HIDE DEF next
<1>6. (CHOOSE g : g = next(g)) = next(CHOOSE g : g = next(g)) BY <1>5, Zenon
<1> HIDE DEF w
<1> QED BY <1>1, <1>3, <1>6 DEF w

\* Sizes are numbers.
LEMMA SizeNat ==
    ASSUME NEW d \in DirType
    PROVE  /\ Size(d) \in Nat /\ d.temp \in Nat /\ d.partial.size \in Nat /\ d.complete.size \in Nat
           /\ DirBytes(d) \in Int
           /\ StatusFile(d.partial) /\ StatusFile(d.complete) => Size(d) <= DirBytes(d)
<1>1. /\ d.temp \in Nat /\ d.partial.size \in Nat /\ d.complete.size \in Nat
      /\ d.partial.links \in 0..2 /\ d.complete.links \in 0..2
  BY DEF DirType, StatusType
<1>2. \A s \in StatusType : /\ s.links * s.size \in Int
                            /\ StatusFile(s) => s.size <= s.links * s.size
  <2> TAKE s \in StatusType
  <2>1. s.size \in Nat /\ s.links \in 0..2 BY DEF StatusType
  <2>2. StatusFile(s) => s.links \in {1, 2} \/ s.size = 0 BY DEF StatusFile, NoStatus
  <2> QED BY <2>1, <2>2
<1>3. d.partial \in StatusType /\ d.complete \in StatusType BY DEF DirType
<1> QED BY <1>1, <1>2, <1>3 DEF Size, DirBytes

\* What is held is a number.
LEMMA HeldTypes ==
    ASSUME Typed
    PROVE  /\ Weights(dir, data) \in [Runs -> Int]
           /\ \A o \in Runs : Weights(dir, data)[o] = Size(dir[o]) + data[o].bytes
           /\ Held(dir, data) \in Int
<1>1. \A o \in Runs : dir[o] \in DirType /\ data[o].bytes \in Int BY DEF Typed, Data
<1>2. \A o \in Runs : Size(dir[o]) \in Nat BY <1>1, SizeNat
<1>3. \A o \in Runs : Weights(dir, data)[o] = Size(dir[o]) + data[o].bytes BY DEF Weights, Size
<1>4. Weights(dir, data) \in [Runs -> Int]
  <2>1. \A o \in Runs : Weights(dir, data)[o] \in Int BY <1>1, <1>2, <1>3
  <2> QED BY <2>1 DEF Weights
<1>5. PICK g : Sums(g, Weights(dir, data), Runs) /\ Held(dir, data) = g[Runs] BY HeldSums
<1>6. Held(dir, data) \in Int BY <1>4, <1>5, SumsRise, RunAssumption
<1> QED BY <1>3, <1>4, <1>6

\* The same of any directories and data.
LEMMA HeldTyped ==
    ASSUME NEW d \in [Runs -> DirType], NEW x \in [Runs -> Data]
    PROVE  Held(d, x) \in Int
<1> DEFINE k == Weights(d, x)
<1>1. \A q \in Runs : d[q] \in DirType /\ x[q].bytes \in Int BY DEF Data
<1>2. \A q \in Runs : Size(d[q]) \in Nat BY <1>1, SizeNat
<1>3. \A q \in Runs : k[q] = Size(d[q]) + x[q].bytes BY DEF Weights, Size
<1>4. k \in [Runs -> Int]
  <2>1. \A q \in Runs : k[q] \in Int BY <1>1, <1>2, <1>3
  <2> QED BY <2>1 DEF Weights
<1>5. PICK g : Sums(g, k, Runs) /\ Held(d, x) = g[Runs] BY HeldSums
<1> HIDE DEF k
<1> QED BY <1>4, <1>5, SumsRise, RunAssumption

\* What one run holds more or less, all hold more or less.
LEMMA HeldMoves ==
    ASSUME Typed, NEW d \in [Runs -> DirType], NEW x \in [Runs -> Data], NEW o \in Runs,
           \A q \in Runs \ {o} : d[q] = dir[q] /\ x[q].bytes = data[q].bytes
    PROVE  /\ Held(d, x) \in Int
           /\ Held(d, x) = Held(dir, data) - (Size(dir[o]) + data[o].bytes) + (Size(d[o]) + x[o].bytes)
<1> DEFINE h == Weights(dir, data)
           k == Weights(d, x)
<1>1. h \in [Runs -> Int] /\ h[o] = Size(dir[o]) + data[o].bytes BY HeldTypes
<1>2. \A q \in Runs : d[q] \in DirType /\ x[q].bytes \in Int BY DEF Data
<1>3. \A q \in Runs : Size(d[q]) \in Nat BY <1>2, SizeNat
<1>4. \A q \in Runs : k[q] = Size(d[q]) + x[q].bytes BY DEF Weights, Size
<1>5. k \in [Runs -> Int]
  <2>1. \A q \in Runs : k[q] \in Int BY <1>2, <1>3, <1>4
  <2> QED BY <2>1 DEF Weights
<1>6. \A q \in Runs \ {o} : h[q] = k[q] BY DEF Weights
<1>7. PICK f : Sums(f, h, Runs) /\ Held(dir, data) = f[Runs] BY HeldSums
<1>8. PICK g : Sums(g, k, Runs) /\ Held(d, x) = g[Runs] BY HeldSums
<1> HIDE DEF h, k
<1>9. f[Runs] \in Int /\ g[Runs] \in Int /\ g[Runs] = f[Runs] - h[o] + k[o]
  BY <1>1, <1>5, <1>6, <1>7, <1>8, SumsMove, RunAssumption
<1> QED BY <1>1, <1>4, <1>7, <1>8, <1>9

\* What recording_tree_bytes counts is not less than what is held.
LEMMA HeldUsed ==
    ASSUME Typed, \A r \in Runs : RunTrue(r)
    PROVE  Used \in Int /\ Held(dir, data) <= Used
<1> DEFINE h == Weights(dir, data)
           k == Counted(dir, data)
<1>1. h \in [Runs -> Int] /\ \A o \in Runs : h[o] = Size(dir[o]) + data[o].bytes BY HeldTypes
<1>2. \A o \in Runs : dir[o] \in DirType /\ data[o].bytes \in Int BY DEF Typed, Data
<1>3. \A o \in Runs : k[o] = DirBytes(dir[o]) + data[o].bytes BY DEF Counted
<1>4. \A o \in Runs : Size(dir[o]) \in Nat /\ DirBytes(dir[o]) \in Int /\ Size(dir[o]) <= DirBytes(dir[o])
  BY <1>2, SizeNat DEF RunTrue, Names
<1>5. k \in [Runs -> Int]
  <2>1. \A q \in Runs : k[q] \in Int BY <1>2, <1>3, <1>4
  <2> QED BY <2>1 DEF Counted
<1>6. \A o \in Runs : h[o] <= k[o] BY <1>1, <1>2, <1>3, <1>4
<1>7. PICK f : Sums(f, h, Runs) /\ Held(dir, data) = f[Runs] BY HeldSums
<1>8. PICK g : Sums(g, k, Runs) /\ Used = g[Runs] BY UsedSums
<1> HIDE DEF h, k
<1>9. f[Runs] \in Int /\ g[Runs] \in Int /\ f[Runs] <= g[Runs]
  BY <1>1, <1>5, <1>6, <1>7, <1>8, SumsRise, RunAssumption
<1> QED BY <1>7, <1>8, <1>9

-----------------------------------------------------------------------------
(* What a recorder may still write                                          *)

\* What lets the root exceed the limits: an inspection that recovers without one, a
\* second failure, a status longer than the room kept for it (RootWithinLimit).
Excused == unlimited \/ faults > 1 \/ \E r \in Runs : 1 + reports[r] > StatusReserve

\* A status of r is being published.
Publishing(r) == pc[r] \in {"writeTemp", "link", "unlinkTemp", "rename", "syncRun",
                            "removePartial", "syncClean"}

\* Where nothing is being published a power loss takes nothing.
Settled(r) ==
    /\ pc[r] = "dead" => faults > 0
    /\ ~Publishing(r) /\ (pc[r] \in {"over", "dead"} => faults = 0) => crashDirs[r] = {dir[r]}

\* The status about to be written fits, whatever a power loss leaves.
StatusFits(r) ==
    Publishing(r) => \A d \in crashDirs[r] :
        Held(dir, data) - Size(dir[r]) + Size(d)
            + (IF pc[r] = "writeTemp" THEN StatusSize(r) ELSE 0) <= MaxBytes[r]

\* A sink keeps to its allotment, and beside it there is room for the status of the outcome.
SinkFits(r) ==
    pc[r] \in {"loop", "tail", "finish"} =>
        /\ allot[r] \in Int /\ data[r].bytes <= allot[r]
        /\ Held(dir, data) - data[r].bytes + allot[r] + StatusReserve <= MaxBytes[r]

\* What is held is within the limit of some run.
Fits == Held(dir, data) <= 0 \/ \E q \in Runs : pc[q] # "idle" /\ Held(dir, data) <= MaxBytes[q]

\* The bytes under the root, now and for the steps to come.
BInv ==
    /\ faults \in Nat /\ \A r \in Runs : Settled(r)
    /\ Excused \/ (Fits /\ \A r \in Runs : StatusFits(r) /\ SinkFits(r))

\* Once excused, always.
LEMMA StaysExcused ==
    ASSUME Typed, faults \in Nat, Next, Excused
    PROVE  Excused'
<1> USE DEF Goto, Return, recVars
<1>1. \A q \in Runs : reports[q] \in Nat BY DEF Typed
<1>2. faults' \in Nat /\ faults <= faults' /\ (unlimited => unlimited')
      /\ \A q \in Runs : reports'[q] \in Nat /\ reports[q] <= reports'[q]
  <2>1. ASSUME NEW r \in Runs, Recorder(r)
        PROVE  faults' \in Nat /\ faults <= faults' /\ unlimited' = unlimited
               /\ (reports' = reports \/ reports' = [reports EXCEPT ![r] = @ + 1])
    <3> USE <2>1
    <3>1. CASE TakeLock(r) \/ LockBusy(r) \/ RefuseOldRuns(r) \/ NoRoomForRun(r) \/ NoRoomForSink(r)
      BY <3>1 DEF TakeLock, LockBusy, RefuseOldRuns, NoRoomForRun, NoRoomForSink
    <3>2. CASE ScanOldRuns(r) \/ \E q \in Runs : RecoverArchive(r, q) \/ WarnArchive(r, q)
      <4>1. CASE ScanOldRuns(r) BY <4>1 DEF ScanOldRuns
      <4>2. CASE \E q \in Runs : RecoverArchive(r, q) BY <4>2 DEF RecoverArchive
      <4>3. CASE \E q \in Runs : WarnArchive(r, q) BY <4>3 DEF WarnArchive
      <4> QED BY <3>2, <4>1, <4>2, <4>3
    <3>3. CASE MakeRun(r) \/ OpenSink(r) \/ TakeRow(r) \/ AppendTail(r) BY <3>3 DEF MakeRun, OpenSink, TakeRow, AppendTail
    <3>4. CASE RowFails(r) \/ TakeEnd(r) \/ TailFails(r) \/ FinishSink(r) \/ FinishFails(r)
      BY <3>4 DEF RowFails, TakeEnd, TailFails, FinishSink, FinishFails
    <3>5. CASE WriteTemp(r) \/ LinkStatus(r) \/ RenameStatus(r) \/ RemovePartial(r) \/ UnlinkTemp(r)
               \/ SyncRun(r) \/ SyncClean(r) \/ StatusFails(r)
      BY <3>5 DEF WriteTemp, LinkStatus, RenameStatus, RemovePartial, UnlinkTemp, SyncRun, SyncClean, StatusFails
    <3> QED BY <3>1, <3>2, <3>3, <3>4, <3>5 DEF Recorder
  <2>2. CASE \E r \in Runs : Recorder(r)
    BY <2>1, <2>2, <1>1 DEF Typed
  <2>3. CASE ~\E r \in Runs : Recorder(r)
    <3>1. CASE \E r \in Runs : Kill(r) BY <3>1, <1>1 DEF Kill
    <3>2. CASE PowerLoss BY <3>2, <1>1 DEF PowerLoss
    <3>3. CASE \/ \E r \in Runs, via \in Vias : Inspect(r, via)
               \/ ReadPartial \/ ReadComplete \/ Visit
      <4>1. faults' = faults /\ reports' = reports /\ unlimited' = unlimited
        BY <3>3 DEF Inspect, ReadPartial, ReadComplete, Visit
      <4> QED BY <1>1, <4>1
    <3>4. CASE InspectRecovers
      <4>1. faults' = faults /\ reports' = reports BY <3>4 DEF InspectRecovers
      <4>2. unlimited => unlimited' BY <3>4, Zenon DEF InspectRecovers
      <4> QED BY <1>1, <4>1, <4>2
    <3> QED BY <2>3, <3>1, <3>2, <3>3, <3>4 DEF Next
  <2> QED BY <2>2, <2>3
<1> QED BY <1>1, <1>2, RunAssumption DEF Excused

\* No step leaves a directory unsynced but a publication.
LEMMA StaysSettled ==
    ASSUME RInv, faults \in Nat, \A r \in Runs : Settled(r), Next
    PROVE  faults' \in Nat /\ \A r \in Runs : Settled(r)'
<1> USE DEF Goto, Return, recVars, Settled, Publishing
<1>1. Typed BY DEF RInv
<1>2. ASSUME NEW r \in Runs, Recorder(r)
      PROVE  faults' \in Nat /\ \A q \in Runs : Settled(q)'
  <2>1. \A q \in Runs \ {r} : Untouched(q) BY <1>1, <1>2, OthersUntouched
  <2>2. /\ faults' \in Nat /\ faults <= faults'
        /\ Settled(r)'
    <3> USE <1>1, <1>2
    <3>1. CASE TakeLock(r) \/ LockBusy(r) \/ RefuseOldRuns(r) \/ NoRoomForRun(r) \/ NoRoomForSink(r)
      BY <3>1 DEF TakeLock, LockBusy, RefuseOldRuns, NoRoomForRun, NoRoomForSink, Typed
    <3>2. CASE ScanOldRuns(r) \/ \E q \in Runs : RecoverArchive(r, q) \/ WarnArchive(r, q)
      <4>1. CASE ScanOldRuns(r) BY <4>1 DEF ScanOldRuns, Typed
      <4>2. CASE \E q \in Runs : RecoverArchive(r, q) BY <4>2 DEF RecoverArchive, Typed
      <4>3. CASE \E q \in Runs : WarnArchive(r, q) BY <4>3 DEF WarnArchive, Typed
      <4> QED BY <3>2, <4>1, <4>2, <4>3
    <3>3. CASE MakeRun(r) BY <3>3 DEF MakeRun, Change, Typed
    <3>4. CASE OpenSink(r) BY <3>4 DEF OpenSink, Typed
    <3>5. CASE TakeRow(r) BY <3>5 DEF TakeRow, Appends, Typed
    <3>6. CASE AppendTail(r) BY <3>6 DEF AppendTail, Appends, Typed
    <3>7. CASE RowFails(r) \/ TakeEnd(r) \/ TailFails(r) \/ FinishSink(r) \/ FinishFails(r)
      BY <3>7 DEF RowFails, TakeEnd, TailFails, FinishSink, FinishFails, Typed
    <3>8. CASE WriteTemp(r) \/ LinkStatus(r) \/ RenameStatus(r) \/ RemovePartial(r) \/ UnlinkTemp(r)
      BY <3>8 DEF WriteTemp, LinkStatus, RenameStatus, RemovePartial, UnlinkTemp, Typed
    <3>9. CASE SyncRun(r) \/ SyncClean(r)
      BY <3>9 DEF SyncRun, SyncClean, Sync, Typed
    <3>10. CASE StatusFails(r) BY <3>10 DEF StatusFails, Typed
    <3> QED BY <3>1, <3>2, <3>3, <3>4, <3>5, <3>6, <3>7, <3>8, <3>9, <3>10 DEF Recorder
  <2>3. \A q \in Runs \ {r} : Settled(q)' BY <2>1, <2>2 DEF Untouched
  <2> QED BY <2>2, <2>3
<1>3. CASE \E r \in Runs : Kill(r)
  BY <1>1, <1>3 DEF Kill, Typed
<1>4. CASE PowerLoss
  BY <1>1, <1>4 DEF PowerLoss, Typed, Active
<1>5. CASE \/ \E r \in Runs, via \in Vias : Inspect(r, via)
           \/ ReadPartial \/ ReadComplete \/ InspectRecovers \/ Visit
  BY <1>5 DEF Inspect, ReadPartial, ReadComplete, InspectRecovers, Visit
<1> QED BY <1>2, <1>3, <1>4, <1>5 DEF Next

\* Until its sink is open, a run has no data and no rows.
Fresh(r) ==
    pc[r] \in {"idle", "scan", "recover", "openSink"} \/ (Publishing(r) /\ status[r] = "in-progress") =>
        ~dir[r].data /\ data[r].rows = 0 /\ data[r].bytes = 0

\* Only runs with data are recovered.
FInv ==
    /\ DOMAIN allot = Runs
    /\ \A r \in Runs : Fresh(r) /\ (pc[r] = "recover" => \A o \in todo[r] : dir[o].data)

\* Data comes with the sink.
LEMMA StaysFresh ==
    ASSUME RInv, faults \in Nat, \A r \in Runs : Settled(r), FInv, Next
    PROVE  FInv'
<1> USE DEF Goto, Return, recVars, Publishing
<1>1. Typed /\ Locked /\ \A r \in Runs : RunTrue(r) /\ StatusAt(r) /\ dir[r] \in crashDirs[r]
  BY DEF RInv, RunTrue
<1>0. DOMAIN allot' = Runs
  <2>1. ASSUME NEW r \in Runs, Recorder(r)
        PROVE  allot' = allot \/ \E x : allot' = [allot EXCEPT ![r] = x]
    BY <2>1 DEF Recorder, TakeLock, LockBusy, ScanOldRuns, RefuseOldRuns,
       RecoverArchive, WarnArchive, MakeRun, NoRoomForRun, OpenSink, NoRoomForSink, TakeRow, RowFails, TakeEnd,
       AppendTail, TailFails, FinishSink, FinishFails, WriteTemp, LinkStatus, UnlinkTemp,
       RenameStatus, SyncRun, RemovePartial, SyncClean, StatusFails
  <2>2. CASE \E r \in Runs : Recorder(r) BY <2>1, <2>2 DEF FInv
  <2>3. CASE ~\E r \in Runs : Recorder(r)
    <3>1. allot' = allot
      BY <2>3 DEF Next, Kill, PowerLoss, Inspect, ReadPartial, ReadComplete, InspectRecovers, Visit
    <3> QED BY <3>1 DEF FInv
  <2> QED BY <2>2, <2>3
<1>2. ASSUME NEW r \in Runs, Recorder(r)
      PROVE  FInv'
  <2>1. \A q \in Runs \ {r} : Untouched(q) BY <1>1, <1>2, OthersUntouched
  <2>2. dir[r] \in DirType /\ data[r] \in Data BY <1>1 DEF Typed
  <2>3. \/ UNCHANGED <<dir, data, status, todo>> /\ pc'[r] \notin {"recover", "openSink"}
           /\ ~Publishing(r)' /\ pc[r] = "idle"
        \/ Active(r)
    BY <1>1, <1>2 DEF Active, Recorder, TakeLock, LockBusy, ScanOldRuns, RefuseOldRuns,
       RecoverArchive, WarnArchive, MakeRun, NoRoomForRun, OpenSink, NoRoomForSink, TakeRow, RowFails, TakeEnd,
       AppendTail, TailFails, FinishSink, FinishFails, WriteTemp, LinkStatus, UnlinkTemp,
       RenameStatus, SyncRun, RemovePartial, SyncClean, StatusFails, Typed
  <2>4. CASE ~Active(r) BY <1>0, <2>1, <2>3, <2>4 DEF FInv, Fresh, Untouched, Active
  <2>5. CASE Active(r)
    <3>1. \A q \in Runs \ {r} : ~Active(q) BY <1>1, <2>5 DEF Locked
    <3> USE <1>1, <1>2, <2>2
    \* The bytes of a run without data do not change unless its recorder opens its sink.
    <3>2. ASSUME NEW q \in Runs \ {r}
          PROVE  dir[q].data \/ data'[q].bytes = data[q].bytes
      <4>1. CASE \E o \in Runs : RecoverArchive(r, o)
        <5>1. PICK o \in Runs, growth \in Growth :
                 /\ data' = [data EXCEPT ![o].framed = data[o].rows, ![o].bytes = @ + growth - 1]
                 /\ o \in todo[r] /\ pc[r] = "recover"
          BY <4>1 DEF RecoverArchive
        <5>2. dir[o].data BY <5>1 DEF FInv
        <5>3. q # o => data'[q] = data[q] BY <5>1, FramedTypes
        <5> QED BY <5>2, <5>3
      <4>2. CASE ~\E o \in Runs : RecoverArchive(r, o)
        BY <4>2 DEF Recorder, TakeLock, LockBusy, ScanOldRuns, RefuseOldRuns, WarnArchive, MakeRun,
           NoRoomForRun, OpenSink, NoRoomForSink, TakeRow, RowFails, TakeEnd, AppendTail, Appends,
           TailFails, FinishSink, FinishFails, WriteTemp, LinkStatus, UnlinkTemp, RenameStatus,
           SyncRun, RemovePartial, SyncClean, StatusFails, Typed
      <4> QED BY <4>1, <4>2
    <3>3. \A q \in Runs \ {r} : Fresh(q)' /\ pc'[q] # "recover"
      BY <2>1, <3>1, <3>2 DEF FInv, Fresh, Untouched, Active
    <3>4. Fresh(r)' /\ (pc'[r] = "recover" => \A o \in todo'[r] : dir'[o].data)
      <4>1. CASE ScanOldRuns(r) BY <4>1 DEF ScanOldRuns, Interrupted, FInv, Fresh, Typed
      <4>2. CASE \E o \in Runs : RecoverArchive(r, o)
        <5>1. PICK o \in Runs, growth \in Growth :
                 /\ data' = [data EXCEPT ![o].framed = data[o].rows, ![o].bytes = @ + growth - 1]
                 /\ o \in todo[r] /\ pc[r] = "recover" /\ pc' = pc /\ dir' = dir
                 /\ todo' = [todo EXCEPT ![r] = @ \ {o}]
          BY <4>2 DEF RecoverArchive
        <5>2. o # r BY <5>1 DEF FInv, Fresh
        <5>3. data'[r] = data[r] BY <5>1, <5>2, FramedTypes
        <5>4. todo'[r] \subseteq todo[r] BY <5>1 DEF Typed
        <5> QED BY <5>1, <5>3, <5>4 DEF FInv, Fresh
      <4>3. CASE \E o \in Runs : WarnArchive(r, o)
        BY <4>3 DEF WarnArchive, FInv, Fresh, Typed
      <4>4. CASE MakeRun(r)
        <5>1. dir'[r].data = dir[r].data /\ data' = data BY <4>4 DEF MakeRun, Change, Typed, DirType
        <5>2. pc[r] = "recover" /\ pc'[r] = "writeTemp" BY <4>4 DEF MakeRun, Typed
        <5> QED BY <5>1, <5>2 DEF FInv, Fresh
      <4>5. CASE WriteTemp(r) \/ LinkStatus(r) \/ UnlinkTemp(r) \/ RenameStatus(r) \/ RemovePartial(r)
                 \/ StatusFails(r)
        <5>1. /\ dir'[r].data = dir[r].data
          <6>1. \A s, t : /\ [dir[r] EXCEPT !.temp = t].data = dir[r].data
                          /\ [dir[r] EXCEPT !.partial = s].data = dir[r].data
                          /\ [dir[r] EXCEPT !.partial = s, !.temp = 0].data = dir[r].data
                          /\ [dir[r] EXCEPT !.complete = s, !.temp = 0].data = dir[r].data
            BY <2>2 DEF DirType
          <6>2. /\ [dir[r] EXCEPT !.partial.links = 1].data = dir[r].data
                /\ [dir[r] EXCEPT !.complete.links = 1].data = dir[r].data
            BY <2>2 DEF DirType
          <6>3. ASSUME NEW e, Change(r, e), e.data = dir[r].data
                PROVE  dir'[r].data = dir[r].data
            BY <6>3 DEF Change, Typed
          <6>4. dir' = dir \/ \E e : Change(r, e) /\ e.data = dir[r].data
            <7>1. CASE WriteTemp(r) BY <6>1, <7>1 DEF WriteTemp
            <7>2. CASE LinkStatus(r) BY <6>1, <7>2 DEF LinkStatus
            <7>3. CASE UnlinkTemp(r) BY <6>2, <7>3 DEF UnlinkTemp
            <7>4. CASE RenameStatus(r) BY <6>1, <7>4 DEF RenameStatus
            <7>5. CASE RemovePartial(r) BY <6>1, <7>5 DEF RemovePartial
            <7>6. CASE StatusFails(r) BY <6>1, <6>2, <7>6 DEF StatusFails
            <7> QED BY <4>5, <7>1, <7>2, <7>3, <7>4, <7>5, <7>6
          <6> QED BY <6>3, <6>4
        <5>2. data' = data /\ status' = status /\ Publishing(r)
              /\ pc'[r] \notin {"recover", "idle", "scan", "openSink"}
          BY <4>5 DEF WriteTemp, LinkStatus, UnlinkTemp, RenameStatus, RemovePartial, StatusFails, Typed
        <5> QED BY <5>1, <5>2 DEF FInv, Fresh
      <4>6. CASE SyncRun(r) \/ SyncClean(r)
        BY <4>6 DEF SyncRun, SyncClean, Sync, FInv, Fresh, Typed
      <4>7. CASE RefuseOldRuns(r) \/ NoRoomForRun(r) \/ NoRoomForSink(r)
                 \/ OpenSink(r) \/ TakeRow(r) \/ RowFails(r) \/ TakeEnd(r) \/ AppendTail(r) \/ TailFails(r)
                 \/ FinishSink(r) \/ FinishFails(r)
        <5>1. pc'[r] \notin {"recover", "idle", "scan", "openSink"}
              /\ (Publishing(r)' => status'[r] # "in-progress")
          <6>1. CASE RefuseOldRuns(r) \/ NoRoomForRun(r) \/ NoRoomForSink(r)
            BY <6>1 DEF RefuseOldRuns, NoRoomForRun, NoRoomForSink, Typed
          <6>2. CASE OpenSink(r) \/ TakeRow(r) \/ RowFails(r) \/ TakeEnd(r) \/ AppendTail(r) \/ TailFails(r)
            BY <6>2 DEF OpenSink, TakeRow, RowFails, TakeEnd, AppendTail, TailFails, Typed
          <6>3. CASE FinishSink(r) \/ FinishFails(r) BY <6>3 DEF FinishSink, FinishFails, Typed
          <6> QED BY <4>7, <6>1, <6>2, <6>3
        <5> QED BY <5>1 DEF Fresh
      <4>8. CASE TakeLock(r) \/ LockBusy(r) BY <4>8, <2>5 DEF TakeLock, LockBusy, Active
      <4> QED BY <4>1, <4>2, <4>3, <4>4, <4>5, <4>6, <4>7, <4>8 DEF Recorder
    <3> QED BY <1>0, <3>3, <3>4 DEF FInv
  <2> QED BY <2>4, <2>5
<1>3. CASE \E r \in Runs : Kill(r)
  BY <1>0, <1>1, <1>3 DEF Kill, FInv, Fresh, Typed
<1>4. CASE PowerLoss
  <2>1. ASSUME NEW r \in Runs
        PROVE  Fresh(r)' /\ pc'[r] # "recover"
    <3>1. /\ pc'[r] = IF Active(r) THEN "dead" ELSE pc[r]
          /\ dir'[r] \in crashDirs[r] /\ data' = data
      BY <1>4 DEF PowerLoss
    <3>2. pc[r] = "idle" => dir'[r] = dir[r] BY <3>1 DEF Settled
    <3> QED BY <3>1, <3>2 DEF Fresh, FInv, Active
  <2> QED BY <1>0, <2>1 DEF FInv
<1>5. CASE (\E r \in Runs, via \in Vias : Inspect(r, via)) \/ ReadPartial \/ ReadComplete \/ Visit
  <2>1. UNCHANGED <<pc, dir, data, status, todo>>
    BY <1>5 DEF Inspect, ReadPartial, ReadComplete, Visit
  <2> QED BY <1>0, <2>1 DEF FInv, Fresh
<1>6. CASE InspectRecovers
  <2>1. PICK o \in Runs : o = insp.run BY <1>6 DEF InspectRecovers, RInv, Inspected
  <2>2. PICK growth \in Growth :
           /\ data' = [data EXCEPT ![o].framed = data[o].rows, ![o].bytes = @ + growth - 1]
           /\ data[o].rows > data[o].framed
    BY <1>6, <2>1 DEF InspectRecovers
  <2>3. \A q \in Runs \ {o} : data'[q] = data[q] BY <1>1, <2>2, FramedTypes
  <2>4. data[o].rows # 0
    <3>1. data[o].rows \in Nat /\ data[o].framed \in Nat BY <1>1 DEF Typed, Data
    <3> QED BY <2>2, <3>1
  <2>5. UNCHANGED <<pc, dir, status, todo>> BY <1>6 DEF InspectRecovers
  <2> QED BY <1>0, <2>3, <2>4, <2>5 DEF FInv, Fresh
<1> QED BY <1>2, <1>3, <1>4, <1>5, <1>6 DEF Next

\* What a step leaves of the bytes of a recorder's run.
Kept(r) ==
    /\ Held(dir, data)' <= Held(dir, data) \/ (Held(dir, data)' <= MaxBytes[r] /\ pc'[r] # "idle")
    /\ StatusFits(r)' /\ SinkFits(r)'

\* What a step of the recorder of r may rely on.
BeforeStep(r) ==
    /\ RInv /\ faults \in Nat /\ (\A q \in Runs : Settled(q)) /\ FInv
    /\ StatusFits(r) /\ SinkFits(r) /\ 1 + reports[r] <= StatusReserve

\* The numbers that matter.
LEMMA Numbers ==
    ASSUME RInv, NEW r \in Runs
    PROVE  /\ Held(dir, data) \in Int /\ Used \in Int /\ Held(dir, data) <= Used
           /\ dir[r] \in DirType /\ dir[r] \in crashDirs[r]
           /\ \A d \in crashDirs[r] : d \in DirType /\ Size(d) \in Nat
           /\ Size(dir[r]) \in Nat /\ data[r] \in Data /\ data[r].bytes \in Int
           /\ reports[r] \in Nat /\ MaxBytes[r] \in Nat /\ StatusReserve \in Nat /\ StatusReserve > 0
<1>1. Typed /\ RunTrue(r) /\ \A q \in Runs : RunTrue(q) BY DEF RInv
<1>2. dir[r] \in DirType /\ dir[r] \in crashDirs[r] /\ \A d \in crashDirs[r] : d \in DirType
  BY <1>1 DEF Typed, RunTrue
<1>3. Size(dir[r]) \in Nat /\ \A d \in crashDirs[r] : Size(d) \in Nat BY <1>2, SizeNat
<1>4. data[r] \in Data /\ data[r].bytes \in Int /\ reports[r] \in Nat BY <1>1 DEF Typed, Data
<1>5. Held(dir, data) \in Int /\ Used \in Int /\ Held(dir, data) <= Used
  BY <1>1, HeldTypes, HeldUsed
<1> QED BY <1>2, <1>3, <1>4, <1>5, RunAssumption

\* Steps that write nothing, up to the outcome.
LEMMA QuietKept ==
    ASSUME NEW r \in Runs, BeforeStep(r),
           \/ TakeLock(r) \/ LockBusy(r) \/ ScanOldRuns(r) \/ RefuseOldRuns(r)
           \/ NoRoomForRun(r) \/ NoRoomForSink(r)
           \/ RowFails(r) \/ TakeEnd(r) \/ TailFails(r) \/ FinishSink(r) \/ FinishFails(r)
           \/ \E o \in Runs : WarnArchive(r, o)
    PROVE  Kept(r)
<1> USE DEF Goto, Return, recVars, BeforeStep
<1>1. Typed /\ RunTrue(r) /\ Settled(r) BY DEF RInv
<1>2. /\ Held(dir, data) \in Int /\ dir[r] \in crashDirs[r] /\ Size(dir[r]) \in Nat
      /\ data[r].bytes \in Int /\ reports[r] \in Nat /\ MaxBytes[r] \in Nat /\ StatusReserve \in Nat
      /\ data[r] \in Data
  BY Numbers
<1>3. /\ dir' = dir /\ crashDirs' = crashDirs /\ allot' = allot
      /\ \A q \in Runs : data'[q].bytes = data[q].bytes
      /\ data' \in [Runs -> Data]
      /\ \/ ~Publishing(r)' /\ pc'[r] \notin {"loop", "tail", "finish"}
         \/ pc[r] \in {"loop", "tail"} /\ pc'[r] \in {"tail", "finish"}
         \/ /\ pc[r] = "finish" /\ pc'[r] = "writeTemp" /\ reports' = reports
            /\ status'[r] # "in-progress"
         \/ pc[r] = "recover" /\ pc'[r] = pc[r]
  <2> USE <1>1, <1>2 DEF Publishing
  <2>1. CASE TakeLock(r) \/ LockBusy(r) \/ RefuseOldRuns(r) \/ NoRoomForRun(r) \/ NoRoomForSink(r)
    BY <2>1 DEF TakeLock, LockBusy, RefuseOldRuns, NoRoomForRun, NoRoomForSink, Typed
  <2>2. CASE ScanOldRuns(r) BY <2>2 DEF ScanOldRuns, Typed
  <2>3. CASE \E o \in Runs : WarnArchive(r, o) BY <2>3 DEF WarnArchive, Typed
  <2>4. CASE RowFails(r) BY <2>4 DEF RowFails, Typed
  <2>5. CASE TakeEnd(r) BY <2>5 DEF TakeEnd, Typed
  <2>6. CASE TailFails(r) BY <2>6 DEF TailFails, Typed
  <2>7. CASE FinishSink(r) BY <2>7 DEF FinishSink, Typed, Data
  <2>8. CASE FinishFails(r) BY <2>8 DEF FinishFails, Typed
  <2> QED BY <2>1, <2>2, <2>3, <2>4, <2>5, <2>6, <2>7, <2>8
<1>4. Held(dir, data)' = Held(dir, data)
  <2>1. dir' \in [Runs -> DirType] BY <1>1, <1>3 DEF Typed
  <2>2. Held(dir', data') = Held(dir, data) - (Size(dir[r]) + data[r].bytes) + (Size(dir'[r]) + data'[r].bytes)
    BY <1>1, <1>3, <2>1, HeldMoves
  <2>3. Held(dir', data') = Held(dir, data) BY <1>2, <1>3, <2>2
  <2> QED BY <2>3
<1>5. CASE (~Publishing(r)' /\ pc'[r] \notin {"loop", "tail", "finish"}) \/ (pc[r] = "recover" /\ pc'[r] = pc[r])
  BY <1>2, <1>4, <1>5 DEF Kept, StatusFits, SinkFits, Publishing
<1>6. CASE pc[r] \in {"loop", "tail"} /\ pc'[r] \in {"tail", "finish"}
  BY <1>2, <1>3, <1>4, <1>6 DEF Kept, StatusFits, SinkFits, Publishing
<1>7. CASE /\ pc[r] = "finish" /\ pc'[r] = "writeTemp" /\ reports' = reports
           /\ status'[r] # "in-progress"
  <2>1. crashDirs'[r] = {dir'[r]} BY <1>1, <1>3, <1>7 DEF Settled, Publishing
  <2>2. StatusSize(r)' = 1 + reports[r] BY <1>7 DEF StatusSize
  <2>3. Held(dir, data) + 1 + reports[r] <= MaxBytes[r]
    BY <1>2, <1>7 DEF SinkFits
  <2>4. Held(dir, data)' - Size(dir'[r]) + Size(dir'[r]) + (1 + reports[r]) <= MaxBytes[r]
    BY <1>2, <1>3, <1>4, <2>3
  <2>5. StatusFits(r)' BY <1>7, <2>1, <2>2, <2>4 DEF StatusFits
  <2> QED BY <1>2, <1>4, <1>7, <2>5 DEF Kept, SinkFits
<1> QED BY <1>3, <1>5, <1>6, <1>7

\* A run directory is made only if its first status fits; an older archive is recovered within the limit.
LEMMA RecoverKept ==
    ASSUME NEW r \in Runs, BeforeStep(r), MakeRun(r) \/ \E o \in Runs : RecoverArchive(r, o)
    PROVE  Kept(r)
<1> USE DEF Goto, Return, recVars, BeforeStep
<1>1. Typed /\ RunTrue(r) /\ Settled(r) BY DEF RInv
<1>2. /\ Held(dir, data) \in Int /\ Held(dir, data) <= Used /\ Used \in Int
      /\ dir[r] \in crashDirs[r] /\ Size(dir[r]) \in Nat
      /\ data[r].bytes \in Int /\ reports[r] \in Nat /\ MaxBytes[r] \in Nat /\ StatusReserve \in Nat
      /\ dir[r] \in DirType
  BY Numbers
<1>3. CASE MakeRun(r)
  <2> PICK e : e = [dir[r] EXCEPT !.made = TRUE] OBVIOUS
  <2>1. /\ e \in DirType /\ Size(e) = Size(dir[r])
    BY <1>2, DirTyped, <1>1 DEF Size, DirType
  <2>2. /\ dir' = [dir EXCEPT ![r] = e] /\ crashDirs'[r] = crashDirs[r] \cup {e} /\ data' = data
        /\ pc[r] = "recover" /\ pc'[r] = "writeTemp" /\ status'[r] = "in-progress" /\ Used + 1 <= MaxBytes[r]
    BY <1>1, <1>3 DEF MakeRun, Change, Typed
  <2>3. crashDirs[r] = {dir[r]} BY <1>1, <2>2 DEF Settled, Publishing
  <2>4. dir' \in [Runs -> DirType] /\ dir'[r] = e /\ \A q \in Runs \ {r} : dir'[q] = dir[q]
    BY <1>1, <2>1, <2>2 DEF Typed
  <2>5. data \in [Runs -> Data] BY <1>1 DEF Typed
  <2>6. Held(dir', data') = Held(dir, data) - (Size(dir[r]) + data[r].bytes) + (Size(e) + data[r].bytes)
    BY <1>1, <2>2, <2>4, <2>5, HeldMoves
  <2>7. Held(dir, data)' = Held(dir, data) BY <1>2, <2>1, <2>6
  <2>8. StatusFits(r)'
    <3>1. \A d \in crashDirs'[r] : Size(d) = Size(dir[r]) BY <2>1, <2>2, <2>3
    <3>2. StatusSize(r)' = 1 BY <2>2 DEF StatusSize
    <3>3. Held(dir, data)' - Size(dir'[r]) + Size(dir[r]) + 1 <= MaxBytes[r]
      BY <1>2, <2>1, <2>2, <2>4, <2>7
    <3> QED BY <2>2, <3>1, <3>2, <3>3 DEF StatusFits
  <2> QED BY <1>2, <2>2, <2>7, <2>8 DEF Kept, SinkFits
<1>4. CASE \E o \in Runs : RecoverArchive(r, o)
  <2>1. PICK o \in Runs, growth \in Growth :
           /\ data[o].bytes + growth - 1 <= Allotment(r, o)
           /\ data' = [data EXCEPT ![o].framed = data[o].rows, ![o].bytes = @ + growth - 1]
           /\ dir' = dir /\ pc' = pc /\ pc[r] = "recover"
    BY <1>4 DEF RecoverArchive
  <2>2. data[o].bytes \in Int /\ data[o] \in Data /\ Size(dir[o]) \in Nat BY Numbers
  <2>3. growth \in Int BY RunAssumption
  <2>4. data' \in [Runs -> Data] /\ \A q \in Runs \ {o} : data'[q] = data[q]
    BY <1>1, <2>1, FramedTypes
  <2>5. data'[o].bytes = data[o].bytes + growth - 1
    <3>1. data \in [Runs -> Data] BY <1>1 DEF Typed
    <3> QED BY <2>1, <3>1 DEF Data
  <2>6. dir \in [Runs -> DirType] BY <1>1 DEF Typed
  <2>7. Held(dir', data') = Held(dir, data) - (Size(dir[o]) + data[o].bytes) + (Size(dir[o]) + data'[o].bytes)
    BY <1>1, <2>1, <2>4, <2>6, HeldMoves
  <2>8. Used + growth - 1 <= MaxBytes[r] - StatusReserve
    BY <1>2, <2>1, <2>2, <2>3 DEF Allotment
  <2>9. Held(dir, data)' <= MaxBytes[r]
    BY <1>2, <2>2, <2>3, <2>5, <2>7, <2>8
  <2> QED BY <2>1, <2>9 DEF Kept, StatusFits, SinkFits, Publishing
<1> QED BY <1>3, <1>4

\* The sink is opened and appended to within its allotment.
LEMMA SinkKept ==
    ASSUME NEW r \in Runs, BeforeStep(r), OpenSink(r) \/ TakeRow(r) \/ AppendTail(r)
    PROVE  Kept(r)
<1> USE DEF Goto, Return, recVars, BeforeStep
<1>1. Typed /\ RunTrue(r) /\ Settled(r) BY DEF RInv
<1>2. /\ Held(dir, data) \in Int /\ Held(dir, data) <= Used /\ Used \in Int
      /\ dir[r] \in crashDirs[r] /\ Size(dir[r]) \in Nat
      /\ data[r].bytes \in Int /\ MaxBytes[r] \in Nat /\ StatusReserve \in Nat
      /\ dir[r] \in DirType /\ data[r] \in Data
  BY Numbers
<1>3. PICK e : e = [dir[r] EXCEPT !.data = TRUE] OBVIOUS
<1>4. e \in DirType /\ Size(e) = Size(dir[r]) BY <1>2, <1>3, DirTyped, <1>1 DEF Size, DirType
\* Data x of this run alone, in directories that hold as much
<1>5. ASSUME NEW d \in [Runs -> DirType], NEW x \in [Runs -> Data],
             d = dir \/ d = [dir EXCEPT ![r] = e],
             \A q \in Runs \ {r} : x[q] = data[q]
      PROVE  Held(d, x) - x[r].bytes = Held(dir, data) - data[r].bytes /\ Held(d, x) \in Int /\ x[r].bytes \in Int
  <2>1. Size(d[r]) = Size(dir[r]) /\ \A q \in Runs \ {r} : d[q] = dir[q]
    BY <1>1, <1>4, <1>5 DEF Typed
  <2>2. /\ Held(d, x) = Held(dir, data) - (Size(dir[r]) + data[r].bytes) + (Size(d[r]) + x[r].bytes)
        /\ Held(d, x) \in Int
    BY <1>1, <1>5, <2>1, HeldMoves
  <2>3. x[r].bytes \in Int BY DEF Data
  <2> QED BY <1>2, <2>1, <2>2, <2>3
<1>6. CASE OpenSink(r)
  <2>1. /\ allot'[r] = Allotment(r, r) /\ Allotment(r, r) > 0 /\ pc'[r] = "loop"
        /\ dir' = dir \/ dir' = [dir EXCEPT ![r] = e]
        /\ data' = data \/ data' = [data EXCEPT ![r] = [data[r] EXCEPT !.bytes = 1]]
    <3>1. allot'[r] = Allotment(r, r) /\ Allotment(r, r) > 0 /\ pc'[r] = "loop"
      <4>1. allot' = [allot EXCEPT ![r] = Allotment(r, r)] /\ r \in DOMAIN allot
        BY <1>6 DEF OpenSink, FInv
      <4> QED BY <1>1, <1>6, <4>1 DEF OpenSink, Typed
    <3>2. dir' = dir \/ dir' = [dir EXCEPT ![r] = e] BY <1>3, <1>6 DEF OpenSink
    <3>3. data' = data \/ data' = [data EXCEPT ![r] = [data[r] EXCEPT !.bytes = 1]]
      BY <1>6 DEF OpenSink
    <3> QED BY <3>1, <3>2, <3>3
  <2>2. dir' \in [Runs -> DirType] BY <1>1, <1>4, <2>1 DEF Typed
  <2>3. data[r].bytes = 0 BY <1>6 DEF OpenSink, FInv, Fresh
  <2>4. /\ data' \in [Runs -> Data] /\ data'[r].bytes \in {0, 1}
        /\ \A q \in Runs \ {r} : data'[q] = data[q]
    <3>1. [data[r] EXCEPT !.bytes = 1] \in Data /\ [data[r] EXCEPT !.bytes = 1].bytes = 1
      BY <1>2 DEF Data
    <3>2. data \in [Runs -> Data] BY <1>1 DEF Typed
    <3>3. CASE data' = data BY <2>3, <3>2, <3>3
    <3>4. CASE data' = [data EXCEPT ![r] = [data[r] EXCEPT !.bytes = 1]]
      <4> PICK f : f = [data[r] EXCEPT !.bytes = 1] OBVIOUS
      <4>1. data' = [data EXCEPT ![r] = f] /\ f \in Data /\ f.bytes = 1 BY <3>1, <3>4
      <4> QED BY <3>2, <4>1
    <3> QED BY <2>1, <3>3, <3>4
  <2>5. /\ Held(dir', data') - data'[r].bytes = Held(dir, data) - data[r].bytes
        /\ Held(dir', data') \in Int
    BY <1>5, <2>1, <2>2, <2>4
  <2>6. /\ allot'[r] \in Int /\ data'[r].bytes <= allot'[r]
        /\ Held(dir', data') - data'[r].bytes + allot'[r] + StatusReserve <= MaxBytes[r]
    BY <1>2, <2>1, <2>3, <2>4, <2>5 DEF Allotment
  <2>7. Held(dir, data)' <= MaxBytes[r] BY <1>2, <2>4, <2>5, <2>6
  <2> QED BY <2>1, <2>6, <2>7 DEF Kept, StatusFits, SinkFits, Publishing
<1>7. ASSUME pc[r] \in {"loop", "tail"}, pc'[r] \in {"loop", "tail", "finish"}, allot' = allot,
             Appends(r) \/ UNCHANGED <<dir, crashDirs, data>>
      PROVE  Kept(r)
  <2>1. /\ allot[r] \in Int /\ data[r].bytes <= allot[r]
        /\ Held(dir, data) - data[r].bytes + allot[r] + StatusReserve <= MaxBytes[r]
    BY <1>7 DEF SinkFits
  <2>2. CASE UNCHANGED <<dir, crashDirs, data>>
    BY <1>2, <1>7, <2>1, <2>2 DEF Kept, StatusFits, SinkFits, Publishing
  <2>3. CASE Appends(r)
    <3>1. PICK growth \in Growth, seal \in BOOLEAN :
             /\ data[r].bytes + growth <= allot[r]
             /\ data' = [data EXCEPT ![r] =
                   [rows |-> got[r], framed |-> IF seal \/ r \in Raw THEN got[r] ELSE @.framed,
                    bytes |-> @.bytes + growth]]
             /\ dir' = [dir EXCEPT ![r].data = TRUE]
      BY <2>3 DEF Appends
    <3>2. dir' = [dir EXCEPT ![r] = e] BY <1>3, <3>1
    <3>3. dir' \in [Runs -> DirType] /\ data' \in [Runs -> Data] BY <1>1, <2>3, AppendTypes
    <3>4. data'[r].bytes = data[r].bytes + growth /\ \A q \in Runs \ {r} : data'[q] = data[q]
      BY <1>1, <3>1 DEF Typed
    <3>5. /\ Held(dir', data') - data'[r].bytes = Held(dir, data) - data[r].bytes
          /\ Held(dir', data') \in Int /\ data'[r].bytes \in Int
      BY <1>5, <3>2, <3>3, <3>4
    <3>6. /\ data'[r].bytes <= allot[r]
          /\ Held(dir', data') - data'[r].bytes + allot[r] + StatusReserve <= MaxBytes[r]
      BY <2>1, <3>1, <3>4, <3>5
    <3>7. Held(dir, data)' <= MaxBytes[r] BY <1>2, <2>1, <3>5, <3>6
    <3> QED BY <1>7, <2>1, <3>6, <3>7 DEF Kept, StatusFits, SinkFits, Publishing
  <2> QED BY <1>7, <2>2, <2>3
<1>8. CASE TakeRow(r) BY <1>7, <1>8 DEF TakeRow
<1>9. CASE AppendTail(r)
  <2>1. pc'[r] = "finish" BY <1>1, <1>9 DEF AppendTail, Typed
  <2> QED BY <1>7, <1>9, <2>1 DEF AppendTail
<1> QED BY <1>6, <1>8, <1>9

\* A status is written in the room left for it; what follows takes no more.
LEMMA PublishKept ==
    ASSUME NEW r \in Runs, BeforeStep(r),
           \/ WriteTemp(r) \/ LinkStatus(r) \/ UnlinkTemp(r) \/ RenameStatus(r) \/ SyncRun(r)
           \/ RemovePartial(r) \/ SyncClean(r) \/ StatusFails(r)
    PROVE  Kept(r)
<1> USE DEF Goto, Return, recVars, BeforeStep
<1> DEFINE d == dir[r]
<1>1. Typed /\ RunTrue(r) /\ Settled(r) BY DEF RInv
<1>2. /\ Held(dir, data) \in Int /\ d \in crashDirs[r] /\ Size(d) \in Nat
      /\ data[r].bytes \in Int /\ MaxBytes[r] \in Nat /\ StatusReserve \in Nat
      /\ d \in DirType /\ reports[r] \in Nat
      /\ \A f \in crashDirs[r] : Size(f) \in Nat
  BY Numbers
<1>3. Publishing(r) /\ data' = data /\ reports' = reports /\ status' = status /\ pc'[r] # "idle"
      /\ pc'[r] \notin {"loop", "tail", "finish", "writeTemp"}
  BY <1>1 DEF WriteTemp, LinkStatus, UnlinkTemp, RenameStatus, SyncRun, RemovePartial, SyncClean,
          StatusFails, Publishing, Typed
<1>4. \A f \in crashDirs[r] : Held(dir, data) - Size(d) + Size(f) <= MaxBytes[r]
  <2>1. StatusSize(r) \in Nat BY <1>2 DEF StatusSize
  <2> QED BY <1>2, <1>3, <2>1 DEF StatusFits
\* One more directory, that fits
<1>5. ASSUME NEW e \in DirType, Change(r, e), Held(dir, data) - Size(d) + Size(e) <= MaxBytes[r]
      PROVE  Kept(r)
  <2>1. dir' \in [Runs -> DirType] /\ dir'[r] = e /\ (\A q \in Runs \ {r} : dir'[q] = dir[q])
        /\ crashDirs'[r] = crashDirs[r] \cup {e} /\ data \in [Runs -> Data]
    BY <1>1, <1>5 DEF Change, Typed
  <2>2. /\ Held(dir', data') = Held(dir, data) - (Size(d) + data[r].bytes) + (Size(e) + data[r].bytes)
        /\ Held(dir', data') \in Int
    BY <1>1, <1>3, <2>1, HeldMoves
  <2>3. Size(e) \in Nat BY SizeNat
  <2>4. Held(dir', data') - Size(e) = Held(dir, data) - Size(d) BY <1>2, <2>2, <2>3
  <2>5. Held(dir', data') <= MaxBytes[r] BY <1>2, <1>5, <2>2, <2>3, <2>4
  <2>6. \A f \in crashDirs[r] \cup {e} : Held(dir', data') - Size(e) + Size(f) <= MaxBytes[r]
    BY <1>4, <1>5, <2>4
  <2>7. \A f \in crashDirs'[r] : Held(dir', data') - Size(dir'[r]) + Size(f) + 0 <= MaxBytes[r]
    <3>1. \A f \in crashDirs'[r] : Size(f) \in Nat BY <1>2, <2>1, <2>3
    <3> QED BY <2>1, <2>2, <2>3, <2>6, <3>1
  <2>8. StatusFits(r)' BY <1>3, <2>7 DEF StatusFits
  <2> QED BY <1>3, <2>5, <2>8 DEF Kept, SinkFits
<1>6. ASSUME NEW e \in DirType, Change(r, e), Size(e) <= Size(d)
      PROVE  Kept(r)
  <2>1. Size(e) \in Nat BY SizeNat
  <2>2. Held(dir, data) - Size(d) + Size(d) <= MaxBytes[r] BY <1>2, <1>4
  <2> QED BY <1>2, <1>5, <1>6, <2>1, <2>2
<1>7. CASE dir' = dir /\ (crashDirs' = crashDirs \/ crashDirs'[r] = {d})
  <2>1. Held(dir', data') = Held(dir, data) BY <1>3, <1>7
  <2>2. \A f \in crashDirs'[r] : Held(dir', data') - Size(dir'[r]) + Size(f) + 0 <= MaxBytes[r]
    BY <1>2, <1>4, <1>7, <2>1
  <2>3. StatusFits(r)' BY <1>3, <2>2 DEF StatusFits
  <2> QED BY <1>2, <1>3, <2>1, <2>3 DEF Kept, SinkFits
<1>8. CASE WriteTemp(r)
  <2> PICK e : e = [d EXCEPT !.temp = StatusSize(r)] OBVIOUS
  <2>1. StatusSize(r) \in Nat BY <1>2 DEF StatusSize
  <2>2. e \in DirType /\ Size(e) = StatusSize(r) + d.partial.size + d.complete.size
    BY <1>2, <2>1 DEF Size, DirType
  <2>3. Change(r, e) /\ pc[r] = "writeTemp" BY <1>8 DEF WriteTemp
  <2>4. Held(dir, data) - Size(d) + Size(d) + StatusSize(r) <= MaxBytes[r]
    BY <1>2, <1>3, <2>3 DEF StatusFits
  <2>5. Size(e) <= Size(d) + StatusSize(r) /\ Size(e) \in Nat
    BY <1>2, <2>1, <2>2, SizeNat DEF Size
  <2> QED BY <1>2, <1>5, <2>1, <2>2, <2>3, <2>4, <2>5
<1>9. /\ d.temp \in Nat /\ d.partial.size \in Nat /\ d.complete.size \in Nat
      /\ d.partial \in StatusType /\ d.complete \in StatusType
  BY <1>2, SizeNat DEF DirType
<1>10. CASE LinkStatus(r) \/ RenameStatus(r)
  <2>1. PICK n \in {1, 2} : \/ Change(r, [d EXCEPT !.complete = Published(r, n), !.temp = 0])
                            \/ Change(r, [d EXCEPT !.partial = Published(r, n), !.temp = 0])
    BY <1>10 DEF LinkStatus, RenameStatus
  <2> PICK s : s = Published(r, n) OBVIOUS
  <2>2. s \in StatusType /\ s.size = d.temp BY <1>1, PublishedType DEF Published
  <2>3. ASSUME NEW e, e = [d EXCEPT !.complete = s, !.temp = 0] \/ e = [d EXCEPT !.partial = s, !.temp = 0]
        PROVE  e \in DirType /\ Size(e) <= Size(d)
    <3>1. e \in DirType BY <1>2, <2>2, <2>3, DirChanges
    <3>2. \/ e.temp = 0 /\ e.complete.size = d.temp /\ e.partial.size = d.partial.size
          \/ e.temp = 0 /\ e.partial.size = d.temp /\ e.complete.size = d.complete.size
      BY <1>2, <2>2, <2>3 DEF DirType
    <3> QED BY <1>9, <3>1, <3>2 DEF Size
  <2> QED BY <1>6, <2>1, <2>3
<1>11. ASSUME NEW e, e \in {[d EXCEPT !.complete.links = 1], [d EXCEPT !.partial.links = 1], [d EXCEPT !.temp = 0]}
       PROVE  e \in DirType /\ Size(e) <= Size(d)
  <2>1. e \in DirType BY <1>1, <1>11, DirTyped
  <2>2. e.temp \in {0, d.temp} /\ e.complete.size = d.complete.size /\ e.partial.size = d.partial.size
    BY <1>2, <1>9, <1>11 DEF DirType, StatusType
  <2> QED BY <1>9, <2>1, <2>2 DEF Size
<1>12. CASE UnlinkTemp(r)
  <2>1. Change(r, [d EXCEPT !.complete.links = 1]) \/ Change(r, [d EXCEPT !.partial.links = 1])
    BY <1>12 DEF UnlinkTemp
  <2> QED BY <1>6, <1>11, <2>1
<1>13. CASE RemovePartial(r)
  <2> PICK e : e = [d EXCEPT !.partial = NoStatus] OBVIOUS
  <2>1. Change(r, e) BY <1>13 DEF RemovePartial
  <2>2. e \in DirType BY <1>1, DirTyped
  <2>3. e.temp = d.temp /\ e.complete = d.complete /\ e.partial.size = 0
    BY <1>2 DEF DirType, NoStatus
  <2>4. Size(e) <= Size(d) BY <1>9, <2>3 DEF Size
  <2> QED BY <1>6, <2>1, <2>2, <2>4
<1>14. CASE SyncRun(r) \/ SyncClean(r)
  BY <1>1, <1>7, <1>14 DEF SyncRun, SyncClean, Sync, Typed
<1>15. CASE StatusFails(r)
  <2>1. \/ Change(r, [d EXCEPT !.complete.links = 1])
        \/ Change(r, [d EXCEPT !.partial.links = 1])
        \/ Change(r, [d EXCEPT !.temp = 0])
        \/ UNCHANGED <<dir, crashDirs>>
    BY <1>15 DEF StatusFails
  <2> QED BY <1>6, <1>7, <1>11, <2>1
<1> QED BY <1>8, <1>10, <1>12, <1>13, <1>14, <1>15

\* A power loss, the first failure, takes an unsynced publication back, and no more.
LEMMA PowerLossFits ==
    ASSUME RInv, faults = 0, \A r \in Runs : Settled(r) /\ StatusFits(r), Fits, PowerLoss
    PROVE  Fits'
<1>1. Typed /\ Locked /\ Typed' BY OtherTypes DEF RInv
<1>2. PICK r \in Runs : Active(r) BY DEF PowerLoss
<1>3. \A q \in Runs \ {r} : ~Active(q) BY <1>1, <1>2 DEF Locked
<1>4. /\ \A q \in Runs : dir'[q] \in crashDirs[q] /\ pc'[q] = IF Active(q) THEN "dead" ELSE pc[q]
      /\ data' = data
  BY DEF PowerLoss
<1>5. \A q \in Runs \ {r} : dir'[q] = dir[q]
  BY <1>3, <1>4 DEF Settled, Active, Publishing
<1>6. dir' \in [Runs -> DirType] /\ data \in [Runs -> Data] BY <1>1 DEF Typed
<1>7. /\ Held(dir', data') = Held(dir, data) - (Size(dir[r]) + data[r].bytes) + (Size(dir'[r]) + data[r].bytes)
      /\ Held(dir', data') \in Int
  BY <1>1, <1>4, <1>5, <1>6, HeldMoves
<1>8. /\ Held(dir, data) \in Int /\ Size(dir[r]) \in Nat /\ Size(dir'[r]) \in Nat /\ data[r].bytes \in Int
      /\ MaxBytes[r] \in Nat /\ reports[r] \in Nat
  BY <1>4, Numbers
<1>9. pc'[r] = "dead" /\ \A q \in Runs : pc[q] # "idle" => pc'[q] # "idle" BY <1>2, <1>4
<1>10. CASE Publishing(r)
  <2>1. StatusSize(r) \in Nat BY <1>8 DEF StatusSize
  <2>2. Held(dir, data) - Size(dir[r]) + Size(dir'[r]) <= MaxBytes[r]
    BY <1>4, <1>8, <1>10, <2>1 DEF StatusFits
  <2>3. Held(dir', data') <= MaxBytes[r] BY <1>7, <1>8, <2>2
  <2> QED BY <1>9, <2>3 DEF Fits
<1>11. CASE ~Publishing(r)
  <2>1. dir'[r] = dir[r] BY <1>2, <1>4, <1>11 DEF Settled, Active
  <2>2. Held(dir', data') = Held(dir, data) BY <1>7, <1>8, <2>1
  <2> QED BY <1>9, <2>2 DEF Fits
<1> QED BY <1>10, <1>11

\* An inspection recovers within what is there, or without a limit.
LEMMA InspectionFits ==
    ASSUME RInv, Fits, \A r \in Runs : StatusFits(r) /\ SinkFits(r), ~Excused',
           \/ \E r \in Runs, via \in Vias : Inspect(r, via)
           \/ ReadPartial \/ ReadComplete \/ InspectRecovers \/ Visit
    PROVE  Fits' /\ \A r \in Runs : StatusFits(r)' /\ SinkFits(r)'
<1> USE DEF recVars
<1>1. CASE (\E r \in Runs, via \in Vias : Inspect(r, via)) \/ ReadPartial \/ ReadComplete \/ Visit
  <2>1. UNCHANGED <<pc, dir, crashDirs, data, status, reports, allot>>
    BY <1>1 DEF Inspect, ReadPartial, ReadComplete, Visit
  <2> QED BY <2>1 DEF Fits, StatusFits, SinkFits, StatusSize, Publishing
<1>2. CASE InspectRecovers
  <2>1. Typed BY DEF RInv
  <2>2. PICK o \in Runs : o = insp.run BY <1>2 DEF InspectRecovers, RInv, Inspected
  <2>3. PICK growth \in Growth :
           /\ data' = [data EXCEPT ![o].framed = data[o].rows, ![o].bytes = @ + growth - 1]
           /\ unlimited' = (unlimited \/ growth > 1)
    BY <1>2, <2>2 DEF InspectRecovers
  <2>4. growth = 1
    <3>1. growth \in Nat \ {0} BY RunAssumption
    <3>2. ~(growth > 1) BY <2>3, Zenon DEF Excused
    <3> QED BY <3>1, <3>2
  <2>5. data' \in [Runs -> Data] /\ \A q \in Runs \ {o} : data'[q] = data[q] BY <2>1, <2>3, FramedTypes
  <2>6. \A q \in Runs : data[q].bytes \in Int /\ Size(dir[q]) \in Nat BY Numbers
  <2>7. data'[o].bytes = data[o].bytes
    <3>1. data \in [Runs -> Data] BY <2>1 DEF Typed
    <3>2. data'[o].bytes = data[o].bytes + growth - 1 BY <2>3, <3>1 DEF Data
    <3> QED BY <2>4, <2>6, <3>2
  <2>8. \A q \in Runs : data'[q].bytes = data[q].bytes BY <2>5, <2>7
  <2>9. UNCHANGED <<pc, dir, crashDirs, status, reports, allot>> BY <1>2 DEF InspectRecovers
  <2>10. dir \in [Runs -> DirType] BY <2>1 DEF Typed
  <2>11. Held(dir, data') = Held(dir, data) - (Size(dir[o]) + data[o].bytes) + (Size(dir[o]) + data'[o].bytes)
    BY <2>1, <2>5, <2>10, HeldMoves
  <2>12. Held(dir, data) \in Int BY <2>1, HeldTypes
  <2>13. Held(dir, data)' = Held(dir, data) BY <2>6, <2>7, <2>9, <2>11, <2>12
  <2> QED BY <2>8, <2>9, <2>13 DEF Fits, StatusFits, SinkFits, StatusSize, Publishing
<1> QED BY <1>1, <1>2

\* Every step keeps both.
LEMMA NextBInv ==
    ASSUME RInv, FInv, BInv, [Next]_vars
    PROVE  FInv' /\ BInv'
<1>1. CASE UNCHANGED vars
  BY <1>1 DEF vars, recVars, FInv, Fresh, BInv, Settled, Publishing, Excused, Fits, StatusFits,
              SinkFits, StatusSize
<1>2. CASE Next
  <2> USE <1>2
  <2>1. FInv' /\ faults' \in Nat /\ \A r \in Runs : Settled(r)'
    BY StaysSettled, StaysFresh DEF BInv
  <2>2. Typed /\ Locked /\ faults \in Nat BY DEF RInv, BInv
  <2> SUFFICES ASSUME ~Excused' PROVE Fits' /\ \A r \in Runs : StatusFits(r)' /\ SinkFits(r)'
    BY <2>1 DEF BInv
  <2>3. ~Excused /\ Fits /\ \A r \in Runs : StatusFits(r) /\ SinkFits(r)
    BY <2>2, StaysExcused DEF BInv
  <2>4. CASE \E r \in Runs : Recorder(r)
    <3>1. PICK r \in Runs : Recorder(r) BY <2>4
    <3>2. BeforeStep(r)
      <4>1. 1 + reports[r] <= StatusReserve
        <5>1. reports[r] \in Nat /\ StatusReserve \in Nat BY Numbers
        <5> QED BY <2>3, <5>1 DEF Excused
      <4> QED BY <2>2, <2>3, <4>1 DEF BeforeStep, BInv
    <3>3. Kept(r)
      BY <3>1, <3>2, QuietKept, RecoverKept, SinkKept, PublishKept DEF Recorder
    <3>4. \A q \in Runs \ {r} : Untouched(q) BY <2>2, <3>1, OthersUntouched
    <3>5. Fits'
      <4>1. pc[r] # "idle" => pc'[r] # "idle"
        BY <2>2, <3>1 DEF Recorder, TakeLock, LockBusy, ScanOldRuns, RefuseOldRuns,
       RecoverArchive, WarnArchive, MakeRun, NoRoomForRun, OpenSink, NoRoomForSink, TakeRow, RowFails, TakeEnd,
       AppendTail, TailFails, FinishSink, FinishFails, WriteTemp, LinkStatus, UnlinkTemp,
       RenameStatus, SyncRun, RemovePartial, SyncClean, StatusFails, Goto, Return, Typed
      <4>2. \A q \in Runs : pc[q] # "idle" => pc'[q] # "idle" BY <3>4, <4>1 DEF Untouched
      <4>3. Held(dir, data) \in Int /\ Held(dir, data)' \in Int
        <5>1. Typed' BY <2>2, <3>1, RecorderTypes
        <5>2. dir' \in [Runs -> DirType] /\ data' \in [Runs -> Data] BY <5>1 DEF Typed
        <5>3. Held(dir', data') \in Int BY HeldTyped, <5>2
        <5> QED BY <2>2, <5>3, HeldTypes
      <4>4. MaxBytes \in [Runs -> Nat] BY RunAssumption
      <4> QED BY <2>3, <3>3, <4>2, <4>3, <4>4 DEF Kept, Fits
    <3>6. ASSUME NEW q \in Runs \ {r} PROVE StatusFits(q)' /\ SinkFits(q)'
      <4>1. CASE Active(r)
        <5>1. ~Active(q) BY <2>2, <4>1 DEF Locked
        <5> QED BY <3>4, <5>1 DEF Untouched, Active, StatusFits, SinkFits, Publishing
      <4>2. CASE ~Active(r)
        <5>1. /\ TakeLock(r) \/ LockBusy(r)
          BY <3>1, <4>2 DEF Active, Recorder, ScanOldRuns, RefuseOldRuns,
       RecoverArchive, WarnArchive, MakeRun, NoRoomForRun, OpenSink, NoRoomForSink, TakeRow, RowFails, TakeEnd,
       AppendTail, TailFails, FinishSink, FinishFails, WriteTemp, LinkStatus, UnlinkTemp,
       RenameStatus, SyncRun, RemovePartial, SyncClean, StatusFails
        <5>2. UNCHANGED <<dir, crashDirs, data, status, reports, allot>>
          BY <5>1 DEF TakeLock, LockBusy, recVars
        <5> QED BY <2>3, <3>4, <5>2 DEF Untouched, StatusFits, SinkFits, Publishing, StatusSize
      <4> QED BY <4>1, <4>2
    <3> QED BY <3>3, <3>5, <3>6 DEF Kept
  <2>5. CASE \E r \in Runs : Kill(r)
    <3>1. PICK r \in Runs : Kill(r) BY <2>5
    <3>2. UNCHANGED <<dir, crashDirs, data, status, reports, allot>> /\ pc' = [pc EXCEPT ![r] = "dead"]
      BY <3>1 DEF Kill, recVars, Goto
    <3>3. \A q \in Runs : pc'[q] = pc[q] \/ pc'[q] = "dead" BY <2>2, <3>2 DEF Typed
    <3>4. \A q \in Runs : StatusFits(q)' /\ SinkFits(q)'
      BY <2>3, <3>2, <3>3 DEF StatusFits, SinkFits, Publishing, StatusSize
    <3>5. Fits' BY <2>3, <3>2, <3>3 DEF Fits
    <3> QED BY <3>4, <3>5
  <2>6. CASE PowerLoss
    <3>1. faults = 0
      <4>1. faults' = faults + 1 /\ ~(faults' > 1) BY <2>6 DEF PowerLoss, Excused
      <4> QED BY <2>2, <4>1
    <3>2. Fits' BY <2>3, <2>6, <3>1, PowerLossFits DEF BInv
    <3>3. \A q \in Runs : ~Active(q)' BY <2>6 DEF PowerLoss, Active
    <3> QED BY <3>2, <3>3 DEF StatusFits, SinkFits, Publishing, Active
  <2>7. CASE \/ \E r \in Runs, via \in Vias : Inspect(r, via)
             \/ ReadPartial \/ ReadComplete \/ InspectRecovers \/ Visit
    BY <2>3, <2>7, InspectionFits
  <2> QED BY <2>4, <2>5, <2>6, <2>7 DEF Next
<1> QED BY <1>1, <1>2

LEMMA InitBInv == Init => FInv /\ BInv
<1> SUFFICES ASSUME Init PROVE FInv /\ BInv OBVIOUS
<1> USE DEF Init
<1>1. FInv BY DEF FInv, Fresh, NoDir, Publishing
<1>2. faults \in Nat /\ \A r \in Runs : Settled(r) BY DEF Settled
<1>3. \A r \in Runs : StatusFits(r) /\ SinkFits(r) BY DEF StatusFits, SinkFits, Publishing
<1>4. Fits
  <2> DEFINE h == Weights(dir, data)
  <2>1. h = [r \in Runs |-> 0] BY DEF Weights, NoDir, NoStatus
  <2>2. PICK g : Sums(g, h, Runs) /\ Held(dir, data) = g[Runs] BY HeldSums
  <2> HIDE DEF h
  <2>4. Held(dir, data) <= 0 BY <2>1, <2>2, NoSum, RunAssumption
  <2> QED BY <2>4 DEF Fits
<1> QED BY <1>1, <1>2, <1>3, <1>4 DEF BInv

LEMMA AlwaysBInv == Spec => [](RInv /\ FInv /\ BInv)
<1>1. Init => RInv /\ FInv /\ BInv BY InitRInv, InitBInv
<1>2. (RInv /\ FInv /\ BInv) /\ [Next]_vars => (RInv /\ FInv /\ BInv)' BY NextRInv, NextBInv
<1> QED BY <1>1, <1>2, PTL DEF Spec

-----------------------------------------------------------------------------
(* The limit of the root: theorem                                           *)

\* Max is the greatest of a finite set.
LEMMA MaxOf ==
    ASSUME NEW S \in SUBSET Nat, IsFiniteSet(S), S # {}
    PROVE  Max(S) \in S /\ \A x \in S : x <= Max(S)
<1> DEFINE T == {n \in Nat : \A s \in SUBSET S : Cardinality(s) = n /\ s # {} => \E x \in s : \A y \in s : x >= y}
<1>1. 0 \in T BY Smaller
<1>2. ASSUME NEW n \in Nat, n \in T PROVE n + 1 \in T
  <2> SUFFICES ASSUME NEW s \in SUBSET S, Cardinality(s) = n + 1, s # {}
               PROVE  \E x \in s : \A y \in s : x >= y
    OBVIOUS
  <2> PICK z \in S, t \in SUBSET S : z = Pick(s) /\ t = s \ {Pick(s)} /\ z \in s BY Smaller
  <2>1. Cardinality(t) = n
    <3>1. Cardinality(t) = Cardinality(s) - 1 BY Smaller
    <3> QED BY <3>1
  <2>2. CASE t = {}
    <3>1. s = {z} BY <2>2
    <3> QED BY <3>1
  <2>3. CASE t # {}
    <3>1. PICK x \in t : \A y \in t : x >= y BY <1>2, <2>1, <2>3
    <3>2. \A y \in s : y = z \/ y \in t OBVIOUS
    <3>3. x \in Nat /\ z \in Nat /\ \A y \in t : y \in Nat OBVIOUS
    <3>4. CASE x >= z BY <3>1, <3>2, <3>4
    <3>5. CASE ~(x >= z)
      <4>1. \A y \in t : z >= y BY <3>1, <3>3, <3>5
      <4> QED BY <3>2, <3>3, <4>1
    <3> QED BY <3>4, <3>5
  <2> QED BY <2>2, <2>3
<1>3. Cardinality(S) \in T
  <2>1. Cardinality(S) \in Nat BY FS_CardinalityType
  <2> HIDE DEF T
  <2> QED BY <2>1, <1>1, <1>2, Induction
<1>4. \E x \in S : \A y \in S : x >= y BY <1>3
<1>5. Max(S) \in S /\ \A y \in S : Max(S) >= y BY <1>4 DEF Max
<1> QED BY <1>5

\* The root stays within the greatest limit, but for what the code lets exceed it
\* (archive_options_for_root, STATUS_CAPACITY_RESERVE).
THEOREM AlwaysWithinLimit == Spec => []TypeOK
<1>1. RInv /\ FInv /\ BInv => TypeOK
  <2> SUFFICES ASSUME RInv, FInv, BInv PROVE TypeOK OBVIOUS
  <2>1. Typed /\ Locked /\ \A r \in Runs : RunTrue(r) /\ Outcome(r) BY DEF RInv, RunTrue
  <2>2. \A r \in Runs : Active(r) <=> lock = r BY <2>1 DEF Locked
  <2>3. \A r \in Runs : /\ dir[r] \in DirType /\ dir[r] \in crashDirs[r]
                        /\ 0 <= data[r].framed /\ data[r].framed <= data[r].rows
                        /\ data[r].rows <= got[r]
    <3> TAKE r \in Runs
    <3>1. data[r].framed \in Nat BY <2>1 DEF Typed, Data
    <3> QED BY <2>1, <3>1 DEF Typed, RunTrue, Outcome
  <2>4. RootWithinLimit
    <3> SUFFICES ASSUME ~Excused
                 PROVE  MapThenSumSet(LAMBDA r : dir[r].temp + dir[r].partial.size + dir[r].complete.size
                                + data[r].bytes, Runs) <= Max({MaxBytes[r] : r \in {o \in Runs : pc[o] # "idle"}} \cup {0})
      BY Zenon DEF RootWithinLimit, Excused
    <3> DEFINE S == {MaxBytes[r] : r \in {o \in Runs : pc[o] # "idle"}} \cup {0}
    <3>1. S \in SUBSET Nat /\ 0 \in S BY RunAssumption
    <3>2. IsFiniteSet(S)
      <4>1. IsFiniteSet({o \in Runs : pc[o] # "idle"}) BY RunAssumption, FS_Subset
      <4>2. PICK D : D = {o \in Runs : pc[o] # "idle"} OBVIOUS
      <4>3. PICK T : T = {MaxBytes[r] : r \in D} OBVIOUS
      <4>4. [r \in D |-> MaxBytes[r]] \in Surjection(D, T) BY <4>3 DEF Surjection
      <4>5. IsFiniteSet(D) BY <4>1, <4>2
      <4>6. IsFiniteSet(T) BY <4>4, <4>5, FS_Surjection
      <4>7. S = T \cup {0} BY <4>2, <4>3
      <4> QED BY <4>6, <4>7, FS_AddElement
    <3>3. \A x \in S : x <= Max(S) BY <3>1, <3>2, MaxOf
    <3>4. Max(S) \in Int
      <4>1. Max(S) \in S BY <3>1, <3>2, MaxOf
      <4> QED BY <3>1, <4>1
    <3>5. Held(dir, data) \in Int BY <2>1, HeldTypes
    <3>6. \E x \in S : Held(dir, data) <= x BY DEF BInv, Fits
    <3> HIDE DEF S
    <3>7. Held(dir, data) <= Max(S) BY <3>1, <3>3, <3>4, <3>5, <3>6
    <3> QED BY <3>7, Zenon DEF Held, S
  <2> QED BY <2>1, <2>2, <2>3, <2>4 DEF TypeOK, Typed
<1> QED BY <1>1, AlwaysBInv, PTL
=============================================================================
