---------------------------- MODULE ArchiveStore ----------------------------
(***************************************************************************)
(* The archive of one recording profile: ArchiveWriter of                  *)
(* recording/store.rs, one system call at a time, over a directory that    *)
(* can lose what was not synced.                                           *)
(*                                                                         *)
(* A block is an id and a value.  The value stands for the block's bytes   *)
(* and its digests; it is the number of the append call that offered it,   *)
(* so a lost, repeated or reordered block is visible.  A frame is the set  *)
(* of the blocks it holds and its file name is the set of their ids.       *)
(*                                                                         *)
(* The directory is the record dir.  crashDirs holds every directory a     *)
(* power loss may leave: entries reach the disk in the order the calls     *)
(* made them, and any number of the calls since the last sync_directory    *)
(* may be missing.  File contents are synced before their name is          *)
(* published, except the journal's, whose unsynced end may be torn.        *)
(***************************************************************************)
EXTENDS Integers, FiniteSets

CONSTANTS
  MaxBlocks,      \* MAX_BLOCKS_PER_FRAME
  MaxFrames,      \* MAX_ARCHIVE_FRAMES
  FrameLimit,     \* StoreOptions.frame_bytes
  MaxBytes,       \* StoreOptions.max_bytes
  MaxManifest,    \* MAX_MANIFEST_BYTES
  BlockSizes,     \* the sizes of the blocks offered
  FrameSizes,     \* the sizes a frame may compress to
  ManifestHead,   \* the bytes of a manifest that lists no frame
  ManifestEntry,  \* the bytes it takes to list one more
  MetaBytes,      \* the size of archive.json
  JournalHead,    \* the bytes of JOURNAL_MAGIC
  RecordHead,     \* a journal record's bytes beside its block
  MaxAttempts,    \* bound: append calls
  MaxFaults       \* bound: failed system calls, kills and power losses

ASSUME StoreAssumption ==
  /\ MaxBlocks \in Nat \ {0} /\ MaxFrames \in Nat \ {0} /\ FrameLimit \in Nat \ {0}
  /\ MaxBytes \in Nat /\ MaxManifest \in Nat /\ MetaBytes \in Nat
  /\ ManifestHead \in Nat \ {0} /\ ManifestEntry \in Nat
  /\ JournalHead \in Nat /\ RecordHead \in Nat
  /\ MaxAttempts \in Nat /\ MaxFaults \in Nat
  /\ BlockSizes \subseteq Nat \ {0}
  /\ FrameSizes \subseteq Nat

VARIABLES
  dir,            \* the archive directory as a running process sees it
  crashDirs,      \* the directories a power loss may leave
  pc,             \* the next system call of the process that holds the lock
  task,           \* the operation it belongs to
  catalog,        \* ArchiveWriter.frames
  active,         \* ArchiveWriter.active
  activeBytes,    \* ArchiveWriter.active_wire_bytes
  usage,          \* ArchiveWriter.usage_bytes
  nextId,         \* ArchiveWriter.next_id
  batch,          \* publish_blocks' argument
  req,            \* the append call under way: its size, its journal bytes
  attempt,        \* append calls so far
  acked,          \* the blocks whose append returned Ok
  faults          \* faults so far

storage == <<dir, crashDirs>>
writer  == <<pc, task, catalog, active, activeBytes, usage, nextId, batch, req>>
client  == <<attempt, acked, faults>>
vars    == <<storage, writer, client>>

Rec == [id : Nat, val : Nat]
Ids(B) == {r.id : r \in B}

NoManifest == [listed |-> {}, bytes |-> 0]
NoJournal  == [born |-> 0, recs |-> {}, torn |-> FALSE, bytes |-> 0]
NoReq      == [size |-> 0, growth |-> 0, created |-> FALSE]

EmptyDir ==
  [meta |-> FALSE, frames |-> {}, frameBytes |-> 0, manifest |-> NoManifest,
   journal |-> NoJournal, temp |-> 0]

JournalExists(d) == d.journal.born # 0

\* The bytes of every file of the directory (directory_bytes).
DirectoryBytes(d) ==
  (IF d.meta THEN MetaBytes ELSE 0)
    + d.frameBytes + d.manifest.bytes + d.journal.bytes + d.temp

ManifestSize(n) == ManifestHead + n * ManifestEntry

\* The manifest that lists the frames F (encode_manifest).
EncodeManifest(F) == [listed |-> F, bytes |-> ManifestSize(Cardinality(F))]

\* The id after the last block of the frames F.
NextBlock(F) ==
  LET ids == Ids(UNION F)
  IN  CHOOSE n \in {0} \cup {i + 1 : i \in ids} : \A i \in ids : i < n

\* validate_frame_sequence: the frames start at zero, leave no gap and do not
\* overlap.
ValidSequence(F) ==
  /\ Cardinality(F) <= MaxFrames
  /\ Ids(UNION F) = 0..(NextBlock(F) - 1)
  /\ \A f, g \in F : f # g => Ids(f) \cap Ids(g) = {}

\* publish_blocks' checks: the ids of B are consecutive and follow those of F.
Continues(B, F) ==
  /\ Cardinality(B) <= MaxBlocks
  /\ Ids(B) = NextBlock(F)..(NextBlock(F) + Cardinality(B) - 1)

\* ensure_capacity_at's byte limit.  Its free-space reserve depends on the
\* other users of the disk and is one of the causes of StorageError.
Fits(used, additional) == used + additional <= MaxBytes

-----------------------------------------------------------------------------
(* The journal.                                                            *)

\* read_journal_prefix: a record counts if everything before it does, its id
\* follows, and the frame limit is not exceeded.  A record written after a torn
\* one, or out of order, is never reached, so it is not kept here.
WriteRecord(j, r, n) ==
  [j EXCEPT
     !.recs = IF ~j.torn /\ (@ = {} \/ (r.id - 1 \in Ids(@) /\ r.id \notin Ids(@)))
              THEN @ \cup {r} ELSE @,
     !.bytes = @ + n]

TearRecord(j, n) == [j EXCEPT !.torn = TRUE, !.bytes = @ + n]

\* Mutant: a torn end makes the whole journal unreadable.
ReadJournalOrNothing(j) == IF j.torn THEN {} ELSE j.recs

ReadJournal(j) == {r \in j.recs : \A q \in j.recs : r.id < q.id + MaxBlocks}

\* The journalled blocks that no frame up to block n holds, as far as they are
\* consecutive from n.
Pending(j, n) ==
  LET rs == ReadJournal(j)
  IN  {r \in rs : r.id >= n /\ n..r.id \subseteq Ids(rs)}

\* A journalled block that a frame should hold and does not.
Conflict(j, F) ==
  \E r \in ReadJournal(j) : r.id < NextBlock(F) /\ r \notin UNION F

\* What a reopen of d returns: the frames, then the journal's pending blocks.
Recoverable(d) == (UNION d.frames) \cup Pending(d.journal, NextBlock(d.frames))

-----------------------------------------------------------------------------
(* Steps.  Change makes a directory change, SyncDirectory makes all past   *)
(* ones durable: the names, and the files synced before they got them.     *)
(* The journal alone is written in place.  What it holds after a power     *)
(* loss is SyncJournalFile's affair and not that of the directory.         *)

Move(from, to) == pc = from /\ pc' = to

\* Directory d, the journal's file with all it may hold after a power loss.
Written(d) ==
  {[d EXCEPT !.journal = e.journal] : e \in {c \in crashDirs : c.journal.born = d.journal.born}}

Change(d) ==
  /\ dir' = d
  /\ crashDirs' = crashDirs \cup {d} \cup Written(d)

SyncDirectory ==
  /\ crashDirs' = Written(dir)
  /\ UNCHANGED dir

\* The writer is dropped: its memory and its lock are gone.
Release ==
  /\ pc' = "closed"
  /\ task' = "none"
  /\ catalog' = {}
  /\ active' = {}
  /\ activeBytes' = 0
  /\ usage' = 0
  /\ nextId' = 0
  /\ batch' = {}
  /\ req' = NoReq

\* An operation returns an error.  open and finish give the writer up, any
\* other operation leaves it poisoned.
Fail ==
  IF task \in {"open", "recover", "finish"}
  THEN Release
  ELSE /\ pc' = "poisoned"
       /\ UNCHANGED <<task, catalog, active, activeBytes, usage, nextId, batch, req>>

Same == UNCHANGED <<catalog, active, activeBytes, usage, nextId, batch, req>>

Init ==
  /\ dir = EmptyDir
  /\ crashDirs = {EmptyDir}
  /\ pc = "closed"
  /\ task = "none"
  /\ catalog = {}
  /\ active = {}
  /\ activeBytes = 0
  /\ usage = 0
  /\ nextId = 0
  /\ batch = {}
  /\ req = NoReq
  /\ attempt = 0
  /\ acked = {}
  /\ faults = 0

-----------------------------------------------------------------------------
(* ArchiveWriter::open.  Another opener fails at the lock and changes      *)
(* nothing.                                                                *)

AcquireLock ==
  /\ Move("closed", "cleanup")
  /\ task' = "open"
  /\ Same
  /\ UNCHANGED <<storage, client>>

\* The three removals of temporary files, as one.
RemoveTemps ==
  /\ Move("cleanup", "metadata")
  /\ Change([dir EXCEPT !.temp = 0])
  /\ Same
  /\ UNCHANGED <<task, client>>

HasContent(d) == d.frames # {} \/ d.manifest # NoManifest \/ JournalExists(d)

WriteMetadata ==
  /\ Move("metadata", "metadataRename")
  /\ ~dir.meta /\ ~HasContent(dir)
  /\ Fits(DirectoryBytes(dir), MetaBytes)
  /\ Change([dir EXCEPT !.temp = MetaBytes])
  /\ Same
  /\ UNCHANGED <<task, client>>

RenameMetadata ==
  /\ Move("metadataRename", "metadataSync")
  /\ Change([dir EXCEPT !.meta = TRUE, !.temp = 0])
  /\ Same
  /\ UNCHANGED <<task, client>>

SyncMetadata ==
  /\ Move("metadataSync", "metadata")
  /\ SyncDirectory
  /\ Same
  /\ UNCHANGED <<task, client>>

\* scan_frames, validate_frame_sequence and directory_bytes.
LoadCatalog ==
  /\ Move("metadata", "manifest")
  /\ dir.meta
  /\ ValidSequence(dir.frames)
  /\ catalog' = dir.frames
  /\ usage' = DirectoryBytes(dir)
  /\ UNCHANGED <<storage, task, active, activeBytes, nextId, batch, req, client>>

-----------------------------------------------------------------------------
(* rebuild_manifest, called by open and after every publication.           *)

AfterManifest == IF task = "open" THEN "recover" ELSE "unlink"

ManifestCurrent ==
  /\ Move("manifest", AfterManifest)
  /\ dir.manifest = EncodeManifest(catalog)
  /\ Same
  /\ UNCHANGED <<storage, task, client>>

ManifestFits(F) ==
  LET n == EncodeManifest(F).bytes
  IN  n <= MaxManifest /\ Fits(usage, n)

WriteManifest ==
  /\ Move("manifest", "manifestRename")
  /\ dir.manifest # EncodeManifest(catalog)
  /\ ManifestFits(catalog)
  /\ Change([dir EXCEPT !.temp = EncodeManifest(catalog).bytes])
  /\ Same
  /\ UNCHANGED <<task, client>>

\* Mutant: the replaced manifest stays in the account.
RenameManifestKeepUsage ==
  /\ Move("manifestRename", "manifestSync")
  /\ Change([dir EXCEPT !.manifest = EncodeManifest(catalog), !.temp = 0])
  /\ usage' = usage + EncodeManifest(catalog).bytes
  /\ UNCHANGED <<task, catalog, active, activeBytes, nextId, batch, req, client>>

RenameManifest ==
  /\ Move("manifestRename", "manifestSync")
  /\ Change([dir EXCEPT !.manifest = EncodeManifest(catalog), !.temp = 0])
  /\ usage' = (usage - dir.manifest.bytes) + EncodeManifest(catalog).bytes
  /\ UNCHANGED <<task, catalog, active, activeBytes, nextId, batch, req, client>>

SyncManifest ==
  /\ Move("manifestSync", AfterManifest)
  /\ SyncDirectory
  /\ Same
  /\ UNCHANGED <<task, client>>

-----------------------------------------------------------------------------
(* recover_journal.                                                        *)

\* Mutant: the writer continues with the last id instead of the next.
NothingToRecoverReuseId ==
  /\ Move("recover", "ready")
  /\ ~JournalExists(dir)
  /\ task' = "none"
  /\ nextId' = NextBlock(catalog) - 1
  /\ UNCHANGED <<storage, catalog, active, activeBytes, usage, batch, req, client>>

\* Mutant: open does not recover the journal.
NothingToRecoverIgnoreJournal ==
  /\ Move("recover", "ready")
  /\ task' = "none"
  /\ nextId' = NextBlock(catalog)
  /\ UNCHANGED <<storage, catalog, active, activeBytes, usage, batch, req, client>>

NothingToRecover ==
  /\ Move("recover", "ready")
  /\ ~JournalExists(dir)
  /\ task' = "none"
  /\ nextId' = NextBlock(catalog)
  /\ UNCHANGED <<storage, catalog, active, activeBytes, usage, batch, req, client>>

\* Every journalled block is in a frame already, or none can be read.
DiscardJournal ==
  /\ Move("recover", "manifest")
  /\ JournalExists(dir)
  /\ ~Conflict(dir.journal, catalog)
  /\ Pending(dir.journal, NextBlock(catalog)) = {}
  /\ task' = "recover"
  /\ Same
  /\ UNCHANGED <<storage, client>>

RecoverPending ==
  /\ Move("recover", "publish")
  /\ ~Conflict(dir.journal, catalog)
  /\ Pending(dir.journal, NextBlock(catalog)) # {}
  /\ batch' = Pending(dir.journal, NextBlock(catalog))
  /\ task' = "recover"
  /\ UNCHANGED <<storage, catalog, active, activeBytes, usage, nextId, req, client>>

-----------------------------------------------------------------------------
(* publish_blocks(batch).  Its branch for a frame whose name already       *)
(* exists is never taken: see PublishesFreshFrame.                         *)

\* Mutant: the room of the new manifest is left to the call that writes it.
CanPublishFrameOnly(bytes) ==
  /\ Continues(batch, catalog)
  /\ \A f \in dir.frames : Ids(f) # Ids(batch)
  /\ Cardinality(catalog \cup {batch}) <= MaxFrames
  /\ Fits(usage, bytes)

CanPublish(bytes) ==
  LET next == EncodeManifest(catalog \cup {batch})
  IN  /\ Continues(batch, catalog)
      /\ \A f \in dir.frames : Ids(f) # Ids(batch)
      /\ Cardinality(catalog \cup {batch}) <= MaxFrames
      /\ next.bytes <= MaxManifest
      /\ Fits(usage, bytes + next.bytes)

WriteFrame ==
  /\ Move("publish", "frameRename")
  /\ \E bytes \in FrameSizes :
       /\ CanPublish(bytes)
       /\ Change([dir EXCEPT !.temp = bytes])
  /\ Same
  /\ UNCHANGED <<task, client>>

RenameFrame ==
  /\ Move("frameRename", "frameSync")
  /\ Change([dir EXCEPT !.frames = @ \cup {batch},
                        !.frameBytes = @ + dir.temp,
                        !.temp = 0])
  /\ usage' = usage + dir.temp
  /\ UNCHANGED <<task, catalog, active, activeBytes, nextId, batch, req, client>>

\* Mutant: the catalog follows only once the journal is gone.
SyncFrameForget ==
  /\ Move("frameSync", "manifest")
  /\ SyncDirectory
  /\ UNCHANGED <<task, catalog, active, activeBytes, usage, nextId, batch, req, client>>

SyncFrame ==
  /\ Move("frameSync", "manifest")
  /\ SyncDirectory
  /\ catalog' = catalog \cup {batch}
  /\ UNCHANGED <<task, active, activeBytes, usage, nextId, batch, req, client>>

UnlinkJournal ==
  /\ Move("unlink", "unlinkSync")
  /\ JournalExists(dir)
  /\ Change([dir EXCEPT !.journal = NoJournal])
  /\ usage' = IF dir.journal.bytes > usage THEN 0 ELSE usage - dir.journal.bytes
  /\ UNCHANGED <<task, catalog, active, activeBytes, nextId, batch, req, client>>

-----------------------------------------------------------------------------
(* The journal is gone: what the caller of publish_blocks does next.       *)

Unlinked ==
  /\ pc = "unlinkSync"
  /\ SyncDirectory
  /\ batch' = {}

\* Mutant: the writer does not move past the recovered blocks.
FinishRecoveryKeepId ==
  /\ Unlinked /\ task = "recover"
  /\ pc' = "ready"
  /\ task' = "none"
  /\ UNCHANGED <<catalog, active, activeBytes, usage, nextId, req, client>>

FinishRecovery ==
  /\ Unlinked /\ task = "recover"
  /\ pc' = "ready"
  /\ task' = "none"
  /\ nextId' = NextBlock(catalog)
  /\ UNCHANGED <<catalog, active, activeBytes, usage, req, client>>

\* append flushed the full frame before it journals its own block.
ResumeAppend ==
  /\ Unlinked /\ task = "append"
  /\ pc' = "journal"
  /\ UNCHANGED <<task, catalog, active, activeBytes, usage, nextId, req, client>>

\* append flushed the frame that its own block filled.
ReturnSealed ==
  /\ Unlinked /\ task = "seal"
  /\ pc' = "ready"
  /\ task' = "none"
  /\ req' = NoReq
  /\ acked' = acked \cup {[id |-> nextId - 1, val |-> attempt]}
  /\ UNCHANGED <<catalog, active, activeBytes, usage, nextId, attempt, faults>>

ReturnFlushed ==
  /\ Unlinked /\ task = "flush"
  /\ pc' = "ready"
  /\ task' = "none"
  /\ UNCHANGED <<catalog, active, activeBytes, usage, nextId, req, client>>

ReturnFinished ==
  /\ pc = "unlinkSync" /\ task = "finish"
  /\ SyncDirectory
  /\ Release
  /\ UNCHANGED client

-----------------------------------------------------------------------------
(* ArchiveWriter::append.                                                  *)

\* A frame of `blocks` with `bytes` of wire bytes takes no other block.
Full(blocks, bytes) == Cardinality(blocks) >= MaxBlocks \/ bytes >= FrameLimit

NoRoomFor(size) ==
  active # {} /\ (Cardinality(active) >= MaxBlocks \/ activeBytes + size > FrameLimit)

TakeActive ==
  /\ batch' = active
  /\ active' = {}
  /\ activeBytes' = 0

BeginAppend ==
  /\ pc = "ready"
  /\ attempt < MaxAttempts
  /\ attempt' = attempt + 1
  /\ Cardinality(catalog) < MaxFrames
  /\ task' = "append"
  /\ \E size \in BlockSizes :
       /\ req' = [NoReq EXCEPT !.size = size]
       /\ IF NoRoomFor(size)
          THEN pc' = "publish" /\ TakeActive
          ELSE pc' = "journal" /\ UNCHANGED <<batch, active, activeBytes>>
  /\ UNCHANGED <<storage, catalog, usage, nextId, acked, faults>>

\* The block under way.
Incoming == [id |-> nextId, val |-> attempt]

JournalGrowth ==
  req.size + RecordHead + (IF JournalExists(dir) THEN 0 ELSE JournalHead)

\* Mutant: the journal is written without a look at the room left.
MayJournalUnbounded ==
  /\ Cardinality(catalog) < MaxFrames
  /\ active = {} => ManifestSize(Cardinality(catalog) + 1) <= MaxManifest

\* Mutant: the frame count is not looked at again after the flush.
MayJournalUncounted ==
  /\ active = {} => ManifestSize(Cardinality(catalog) + 1) <= MaxManifest
  /\ Fits(usage, JournalGrowth)

\* Mutant: no room is reserved for the manifest of a new frame.
MayJournalUnreserved ==
  /\ Cardinality(catalog) < MaxFrames
  /\ Fits(usage, JournalGrowth)

\* The checks between a full frame's flush and the journal write, with
\* preflight_pending_manifest, which looks at a new frame's first block only.
MayJournal ==
  /\ Cardinality(catalog) < MaxFrames
  /\ active = {} => ManifestSize(Cardinality(catalog) + 1) <= MaxManifest
  /\ Fits(usage, JournalGrowth)

\* An error before the journal write leaves the writer usable.
RefuseAppend ==
  /\ Move("journal", "ready")
  /\ ~MayJournal
  /\ task' = "none"
  /\ req' = NoReq
  /\ UNCHANGED <<storage, catalog, active, activeBytes, usage, nextId, batch, client>>

\* The journal that the write extends; one that does not exist is created.
OpenJournal ==
  IF JournalExists(dir) THEN dir.journal ELSE [NoJournal EXCEPT !.born = attempt]

TornJournal(n) == [dir EXCEPT !.journal = TearRecord(OpenJournal, n)]

WriteJournal ==
  LET after == [dir EXCEPT !.journal = WriteRecord(OpenJournal, Incoming, JournalGrowth)]
  IN  /\ Move("journal", "journalSync")
      /\ MayJournal
      /\ dir' = after
      /\ crashDirs' = crashDirs \cup {after} \cup
                        {TornJournal(n) : n \in 0..(JournalGrowth - 1)}
      /\ req' = [req EXCEPT !.growth = JournalGrowth, !.created = ~JournalExists(dir)]
      /\ UNCHANGED <<task, catalog, active, activeBytes, usage, nextId, batch, client>>

\* sync_all on the journal's file: every directory that names this file now
\* holds its contents.
SyncJournalFile ==
  crashDirs' = {IF d.journal.born = dir.journal.born
                THEN [d EXCEPT !.journal = dir.journal] ELSE d : d \in crashDirs}

\* The block is durable: count it, and flush the frame if it is full.
AcceptBlock ==
  LET blocks == active \cup {Incoming}
      bytes  == activeBytes + req.size
  IN  /\ usage' = usage + req.growth
      /\ nextId' = nextId + 1
      /\ IF Full(blocks, bytes)
         THEN /\ pc' = "publish"
              /\ task' = "seal"
              /\ batch' = blocks
              /\ active' = {}
              /\ activeBytes' = 0
              /\ UNCHANGED <<req, acked>>
         ELSE /\ pc' = "ready"
              /\ task' = "none"
              /\ active' = blocks
              /\ activeBytes' = bytes
              /\ req' = NoReq
              /\ acked' = acked \cup {Incoming}
              /\ UNCHANGED batch
      /\ UNCHANGED <<catalog, attempt, faults>>

SyncJournal ==
  /\ pc = "journalSync" /\ ~req.created
  /\ SyncJournalFile /\ UNCHANGED dir
  /\ AcceptBlock

\* Mutant: the directory is not synced after the journal is created.
SyncNewJournalOnly ==
  /\ pc = "journalSync" /\ req.created
  /\ SyncJournalFile /\ UNCHANGED dir
  /\ AcceptBlock

SyncNewJournal ==
  /\ Move("journalSync", "journalSyncDir") /\ req.created
  /\ SyncJournalFile /\ UNCHANGED dir
  /\ Same
  /\ UNCHANGED <<task, client>>

SyncJournalDir ==
  /\ pc = "journalSyncDir"
  /\ SyncDirectory
  /\ AcceptBlock

-----------------------------------------------------------------------------
(* flush_frame and finish, on request of the recorder.                     *)

Flush ==
  /\ Move("ready", "publish")
  /\ active # {}
  /\ task' \in {"flush", "finish"}
  /\ TakeActive
  /\ UNCHANGED <<storage, catalog, usage, nextId, req, client>>

\* The recorder drops the writer, or finishes one with no active frame.
Drop ==
  /\ pc \in {"ready", "poisoned"}
  /\ Release
  /\ UNCHANGED <<storage, client>>

-----------------------------------------------------------------------------
(* Errors, kills and power losses.                                         *)

\* A check fails.
Refuse ==
  /\ \/ pc = "metadata" /\ (IF dir.meta THEN ~ValidSequence(dir.frames)
                            ELSE HasContent(dir) \/ ~Fits(DirectoryBytes(dir), MetaBytes))
     \/ pc = "manifest" /\ dir.manifest # EncodeManifest(catalog) /\ ~ManifestFits(catalog)
     \/ pc = "recover" /\ Conflict(dir.journal, catalog)
     \/ pc = "publish" /\ \E bytes \in FrameSizes : ~CanPublish(bytes)
  /\ Fail
  /\ UNCHANGED <<storage, client>>

Fault ==
  /\ faults < MaxFaults
  /\ faults' = faults + 1
  /\ UNCHANGED <<attempt, acked>>

\* Mutant: the record whose sync failed is taken out of the journal again.
StorageErrorUndone ==
  /\ pc \notin {"closed", "ready", "poisoned"}
  /\ Fault
  /\ Fail
  /\ IF pc # "journalSync" THEN UNCHANGED storage
     ELSE Change([dir EXCEPT !.journal.recs = @ \ {Incoming}, !.journal.bytes = @ - req.growth])

\* A system call fails and changes nothing, or the free-space reserve is gone.
StorageError ==
  /\ pc \notin {"closed", "ready", "poisoned"}
  /\ Fault
  /\ Fail
  /\ UNCHANGED storage

\* The free-space reserve is gone before the journal write.
AppendError ==
  /\ Move("journal", "ready")
  /\ Fault
  /\ task' = "none"
  /\ req' = NoReq
  /\ UNCHANGED <<storage, catalog, active, activeBytes, usage, nextId, batch>>

\* The journal write stops half way.
JournalError ==
  /\ pc = "journal" /\ MayJournal
  /\ Fault
  /\ \E n \in 0..(JournalGrowth - 1) : Change(TornJournal(n))
  /\ Fail

Kill ==
  /\ pc # "closed"
  /\ Fault
  /\ Release
  /\ UNCHANGED storage

PowerLoss ==
  /\ crashDirs # {dir} \/ pc # "closed"
  /\ Fault
  /\ Release
  /\ \E d \in crashDirs : dir' = d /\ crashDirs' = {d}

-----------------------------------------------------------------------------
\* The writer goes on with the operation it has begun.
Step ==
  \/ RemoveTemps \/ WriteMetadata \/ RenameMetadata \/ SyncMetadata \/ LoadCatalog
  \/ ManifestCurrent \/ WriteManifest \/ RenameManifest \/ SyncManifest
  \/ NothingToRecover \/ DiscardJournal \/ RecoverPending
  \/ WriteFrame \/ RenameFrame \/ SyncFrame \/ UnlinkJournal
  \/ FinishRecovery \/ ResumeAppend \/ ReturnSealed \/ ReturnFlushed \/ ReturnFinished
  \/ RefuseAppend \/ WriteJournal \/ SyncJournal \/ SyncNewJournal \/ SyncJournalDir
  \/ Refuse

Next ==
  \/ AcquireLock \/ BeginAppend \/ Flush \/ Drop
  \/ Step
  \/ StorageError \/ AppendError \/ JournalError \/ Kill \/ PowerLoss

\* An operation that has begun goes on: the writer is one thread that runs.
Spec == Init /\ [][Next]_vars /\ WF_vars(Step)
-----------------------------------------------------------------------------
(* Properties.                                                             *)

Directory ==
  [meta : BOOLEAN,
   frames : SUBSET SUBSET Rec,
   frameBytes : Nat,
   manifest : [listed : SUBSET SUBSET Rec, bytes : Nat],
   journal : [born : Nat, recs : SUBSET Rec, torn : BOOLEAN, bytes : Nat],
   temp : Nat]

Labels ==
  {"closed", "cleanup", "metadata", "metadataRename", "metadataSync", "manifest",
   "manifestRename", "manifestSync", "recover", "publish", "frameRename", "frameSync",
   "unlink", "unlinkSync", "journal", "journalSync", "journalSyncDir", "ready",
   "poisoned"}

Tasks == {"none", "open", "recover", "append", "seal", "flush", "finish"}

\* Types.  The one conjunct with content is that byte and id counters never
\* go below zero, where the code would wrap or return an underflow error.
TypeOK ==
  /\ dir \in Directory
  /\ crashDirs \in SUBSET Directory
  /\ pc \in Labels
  /\ task \in Tasks
  /\ catalog \in SUBSET SUBSET Rec
  /\ active \in SUBSET Rec
  /\ batch \in SUBSET Rec
  /\ activeBytes \in Nat /\ usage \in Nat /\ nextId \in Nat
  /\ attempt \in Nat /\ faults \in Nat
  /\ req \in [size : Nat, growth : Nat, created : BOOLEAN]
  /\ acked \in SUBSET Rec

\* "A block is durable before this method succeeds" and has_active_frame's
\* "durable blocks waiting in the active frame": whatever a power loss leaves,
\* a reopen finds every block whose append returned Ok and every block of the
\* active frame or of the frame being published from it.  (The blocks that a
\* recovery publishes may not be durable yet: nobody was promised them.)
Promised == acked \cup active \cup (IF task = "recover" THEN {} ELSE batch)

AckedSurvives == \A d \in crashDirs : Promised \subseteq Recoverable(d)

\* Whatever a power loss leaves, no check of open but a byte limit fails: the
\* metadata is there before anything else, frames form a sequence, the journal
\* agrees with them, is read to its end, and what it adds still fits under the
\* frame and the manifest limits.
Reopenable ==
  \A d \in crashDirs :
    /\ d.meta \/ ~HasContent(d)
    /\ ValidSequence(d.frames)
    /\ ~Conflict(d.journal, d.frames)
    /\ ReadJournal(d.journal) = d.journal.recs
    /\ Pending(d.journal, NextBlock(d.frames)) # {} =>
         /\ Cardinality(d.frames) < MaxFrames
         /\ ManifestSize(Cardinality(d.frames) + 1) <= MaxManifest

\* publish_blocks never meets its own frame on disk, and its argument always
\* continues what is committed: the writer's catalog is the directory's.
PublishesFreshFrame ==
  pc = "publish" =>
    /\ catalog = dir.frames
    /\ Continues(batch, catalog)
    /\ \A f \in dir.frames : Ids(f) # Ids(batch)

\* The manifest never lists a frame that a power loss may still remove.
ManifestBehindFrames ==
  \A d \in crashDirs : d.manifest.listed \subseteq d.frames

\* usage_bytes is kept by additions and subtractions over many calls and is
\* measured only by open; it still is what directory_bytes would measure.
UsageExact ==
  pc \in {"manifest", "recover", "publish", "unlink", "journal", "ready"} =>
    usage = DirectoryBytes(dir)

\* The archive's files, temporary ones included, never exceed max_bytes, not
\* even in a directory that a power loss brings back.
WithinLimit ==
  \A d \in crashDirs : DirectoryBytes(d) <= MaxBytes

\* preflight_publication reserves what it must: once a frame is published its
\* manifest is never refused, so no publication stops half way for lack of room.
ManifestRoomReserved ==
  pc = "manifest" /\ task # "open" /\ dir.manifest # EncodeManifest(catalog) =>
    ManifestFits(catalog)

\* A publication never meets its own frame, lists nothing that can go away and
\* has the room for its manifest.
PublishesSafely ==
  PublishesFreshFrame /\ ManifestBehindFrames /\ ManifestRoomReserved

\* The values of the blocks S in the order of their ids.
InOrder(S) == [i \in 1..Cardinality(S) |-> (CHOOSE r \in S : r.id = i - 1).val]

AckedLength == NextBlock({acked})

Log == INSTANCE DurableLog
         WITH Value <- 1..MaxAttempts,
              log <- InOrder(Recoverable(dir)),
              promised <- AckedLength

\* What a reopen would return becomes less only by a power loss: a failed call, a kill, a
\* reopen, a recovery or a publication keeps every block, an unacknowledged one too.
LostOnlyInPowerLoss == [][Recoverable(dir) \subseteq Recoverable(dir') \/ PowerLoss]_vars

\* The archive is a durable log: blocks come back in the order they were
\* offered and none twice, and only a power loss removes any, never one that
\* was acknowledged.
ImplementsDurableLog == Log!Spec /\ LostOnlyInPowerLoss

\* Under the fairness of LiveSpec: whatever happened, all acknowledged blocks
\* end up in immutable frames.
EventuallyFramed == []<>(acked \subseteq UNION dir.frames)

\* The recorder reopens a closed archive, drops a poisoned writer and flushes a
\* tail in the end (its frame-age limit, and its orderly shutdown).
LiveSpec ==
  /\ Spec
  /\ WF_vars(AcquireLock)
  /\ WF_vars(Flush)
  /\ WF_vars(pc = "poisoned" /\ Drop)
=============================================================================
