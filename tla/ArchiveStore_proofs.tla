------------------------ MODULE ArchiveStore_proofs ------------------------
EXTENDS ArchiveStore, Sequences, FiniteSetTheorems, TLAPS

-----------------------------------------------------------------------------
(* The inductive invariant.                                                *)

\* The frames F hold the blocks with the ids 0, 1, ... up to NextBlock(F).
Sequenced(F) == NextBlock(F) \in Nat /\ Ids(UNION F) = 0..(NextBlock(F) - 1)

\* The sets that are counted are finite.
Finite ==
  /\ IsFiniteSet(catalog)
  /\ IsFiniteSet(active)
  /\ IsFiniteSet(batch)
  /\ \A d \in crashDirs : IsFiniteSet(d.frames) /\ IsFiniteSet(d.journal.recs)

\* A journal adds to the frames of its directory the blocks that follow them.
Agrees(d) ==
  /\ \A r \in d.journal.recs :
       IF r.id < NextBlock(d.frames)
       THEN r \in UNION d.frames
       ELSE NextBlock(d.frames)..r.id \subseteq Ids(d.journal.recs)
  /\ \A r, q \in d.journal.recs : r.id < q.id + MaxBlocks

\* A directory that a reopen may find when the blocks `kept` are promised and n
\* appends were begun.
Safe(d, kept, n) ==
  /\ Sequenced(d.frames)
  /\ Agrees(d)
  /\ d.journal.born <= n
  /\ ~JournalExists(d) => d.journal = NoJournal
  /\ kept \subseteq (UNION d.frames) \cup d.journal.recs

\* Every directory that a power loss may leave is one.
CrashSafe ==
  /\ dir \in crashDirs
  /\ \A d \in crashDirs : Safe(d, Promised, attempt)

Unloaded == {"closed", "cleanup", "metadata", "metadataRename", "metadataSync"}

Publishing == {"publish", "frameRename", "frameSync"}

Retiring == {"manifest", "manifestRename", "manifestSync", "unlink", "unlinkSync"}

\* The writer's memory before the catalog is read.
BeforeLoad ==
  /\ pc = "closed" \/ task = "open" => active = {} /\ batch = {}
  /\ pc \in {"cleanup", "metadata", "metadataRename", "metadataSync", "recover"} => task = "open"
  /\ pc \in Publishing \cup {"unlink", "unlinkSync"} => task # "open"

\* The catalog is what the directory holds.
CatalogTrue ==
  /\ pc \notin Unloaded \cup {"frameSync", "poisoned"} => catalog = dir.frames
  /\ pc = "frameSync" => dir.frames = catalog \cup {batch}
  /\ pc \in {"frameRename", "frameSync"} => Sequenced(catalog) /\ Continues(batch, catalog)

\* Between operations, and while an append has not written its block, the
\* journal holds the active frame, whose ids end before next_id.
JournalIsActive ==
  pc \in {"ready", "journal"} =>
    /\ dir.journal.recs = active
    /\ ~dir.journal.torn
    /\ JournalExists(dir) => crashDirs = {dir}
    /\ Ids(active) = NextBlock(catalog)..(nextId - 1)
    /\ nextId = NextBlock(catalog) + Cardinality(active)
    /\ batch = {}

\* An append under way.
Appending ==
  /\ pc \in {"journal", "journalSync", "journalSyncDir"} => task = "append"
  /\ pc = "journal" => Cardinality(active) < MaxBlocks
  /\ pc = "journal" \/ (task = "append" /\ pc \in Publishing \cup Retiring) =>
       \A d \in crashDirs : d.journal.born < attempt
  /\ pc \in {"journalSync", "journalSyncDir"} =>
       /\ dir.journal.recs = active \cup {Incoming}
       /\ ~dir.journal.torn
       /\ JournalExists(dir)
       /\ Ids(active) = NextBlock(catalog)..(nextId - 1)
       /\ nextId = NextBlock(catalog) + Cardinality(active)
       /\ batch = {}
  /\ pc = "journalSync" =>
       /\ \A d \in crashDirs : d.journal.born = dir.journal.born =>
                                 [d EXCEPT !.journal = dir.journal] = dir
       /\ ~req.created => \A d \in crashDirs : d.journal.born = dir.journal.born
  /\ pc = "journalSyncDir" => \A d \in crashDirs : d.journal.born = dir.journal.born => d = dir

\* The journal's file is written in place: a power loss may leave less of it, in
\* the present directory as well as in an older one that names the same file.
InPlace ==
  \A d \in crashDirs : d.journal.born = dir.journal.born =>
    /\ [dir EXCEPT !.journal = d.journal] \in crashDirs
    /\ d.journal.recs \subseteq dir.journal.recs
    /\ d.journal.bytes <= dir.journal.bytes

\* The block whose append waits for its frame is in that frame.
Sealing ==
  task = "seal" /\ pc \in Publishing \cup Retiring =>
    nextId > 0 /\ [id |-> nextId - 1, val |-> attempt] \in batch

\* A publication under way.
PublicationCovers ==
  /\ pc \in Publishing => dir.journal.recs \subseteq (UNION catalog) \cup batch
  /\ pc \in Retiring /\ task # "open" => dir.journal.recs \subseteq UNION catalog
  /\ pc = "unlinkSync" => dir.journal = NoJournal
  /\ pc \in Publishing \cup Retiring => active = {}
  /\ pc \in Publishing /\ task # "recover" =>
       /\ Ids(batch) = NextBlock(catalog)..(nextId - 1)
       /\ nextId = NextBlock(catalog) + Cardinality(batch)
  /\ pc \in Retiring /\ task \notin {"open", "recover"} =>
       nextId = NextBlock(catalog)

\* The byte account.
Account ==
  /\ pc \in {"metadata", "metadataSync", "manifest", "manifestSync", "recover", "publish",
             "frameSync", "unlink", "unlinkSync", "journal", "journalSync",
             "journalSyncDir", "ready"} => dir.temp = 0
  /\ pc = "metadataRename" => dir.temp = MetaBytes
  /\ pc = "manifestRename" => dir.temp = EncodeManifest(catalog).bytes
  /\ pc \in {"manifest", "manifestRename", "manifestSync", "recover", "publish",
             "frameRename", "frameSync", "unlink", "unlinkSync", "journal", "ready"} =>
       usage + dir.temp = DirectoryBytes(dir)
  /\ pc \in {"journalSync", "journalSyncDir"} => usage + req.growth = DirectoryBytes(dir)

IInv ==
  /\ TypeOK /\ Finite /\ CrashSafe /\ BeforeLoad /\ CatalogTrue /\ JournalIsActive
  /\ Appending /\ InPlace /\ Sealing /\ PublicationCovers /\ Account /\ WithinLimit
-----------------------------------------------------------------------------
(* Facts about the operators.                                              *)

\* Frames that hold the ids 0 to k - 1 are followed by block k.
LEMMA NextBlockIs ==
  ASSUME NEW F, NEW k \in Nat, Ids(UNION F) = 0..(k - 1)
  PROVE  NextBlock(F) = k
<1> DEFINE S == {0} \cup {i + 1 : i \in 0..(k - 1)}
           P(n) == \A i \in 0..(k - 1) : i < n
<1>1. NextBlock(F) = CHOOSE n \in S : P(n)
  BY DEF NextBlock
<1>2. k \in S /\ P(k)
  <2>1. CASE k = 0
    BY <2>1
  <2>2. CASE k # 0
    <3>1. k - 1 \in 0..(k - 1) /\ k = (k - 1) + 1
      BY <2>2
    <3> QED BY <3>1
  <2> QED BY <2>1, <2>2
<1>3. ASSUME NEW n \in S, P(n) PROVE n = k
  BY <1>3
<1> HIDE DEF S, P
<1> QED BY <1>1, <1>2, <1>3

\* An empty catalog is followed by block 0.
LEMMA EmptySequence == Sequenced({}) /\ NextBlock({}) = 0
<1>1. ASSUME NEW k \in Nat, k = 0 PROVE NextBlock({}) = k
  <2>1. Ids(UNION {}) = 0..(k - 1)
    BY <1>1 DEF Ids
  <2> QED BY <2>1, NextBlockIs
<1>2. NextBlock({}) = 0
  BY <1>1
<1> QED BY <1>2 DEF Sequenced, Ids

\* A batch that continues a sequence of frames makes a longer one.
LEMMA ExtendSequence ==
  ASSUME NEW F, NEW B, Sequenced(F), Continues(B, F), IsFiniteSet(B)
  PROVE  /\ Sequenced(F \cup {B})
         /\ NextBlock(F \cup {B}) = NextBlock(F) + Cardinality(B)
<1>1. Cardinality(B) \in Nat
  BY FS_CardinalityType
<1>2. UNION (F \cup {B}) = (UNION F) \cup B
  OBVIOUS
<1>3. Ids(UNION (F \cup {B})) = Ids(UNION F) \cup Ids(B)
  BY <1>2 DEF Ids
<1>4. PICK n \in Nat, c \in Nat : n = NextBlock(F) /\ c = Cardinality(B)
  BY <1>1 DEF Sequenced
<1>5. Ids(UNION F) = 0..(n - 1) /\ Ids(B) = n..(n + c - 1)
  BY <1>4 DEF Sequenced, Continues
<1>6. (0..(n - 1)) \cup (n..(n + c - 1)) = 0..((n + c) - 1)
  OBVIOUS
<1>7. Ids(UNION (F \cup {B})) = 0..((n + c) - 1)
  BY <1>3, <1>5, <1>6
<1>8. NextBlock(F \cup {B}) = n + c
  BY <1>7, NextBlockIs
<1> QED BY <1>4, <1>7, <1>8 DEF Sequenced

\* A manifest of finitely many frames is one.
LEMMA EncodeManifestType ==
  ASSUME NEW F \in SUBSET SUBSET Rec, IsFiniteSet(F)
  PROVE  EncodeManifest(F) \in [listed : SUBSET SUBSET Rec, bytes : Nat]
<1>1. Cardinality(F) \in Nat
  BY FS_CardinalityType
<1>2. Cardinality(F) * ManifestEntry \in Nat
  BY <1>1, StoreAssumption
<1> QED BY <1>2, StoreAssumption DEF EncodeManifest, ManifestSize

\* A directory has a natural number of bytes.
LEMMA DirectoryBytesType ==
  ASSUME NEW d \in Directory
  PROVE  DirectoryBytes(d) \in Nat
BY StoreAssumption DEF DirectoryBytes, Directory

\* The changes that the actions make to a directory.
LEMMA DirectoryChanges ==
  ASSUME NEW d \in Directory
  PROVE  /\ \A n \in Nat : [d EXCEPT !.temp = n] \in Directory
         /\ [d EXCEPT !.meta = TRUE, !.temp = 0] \in Directory
         /\ \A m \in [listed : SUBSET SUBSET Rec, bytes : Nat] :
              [d EXCEPT !.manifest = m, !.temp = 0] \in Directory
         /\ \A j \in [born : Nat, recs : SUBSET Rec, torn : BOOLEAN, bytes : Nat] :
              [d EXCEPT !.journal = j] \in Directory
         /\ \A B \in SUBSET Rec :
              [d EXCEPT !.frames = @ \cup {B}, !.frameBytes = @ + d.temp, !.temp = 0]
                \in Directory
<1>1. \A n \in Nat : [d EXCEPT !.temp = n] \in Directory
  BY DEF Directory
<1>2. [d EXCEPT !.meta = TRUE, !.temp = 0] \in Directory
  BY DEF Directory
<1>3. \A m \in [listed : SUBSET SUBSET Rec, bytes : Nat] :
        [d EXCEPT !.manifest = m, !.temp = 0] \in Directory
  BY DEF Directory
<1>4. \A j \in [born : Nat, recs : SUBSET Rec, torn : BOOLEAN, bytes : Nat] :
        [d EXCEPT !.journal = j] \in Directory
  BY DEF Directory
<1>5. ASSUME NEW B \in SUBSET Rec
      PROVE  [d EXCEPT !.frames = @ \cup {B}, !.frameBytes = @ + d.temp, !.temp = 0]
               \in Directory
  <2>1. d.frames \cup {B} \in SUBSET SUBSET Rec
    BY DEF Directory
  <2>2. d.frameBytes + d.temp \in Nat
    BY DEF Directory
  <2> QED BY <2>1, <2>2 DEF Directory
<1> QED BY <1>1, <1>2, <1>3, <1>4, <1>5

\* What an append writes to the journal.
LEMMA JournalTypes ==
  ASSUME TypeOK
  PROVE  /\ Incoming \in Rec
         /\ JournalGrowth \in Nat
         /\ OpenJournal \in [born : Nat, recs : SUBSET Rec, torn : BOOLEAN, bytes : Nat]
         /\ WriteRecord(OpenJournal, Incoming, JournalGrowth)
               \in [born : Nat, recs : SUBSET Rec, torn : BOOLEAN, bytes : Nat]
         /\ \A n \in 0..(JournalGrowth - 1) :
              /\ TearRecord(OpenJournal, n)
                   \in [born : Nat, recs : SUBSET Rec, torn : BOOLEAN, bytes : Nat]
              /\ TornJournal(n) \in Directory
<1> DEFINE Journal == [born : Nat, recs : SUBSET Rec, torn : BOOLEAN, bytes : Nat]
<1> USE DEF TypeOK
<1>1. Incoming \in Rec
  BY DEF Incoming, Rec
<1>2. JournalGrowth \in Nat
  BY StoreAssumption DEF JournalGrowth
<1>3. OpenJournal \in Journal
  BY DEF OpenJournal, NoJournal, Directory
<1>4. ASSUME NEW j \in Journal, NEW r \in Rec, NEW n \in Nat
      PROVE  WriteRecord(j, r, n) \in Journal /\ TearRecord(j, n) \in Journal
  <2>1. j.bytes + n \in Nat /\ j.recs \cup {r} \in SUBSET Rec
    OBVIOUS
  <2> QED BY <2>1 DEF WriteRecord, TearRecord
<1>5. WriteRecord(OpenJournal, Incoming, JournalGrowth) \in Journal
  BY <1>1, <1>2, <1>3, <1>4
<1>6. ASSUME NEW n \in 0..(JournalGrowth - 1)
      PROVE  TearRecord(OpenJournal, n) \in Journal /\ TornJournal(n) \in Directory
  <2>1. n \in Nat
    BY <1>2
  <2>2. TearRecord(OpenJournal, n) \in Journal
    BY <1>1, <1>3, <1>4, <2>1
  <2> QED BY <2>2, DirectoryChanges DEF TornJournal
<1> QED BY <1>1, <1>2, <1>3, <1>5, <1>6

\* What the changes do to the bytes of the directory.
LEMMA ByteChanges ==
  ASSUME NEW d \in Directory
  PROVE  /\ DirectoryBytes(d) \in Nat
         /\ \A n \in Nat :
              DirectoryBytes([d EXCEPT !.temp = n]) = (DirectoryBytes(d) - d.temp) + n
         /\ DirectoryBytes([d EXCEPT !.meta = TRUE, !.temp = 0])
              <= (DirectoryBytes(d) - d.temp) + MetaBytes
         /\ \A m \in [listed : SUBSET SUBSET Rec, bytes : Nat] :
              DirectoryBytes([d EXCEPT !.manifest = m, !.temp = 0])
                = (DirectoryBytes(d) - d.temp - d.manifest.bytes) + m.bytes
         /\ \A j \in [born : Nat, recs : SUBSET Rec, torn : BOOLEAN, bytes : Nat] :
              DirectoryBytes([d EXCEPT !.journal = j])
                = (DirectoryBytes(d) - d.journal.bytes) + j.bytes
         /\ \A B \in SUBSET Rec :
              DirectoryBytes([d EXCEPT !.frames = @ \cup {B}, !.frameBytes = @ + d.temp,
                                       !.temp = 0])
                = DirectoryBytes(d)
<1> USE StoreAssumption DEF DirectoryBytes, Directory
<1>1. DirectoryBytes(d) \in Nat
  OBVIOUS
<1>2. \A n \in Nat :
        DirectoryBytes([d EXCEPT !.temp = n]) = (DirectoryBytes(d) - d.temp) + n
  OBVIOUS
<1>3. DirectoryBytes([d EXCEPT !.meta = TRUE, !.temp = 0])
        <= (DirectoryBytes(d) - d.temp) + MetaBytes
  OBVIOUS
<1>4. \A m \in [listed : SUBSET SUBSET Rec, bytes : Nat] :
        DirectoryBytes([d EXCEPT !.manifest = m, !.temp = 0])
          = (DirectoryBytes(d) - d.temp - d.manifest.bytes) + m.bytes
  OBVIOUS
<1>5. \A j \in [born : Nat, recs : SUBSET Rec, torn : BOOLEAN, bytes : Nat] :
        DirectoryBytes([d EXCEPT !.journal = j])
          = (DirectoryBytes(d) - d.journal.bytes) + j.bytes
  OBVIOUS
<1>6. \A B \in SUBSET Rec :
        DirectoryBytes([d EXCEPT !.frames = @ \cup {B}, !.frameBytes = @ + d.temp, !.temp = 0])
          = DirectoryBytes(d)
  OBVIOUS
<1> QED BY <1>1, <1>2, <1>3, <1>4, <1>5, <1>6

\* What the journal write does to the journal's bytes.
LEMMA JournalBytes ==
  ASSUME TypeOK, CrashSafe
  PROVE  /\ WriteRecord(OpenJournal, Incoming, JournalGrowth).bytes
                = dir.journal.bytes + JournalGrowth
         /\ DirectoryBytes([dir EXCEPT !.journal =
                               WriteRecord(OpenJournal, Incoming, JournalGrowth)])
                = DirectoryBytes(dir) + JournalGrowth
         /\ \A n \in 0..(JournalGrowth - 1) :
              DirectoryBytes(TornJournal(n)) = DirectoryBytes(dir) + n
<1>1. OpenJournal.bytes = dir.journal.bytes
  BY DEF OpenJournal, CrashSafe, Safe, NoJournal
<1>2. OpenJournal \in [born : Nat, recs : SUBSET Rec, torn : BOOLEAN, bytes : Nat]
  BY JournalTypes
<1>3. dir \in Directory /\ dir.journal.bytes \in Nat /\ JournalGrowth \in Nat
  BY JournalTypes DEF TypeOK, Directory
<1>4. WriteRecord(OpenJournal, Incoming, JournalGrowth).bytes
        = dir.journal.bytes + JournalGrowth
  BY <1>1, <1>2 DEF WriteRecord
<1>5. ASSUME NEW j \in [born : Nat, recs : SUBSET Rec, torn : BOOLEAN, bytes : Nat],
             NEW n \in Nat, j.bytes = dir.journal.bytes + n
      PROVE  DirectoryBytes([dir EXCEPT !.journal = j]) = DirectoryBytes(dir) + n
  <2>1. DirectoryBytes([dir EXCEPT !.journal = j])
          = (DirectoryBytes(dir) - dir.journal.bytes) + j.bytes
    BY <1>3, ByteChanges
  <2>2. DirectoryBytes(dir) \in Nat
    BY <1>3, ByteChanges
  <2> QED BY <1>3, <1>5, <2>1, <2>2
<1>6. ASSUME NEW n \in 0..(JournalGrowth - 1)
      PROVE  DirectoryBytes(TornJournal(n)) = DirectoryBytes(dir) + n
  <2>1. n \in Nat
    BY <1>3
  <2>2. TearRecord(OpenJournal, n)
          \in [born : Nat, recs : SUBSET Rec, torn : BOOLEAN, bytes : Nat]
    BY JournalTypes
  <2>3. TearRecord(OpenJournal, n).bytes = dir.journal.bytes + n
    BY <1>1, <1>2 DEF TearRecord
  <2> QED BY <1>5, <2>1, <2>2, <2>3 DEF TornJournal
<1>7. DirectoryBytes([dir EXCEPT !.journal =
                        WriteRecord(OpenJournal, Incoming, JournalGrowth)])
        = DirectoryBytes(dir) + JournalGrowth
  BY <1>3, <1>4, <1>5, JournalTypes
<1> QED BY <1>4, <1>6, <1>7

\* Safe depends on the frames and the journal, and lasts while promises shrink.
LEMMA SafeLasts ==
  ASSUME NEW d \in Directory, NEW e, NEW kept, NEW less, NEW n \in Nat, NEW m \in Nat,
         Safe(d, kept, n), e.frames = d.frames, e.journal = d.journal,
         less \subseteq kept, n <= m
  PROVE  Safe(e, less, m)
BY DEF Safe, Agrees, JournalExists, Directory

\* What a reopen of a safe directory returns.
LEMMA SafeRecovers ==
  ASSUME NEW d \in Directory, NEW kept, NEW n, Safe(d, kept, n)
  PROVE  kept \subseteq Recoverable(d)
<1>1. NextBlock(d.frames) \in Nat
  BY DEF Safe, Sequenced
<1>2. ReadJournal(d.journal) = d.journal.recs
  BY DEF Safe, Agrees, ReadJournal
<1>3. ASSUME NEW r \in d.journal.recs PROVE r \in Recoverable(d)
  BY <1>1, <1>2 DEF Safe, Agrees, Recoverable, Pending, Directory, Rec
<1> QED BY <1>3 DEF Safe, Recoverable

-----------------------------------------------------------------------------
(* The initial state.                                                      *)

\* The invariant holds of an empty directory nobody has opened.
LEMMA InitInv == Init => IInv
<1> SUFFICES ASSUME Init PROVE IInv
  OBVIOUS
<1>1. TypeOK
  BY DEF Init, TypeOK, EmptyDir, NoManifest, NoJournal, NoReq, Directory, Labels, Tasks
<1>2. Finite
  BY FS_EmptySet DEF Init, Finite, EmptyDir, NoJournal
<1>3. CrashSafe
  BY EmptySequence DEF Init, CrashSafe, Safe, EmptyDir, Agrees, NoJournal, JournalExists, Promised
<1>4. WithinLimit
  BY StoreAssumption DEF Init, WithinLimit, DirectoryBytes, EmptyDir, NoManifest, NoJournal
<1>5. InPlace
  <2>1. dir \in Directory /\ crashDirs = {dir}
    BY <1>1 DEF Init, TypeOK
  <2>2. [dir EXCEPT !.journal = dir.journal] = dir /\ dir.journal.bytes \in Nat
    BY <2>1 DEF Directory
  <2> QED BY <2>1, <2>2 DEF InPlace
<1> QED
  BY <1>1, <1>2, <1>3, <1>4, <1>5
  DEF Init, IInv, BeforeLoad, CatalogTrue, JournalIsActive, Appending, Sealing,
      PublicationCovers, Account, Unloaded, Publishing, Retiring
-----------------------------------------------------------------------------
(* The directories that a power loss may leave after a step.               *)

Changing == \/ RemoveTemps \/ WriteMetadata \/ RenameMetadata \/ WriteManifest \/ RenameManifest
            \/ WriteFrame \/ RenameFrame

\* Directory e comes from m as dir' comes from dir, and neither has more in its journal.
Kin(m, e) ==
  /\ m \in crashDirs /\ m \in Directory /\ e \in Directory
  /\ e.journal = m.journal /\ m.journal.born = dir.journal.born
  /\ m.journal.recs \subseteq dir.journal.recs /\ m.journal.bytes <= dir.journal.bytes
  /\ m.meta = dir.meta /\ m.frames = dir.frames /\ m.frameBytes = dir.frameBytes
  /\ m.manifest = dir.manifest /\ m.temp = dir.temp
  /\ e.meta = dir'.meta /\ e.frames = dir'.frames /\ e.frameBytes = dir'.frameBytes
  /\ e.manifest = dir'.manifest /\ e.temp = dir'.temp

\* A directory with another journal.
LEMMA OtherJournal ==
  ASSUME NEW d \in Directory, NEW c \in Directory, NEW e, e = [d EXCEPT !.journal = c.journal]
  PROVE  /\ e \in Directory /\ e.journal = c.journal
         /\ e.meta = d.meta /\ e.frames = d.frames /\ e.frameBytes = d.frameBytes
         /\ e.manifest = d.manifest /\ e.temp = d.temp
BY DEF Directory

\* A change that leaves the journal alone.
LEMMA ChangeIs ==
  ASSUME IInv, dir' \in Directory, Change(dir'), dir'.journal = dir.journal
  PROVE  /\ dir' \in crashDirs' /\ Kin(dir, dir')
         /\ \A e \in crashDirs' : e \in crashDirs \/ \E m \in crashDirs : Kin(m, e)
<1>1. dir \in crashDirs /\ dir \in Directory /\ \A d \in crashDirs : d \in Directory
  BY DEF IInv, CrashSafe, TypeOK
<1>2. dir.journal.bytes \in Nat
  BY <1>1 DEF Directory
<1>3. Kin(dir, dir')
  BY <1>1, <1>2 DEF Kin
<1>4. ASSUME NEW c \in crashDirs, c.journal.born = dir.journal.born,
             NEW e, e = [dir' EXCEPT !.journal = c.journal]
      PROVE  \E m \in crashDirs : Kin(m, e)
  <2>1. PICK m \in crashDirs : m = [dir EXCEPT !.journal = c.journal]
    BY <1>4 DEF IInv, InPlace
  <2>2. /\ m \in Directory /\ m.journal = c.journal
        /\ m.meta = dir.meta /\ m.frames = dir.frames /\ m.frameBytes = dir.frameBytes
        /\ m.manifest = dir.manifest /\ m.temp = dir.temp
    BY <1>1, <2>1, OtherJournal
  <2>3. /\ e \in Directory /\ e.journal = c.journal
        /\ e.meta = dir'.meta /\ e.frames = dir'.frames /\ e.frameBytes = dir'.frameBytes
        /\ e.manifest = dir'.manifest /\ e.temp = dir'.temp
    BY <1>1, <1>4, OtherJournal
  <2>4. c.journal.recs \subseteq dir.journal.recs /\ c.journal.bytes <= dir.journal.bytes
    BY <1>4 DEF IInv, InPlace
  <2>5. Kin(m, e)
    BY <1>4, <2>2, <2>3, <2>4 DEF Kin
  <2> QED BY <2>5
<1>5. ASSUME NEW e \in Written(dir') PROVE \E m \in crashDirs : Kin(m, e)
  <2>1. PICK c \in crashDirs : c.journal.born = dir'.journal.born /\ e = [dir' EXCEPT !.journal = c.journal]
    BY DEF Written
  <2> QED BY <1>4, <2>1
<1>6. crashDirs' = crashDirs \cup {dir'} \cup Written(dir')
  BY DEF Change
<1> QED BY <1>1, <1>3, <1>5, <1>6

\* The journal stays as it is when something else changes.
LEMMA Changes ==
  ASSUME IInv, Changing
  PROVE  /\ dir' \in Directory /\ Change(dir') /\ dir'.journal = dir.journal
         /\ dir' \in crashDirs' /\ Kin(dir, dir')
         /\ \A e \in crashDirs' : e \in crashDirs \/ \E m \in crashDirs : Kin(m, e)
<1>1. dir \in Directory /\ batch \in SUBSET Rec /\ dir.temp \in Nat
  BY DEF IInv, TypeOK, Directory
<1>2. EncodeManifest(catalog) \in [listed : SUBSET SUBSET Rec, bytes : Nat]
  BY EncodeManifestType DEF IInv, TypeOK, Finite
<1>3. CASE RemoveTemps \/ WriteMetadata \/ WriteManifest \/ WriteFrame
  <2>1. PICK n \in Nat : dir' = [dir EXCEPT !.temp = n] /\ Change(dir')
    BY <1>2, <1>3, StoreAssumption DEF RemoveTemps, WriteMetadata, WriteManifest, WriteFrame, Change
  <2>2. dir' \in Directory /\ dir'.journal = dir.journal
    BY <1>1, <2>1 DEF Directory
  <2> QED BY <2>1, <2>2, ChangeIs
<1>4. CASE RenameMetadata
  <2>1. dir' = [dir EXCEPT !.meta = TRUE, !.temp = 0] /\ Change(dir')
    BY <1>4 DEF RenameMetadata, Change
  <2>2. dir' \in Directory /\ dir'.journal = dir.journal
    BY <1>1, <2>1 DEF Directory
  <2> QED BY <2>1, <2>2, ChangeIs
<1>5. CASE RenameManifest
  <2>1. dir' = [dir EXCEPT !.manifest = EncodeManifest(catalog), !.temp = 0] /\ Change(dir')
    BY <1>5 DEF RenameManifest, Change
  <2>2. dir' \in Directory /\ dir'.journal = dir.journal
    BY <1>1, <1>2, <2>1 DEF Directory
  <2> QED BY <2>1, <2>2, ChangeIs
<1>6. CASE RenameFrame
  <2>1. /\ dir' = [dir EXCEPT !.frames = @ \cup {batch}, !.frameBytes = @ + dir.temp, !.temp = 0]
        /\ Change(dir')
    BY <1>6 DEF RenameFrame, Change
  <2>2. dir' \in Directory
    BY <1>1, <2>1, DirectoryChanges
  <2>3. dir'.journal = dir.journal
    BY <1>1, <2>1 DEF Directory
  <2> QED BY <2>1, <2>2, <2>3, ChangeIs
<1> QED BY <1>3, <1>4, <1>5, <1>6 DEF Changing

\* A directory sync takes the past away and leaves the journal what it may be.
LEMMA Syncs ==
  ASSUME IInv, SyncDirectory
  PROVE  /\ dir' = dir /\ dir \in crashDirs' /\ crashDirs' \subseteq crashDirs
         /\ \A e \in crashDirs' : /\ e.journal.born = dir.journal.born
                                 /\ e = [dir EXCEPT !.journal = e.journal]
<1>1. dir \in crashDirs /\ dir \in Directory /\ \A d \in crashDirs : d \in Directory
  BY DEF IInv, CrashSafe, TypeOK
<1>2. dir' = dir /\ crashDirs' = Written(dir)
  BY DEF SyncDirectory
<1>3. [dir EXCEPT !.journal = dir.journal] = dir
  BY <1>1 DEF Directory
<1>4. dir \in crashDirs'
  BY <1>1, <1>2, <1>3 DEF Written
<1>5. ASSUME NEW e \in crashDirs'
      PROVE  /\ e \in crashDirs /\ e.journal.born = dir.journal.born
             /\ e = [dir EXCEPT !.journal = e.journal]
  <2>1. PICK c \in crashDirs : c.journal.born = dir.journal.born /\ e = [dir EXCEPT !.journal = c.journal]
    BY <1>2, <1>5 DEF Written
  <2>2. e.journal = c.journal
    BY <1>1, <2>1, OtherJournal
  <2>3. e \in crashDirs
    BY <2>1 DEF IInv, InPlace
  <2> QED BY <2>1, <2>2, <2>3
<1> QED BY <1>2, <1>4, <1>5

\* Without a journal, or with one that is synced, nothing but the present directory is left.
LEMMA SyncsAll ==
  ASSUME IInv, SyncDirectory, pc \in {"unlinkSync", "journalSyncDir"}
  PROVE  dir' = dir /\ crashDirs' = {dir}
<1>1. dir \in Directory /\ \A d \in crashDirs : d \in Directory
  BY DEF IInv, TypeOK
<1>2. /\ dir' = dir /\ dir \in crashDirs' /\ crashDirs' \subseteq crashDirs
      /\ \A e \in crashDirs' : /\ e.journal.born = dir.journal.born
                              /\ e = [dir EXCEPT !.journal = e.journal]
  BY Syncs
<1>3. CASE pc = "unlinkSync"
  <2>1. dir.journal = NoJournal
    BY <1>3 DEF IInv, PublicationCovers
  <2>2. ASSUME NEW e \in crashDirs' PROVE e = dir
    <3>1. e.journal.born = 0
      BY <1>2, <2>1 DEF NoJournal
    <3>2. e.journal = NoJournal
      BY <1>2, <3>1 DEF IInv, CrashSafe, Safe, JournalExists
    <3>3. e = [dir EXCEPT !.journal = dir.journal]
      BY <1>2, <2>1, <3>2
    <3> QED BY <1>1, <3>3 DEF Directory
  <2> QED BY <1>2, <2>2
<1>4. CASE pc = "journalSyncDir"
  <2>1. \A e \in crashDirs' : e = dir
    BY <1>2, <1>4 DEF IInv, Appending
  <2> QED BY <1>2, <2>1
<1> QED BY <1>3, <1>4

\* The journal is unlinked: no older directory has its name for another file.
LEMMA Unlinks ==
  ASSUME IInv, UnlinkJournal
  PROVE  /\ crashDirs' = crashDirs \cup {dir'} /\ dir' \in Directory
         /\ dir'.journal = NoJournal /\ dir'.frames = dir.frames /\ dir'.meta = dir.meta
         /\ dir'.manifest = dir.manifest /\ dir' = [dir EXCEPT !.journal = NoJournal]
<1>1. dir \in Directory /\ \A d \in crashDirs : d \in Directory
  BY DEF IInv, TypeOK
<1>2. /\ dir' = [dir EXCEPT !.journal = NoJournal]
      /\ crashDirs' = crashDirs \cup {dir'} \cup Written(dir')
  BY DEF UnlinkJournal, Change
<1>3. /\ dir' \in Directory /\ dir'.journal = NoJournal /\ dir'.frames = dir.frames
      /\ dir'.meta = dir.meta /\ dir'.manifest = dir.manifest
  BY <1>1, <1>2 DEF Directory, NoJournal
<1>4. ASSUME NEW e \in Written(dir') PROVE e = dir'
  <2>1. PICK c \in crashDirs : c.journal.born = dir'.journal.born /\ e = [dir' EXCEPT !.journal = c.journal]
    BY DEF Written
  <2>2. c.journal.born = 0
    BY <1>3, <2>1 DEF NoJournal
  <2>3. c.journal = dir'.journal
    BY <1>3, <2>2 DEF IInv, CrashSafe, Safe, JournalExists
  <2> QED BY <1>3, <2>1, <2>3 DEF Directory
<1> QED BY <1>2, <1>3, <1>4

\* The journal write stops half way: the directory with what it has written is new.
LEMMA Tears ==
  ASSUME IInv, JournalError
  PROVE  /\ pc = "journal" /\ crashDirs' = crashDirs \cup {dir'}
         /\ \E n \in 0..(JournalGrowth - 1) : dir' = TornJournal(n)
<1>1. pc = "journal"
  BY DEF JournalError
<1>2. PICK n \in 0..(JournalGrowth - 1) : dir' = TornJournal(n) /\ Change(TornJournal(n))
  BY DEF JournalError, Change
<1>3. crashDirs' = crashDirs \cup {dir'} \cup Written(dir')
  BY <1>2 DEF Change
<1>4. dir \in Directory /\ attempt \in Nat /\ OpenJournal \in [born : Nat, recs : SUBSET Rec, torn : BOOLEAN, bytes : Nat]
  BY JournalTypes DEF IInv, TypeOK
<1>5. dir' = [dir EXCEPT !.journal = TearRecord(OpenJournal, n)] /\ dir'.journal.born = OpenJournal.born
  BY <1>2, <1>4 DEF TornJournal, TearRecord, Directory
<1>6. ASSUME NEW e \in Written(dir') PROVE e \in crashDirs
  <2>1. PICK c \in crashDirs : c.journal.born = dir'.journal.born /\ e = [dir' EXCEPT !.journal = c.journal]
    BY DEF Written
  <2>2. c.journal.born < attempt /\ c.journal.born \in Nat
    BY <1>1 DEF IInv, Appending, TypeOK, Directory
  <2>3. CASE JournalExists(dir)
    <3>1. c = dir
      BY <1>1, <2>3 DEF IInv, JournalIsActive
    <3>2. e = dir
      BY <1>4, <1>5, <2>1, <3>1 DEF Directory
    <3> QED BY <3>1, <3>2
  <2>4. CASE ~JournalExists(dir)
    <3>1. dir'.journal.born = attempt
      BY <1>5, <2>4 DEF OpenJournal, NoJournal
    <3> QED BY <1>4, <2>1, <2>2, <3>1
  <2> QED BY <2>3, <2>4
<1> QED BY <1>1, <1>2, <1>3, <1>6

-----------------------------------------------------------------------------
(* The actions, by the operation they belong to.                           *)

Opening == \/ AcquireLock \/ RemoveTemps \/ WriteMetadata \/ RenameMetadata
           \/ SyncMetadata \/ LoadCatalog

Listing == ManifestCurrent \/ WriteManifest \/ RenameManifest \/ SyncManifest

Recovering == NothingToRecover \/ DiscardJournal \/ RecoverPending

Publication == WriteFrame \/ RenameFrame \/ SyncFrame \/ UnlinkJournal

Returning == FinishRecovery \/ ResumeAppend \/ ReturnSealed \/ ReturnFlushed

Journalling == \/ BeginAppend \/ RefuseAppend \/ AppendError \/ WriteJournal
               \/ SyncJournal \/ SyncNewJournal \/ SyncJournalDir

Working == Opening \/ Listing \/ Recovering \/ Publication \/ Returning \/ Journalling \/ Flush

\* The writer is dropped or poisoned, and the directory is one that was safe.
GivingUp ==
  /\ \/ Release
     \/ /\ pc' = "poisoned"
        /\ UNCHANGED <<task, catalog, active, activeBytes, usage, nextId, batch, req>>
  /\ dir' \in crashDirs'
  /\ crashDirs' \subseteq crashDirs
  /\ (dir' = dir /\ crashDirs' = crashDirs) \/ crashDirs' = {dir'}
  /\ attempt' = attempt /\ acked' = acked /\ faults' \in Nat

\* Every step works, gives up, or tears the journal.
LEMMA NextCases ==
  ASSUME IInv, Next
  PROVE  Working \/ GivingUp \/ JournalError
<1> USE DEF IInv, TypeOK, CrashSafe
<1>1. CASE Refuse \/ StorageError
  BY <1>1 DEF Refuse, StorageError, Fail, GivingUp, Fault, storage, client
<1>2. CASE Drop \/ Kill \/ PowerLoss
  BY <1>2 DEF Drop, Kill, PowerLoss, GivingUp, Fault, storage, client
<1>3. CASE ReturnFinished
  <2>1. dir' = dir /\ crashDirs' = {dir}
    BY <1>3, SyncsAll DEF ReturnFinished
  <2> QED BY <1>3, <2>1 DEF ReturnFinished, GivingUp, client
<1> QED
  BY <1>1, <1>2, <1>3
  DEF Next, Step, Working, Opening, Listing, Recovering, Publication, Returning, Journalling

-----------------------------------------------------------------------------
(* Which operation is under way.                                           *)

\* A working step keeps the operation under way apart from open.
LEMMA BeforeLoadStep ==
  ASSUME IInv, Working
  PROVE  BeforeLoad'
<1> USE DEF IInv, BeforeLoad, Publishing, Move, Same
<1>1. CASE Opening
  BY <1>1 DEF Opening, AcquireLock, RemoveTemps, WriteMetadata, RenameMetadata,
              SyncMetadata, LoadCatalog
<1>2. CASE Listing
  BY <1>2 DEF Listing, ManifestCurrent, WriteManifest, RenameManifest, SyncManifest,
              AfterManifest
<1>3. CASE Recovering
  BY <1>3 DEF Recovering, NothingToRecover, DiscardJournal, RecoverPending
<1>4. CASE Publication
  BY <1>4 DEF Publication, WriteFrame, RenameFrame, SyncFrame, UnlinkJournal
<1>5. CASE Returning
  BY <1>5 DEF Returning, FinishRecovery, ResumeAppend, ReturnSealed, ReturnFlushed, Unlinked
<1>6. CASE Journalling
  BY <1>6 DEF Journalling, BeginAppend, TakeActive, RefuseAppend, AppendError,
              WriteJournal, SyncJournal, SyncNewJournal, SyncJournalDir, AcceptBlock
<1>7. CASE Flush
  BY <1>7 DEF Flush, TakeActive
<1> QED BY <1>1, <1>2, <1>3, <1>4, <1>5, <1>6, <1>7 DEF Working

\* A working step keeps the catalog equal to the directory.
LEMMA CatalogStep ==
  ASSUME IInv, Working
  PROVE  CatalogTrue'
<1> USE DEF IInv, CatalogTrue, Unloaded, Move, Same, storage, Change, SyncDirectory
<1>1. CASE Opening
  BY <1>1 DEF Opening, AcquireLock, RemoveTemps, WriteMetadata, RenameMetadata,
              SyncMetadata, LoadCatalog
<1>2. CASE Listing
  BY <1>2 DEF Listing, ManifestCurrent, WriteManifest, RenameManifest, SyncManifest,
              AfterManifest, TypeOK, Directory
<1>3. CASE Recovering
  BY <1>3 DEF Recovering, NothingToRecover, DiscardJournal, RecoverPending
<1>4. CASE Publication
  <2>1. CASE WriteFrame
    <3>1. Sequenced(catalog) /\ Continues(batch, catalog)
      BY <2>1 DEF WriteFrame, CanPublish, CrashSafe, Safe
    <3> QED BY <2>1, <3>1 DEF WriteFrame, TypeOK, Directory
  <2>2. CASE RenameFrame
    BY <2>2 DEF RenameFrame, TypeOK, Directory
  <2>3. CASE SyncFrame
    BY <2>3 DEF SyncFrame
  <2>4. CASE UnlinkJournal
    BY <2>4 DEF UnlinkJournal, TypeOK, Directory
  <2> QED BY <1>4, <2>1, <2>2, <2>3, <2>4 DEF Publication
<1>5. CASE Returning
  BY <1>5 DEF Returning, FinishRecovery, ResumeAppend, ReturnSealed, ReturnFlushed, Unlinked
<1>6. CASE Journalling
  <2>1. CASE WriteJournal
    <3>1. dir'.frames = dir.frames
      BY <2>1 DEF WriteJournal, TypeOK, Directory
    <3> QED BY <2>1, <3>1 DEF WriteJournal
  <2> QED
    BY <1>6, <2>1 DEF Journalling, BeginAppend, TakeActive, RefuseAppend, AppendError,
              SyncJournal, SyncNewJournal, SyncJournalDir, AcceptBlock
<1>7. CASE Flush
  BY <1>7 DEF Flush, TakeActive
<1> QED BY <1>1, <1>2, <1>3, <1>4, <1>5, <1>6, <1>7 DEF Working

\* A working step keeps the block that filled its frame in that frame.
LEMMA SealingStep ==
  ASSUME IInv, Working
  PROVE  Sealing'
<1> USE DEF IInv, Sealing, Publishing, Retiring, Move, Same, client
<1>1. CASE Opening
  BY <1>1 DEF Opening, AcquireLock, RemoveTemps, WriteMetadata, RenameMetadata,
              SyncMetadata, LoadCatalog, BeforeLoad
<1>2. CASE Listing
  BY <1>2 DEF Listing, ManifestCurrent, WriteManifest, RenameManifest, SyncManifest,
              AfterManifest
<1>3. CASE Recovering
  BY <1>3 DEF Recovering, NothingToRecover, DiscardJournal, RecoverPending
<1>4. CASE Publication
  BY <1>4 DEF Publication, WriteFrame, RenameFrame, SyncFrame, UnlinkJournal
<1>5. CASE Returning
  BY <1>5 DEF Returning, FinishRecovery, ResumeAppend, ReturnSealed, ReturnFlushed, Unlinked
<1>6. CASE Journalling
  <2>1. CASE SyncJournal \/ SyncJournalDir
    <3>1. CASE pc' = "ready"
      BY <3>1
    <3>2. CASE pc' # "ready"
      BY <2>1, <3>2 DEF SyncJournal, SyncJournalDir, AcceptBlock, Incoming, TypeOK
    <3> QED BY <3>1, <3>2
  <2> QED
    BY <1>6, <2>1 DEF Journalling, BeginAppend, TakeActive, RefuseAppend, AppendError,
                      WriteJournal, SyncNewJournal
<1>7. CASE Flush
  BY <1>7 DEF Flush, TakeActive
<1> QED BY <1>1, <1>2, <1>3, <1>4, <1>5, <1>6, <1>7 DEF Working

-----------------------------------------------------------------------------
(* Types and finiteness.                                                   *)

\* What a working step does to the directories.
LEMMA DirectoryCases ==
  ASSUME Working
  PROVE  \/ Changing \/ UnlinkJournal \/ WriteJournal \/ SyncJournal \/ SyncNewJournal
         \/ SyncDirectory
         \/ dir' = dir /\ crashDirs' = crashDirs
<1> USE DEF storage
<1>1. CASE Opening
  BY <1>1 DEF Opening, AcquireLock, SyncMetadata, LoadCatalog, Changing
<1>2. CASE Listing
  BY <1>2 DEF Listing, ManifestCurrent, SyncManifest, Changing
<1>3. CASE Recovering \/ Flush
  BY <1>3 DEF Recovering, NothingToRecover, DiscardJournal, RecoverPending, Flush
<1>4. CASE Publication
  BY <1>4 DEF Publication, SyncFrame, Changing
<1>5. CASE Returning
  BY <1>5 DEF Returning, FinishRecovery, ResumeAppend, ReturnSealed, ReturnFlushed, Unlinked
<1>6. CASE Journalling
  BY <1>6 DEF Journalling, BeginAppend, RefuseAppend, AppendError, SyncJournalDir
<1> QED BY <1>1, <1>2, <1>3, <1>4, <1>5, <1>6 DEF Working

\* A working step leaves directories.
LEMMA DirectoryStep ==
  ASSUME IInv, Working
  PROVE  dir' \in Directory /\ crashDirs' \in SUBSET Directory
<1> USE DEF IInv, TypeOK
<1>1. CASE Changing
  <2>1. /\ dir' \in Directory
        /\ \A e \in crashDirs' : e \in crashDirs \/ \E m \in crashDirs : Kin(m, e)
    BY <1>1, Changes
  <2>2. \A e \in crashDirs' : e \in Directory
    BY <2>1 DEF Kin
  <2> QED BY <2>1, <2>2
<1>2. CASE SyncDirectory
  BY <1>2, Syncs
<1>3. CASE UnlinkJournal
  BY <1>3, Unlinks
<1>4. CASE WriteJournal
  <2>1. /\ WriteRecord(OpenJournal, Incoming, JournalGrowth)
             \in [born : Nat, recs : SUBSET Rec, torn : BOOLEAN, bytes : Nat]
        /\ \A n \in 0..(JournalGrowth - 1) : TornJournal(n) \in Directory
    BY JournalTypes
  <2>2. dir' \in Directory
    BY <1>4, <2>1, DirectoryChanges DEF WriteJournal
  <2> QED BY <1>4, <2>1, <2>2 DEF WriteJournal
<1>5. CASE SyncJournal \/ SyncNewJournal
  <2>1. \A d \in crashDirs : [d EXCEPT !.journal = dir.journal] \in Directory
    BY DEF Directory
  <2> QED BY <1>5, <2>1 DEF SyncJournal, SyncNewJournal, SyncJournalFile
<1>6. CASE dir' = dir /\ crashDirs' = crashDirs
  BY <1>6
<1> QED BY <1>1, <1>2, <1>3, <1>4, <1>5, <1>6, DirectoryCases

\* A working step leaves directories with finitely many frames and records.
LEMMA FiniteDirectories ==
  ASSUME IInv, Working
  PROVE  \A e \in crashDirs' : IsFiniteSet(e.frames) /\ IsFiniteSet(e.journal.recs)
<1> USE DEF IInv, TypeOK, Finite
<1>0. /\ IsFiniteSet({})
      /\ \A S : IsFiniteSet(S) => \A x : IsFiniteSet(S \cup {x})
  BY FS_EmptySet, FS_AddElement
<1>1. dir \in Directory /\ dir \in crashDirs
  BY DEF CrashSafe
<1>2. CASE Changing
  <2>1. \A e \in crashDirs' : e \in crashDirs \/ \E m \in crashDirs : Kin(m, e)
    BY <1>2, Changes
  <2>2. dir'.frames = dir.frames \/ dir'.frames = dir.frames \cup {batch}
    BY <1>1, <1>2 DEF Changing, RemoveTemps, WriteMetadata, RenameMetadata, WriteManifest,
                      RenameManifest, WriteFrame, RenameFrame, Change, Directory
  <2>3. IsFiniteSet(dir'.frames)
    <3>1. IsFiniteSet(dir.frames)
      BY <1>1
    <3>2. IsFiniteSet(dir.frames \cup {batch})
      BY <3>1, FS_AddElement
    <3> QED BY <2>2, <3>1, <3>2
  <2>4. ASSUME NEW e, NEW m \in crashDirs, Kin(m, e)
        PROVE  IsFiniteSet(e.frames) /\ IsFiniteSet(e.journal.recs)
    BY <2>3, <2>4 DEF Kin
  <2> QED BY <2>1, <2>4
<1>3. CASE SyncDirectory
  BY <1>3, Syncs
<1>4. CASE UnlinkJournal
  <2>1. crashDirs' = crashDirs \cup {dir'} /\ dir'.frames = dir.frames /\ dir'.journal = NoJournal
    BY <1>4, Unlinks
  <2>2. IsFiniteSet(dir'.frames) /\ IsFiniteSet(dir'.journal.recs)
    BY <1>0, <1>1, <2>1 DEF NoJournal
  <2> QED BY <2>1, <2>2
<1>5. CASE WriteJournal
  <2>1. IsFiniteSet(OpenJournal.recs)
    BY <1>0, <1>1 DEF OpenJournal, NoJournal
  <2>2. IsFiniteSet(WriteRecord(OpenJournal, Incoming, JournalGrowth).recs)
    BY <1>0, <2>1 DEF WriteRecord, OpenJournal, NoJournal, Directory
  <2>3. \A n : TornJournal(n).journal.recs = OpenJournal.recs /\ TornJournal(n).frames = dir.frames
    BY DEF TornJournal, TearRecord, OpenJournal, NoJournal, Directory
  <2>4. dir'.journal.recs = WriteRecord(OpenJournal, Incoming, JournalGrowth).recs /\ dir'.frames = dir.frames
    BY <1>5 DEF WriteJournal, Directory
  <2> QED BY <1>1, <1>5, <2>1, <2>2, <2>3, <2>4 DEF WriteJournal
<1>6. CASE SyncJournal \/ SyncNewJournal
  BY <1>1, <1>6 DEF SyncJournal, SyncNewJournal, SyncJournalFile, Directory
<1>7. CASE dir' = dir /\ crashDirs' = crashDirs
  BY <1>7
<1> QED BY <1>2, <1>3, <1>4, <1>5, <1>6, <1>7, DirectoryCases

\* A working step leaves finite sets.
LEMMA FiniteStep ==
  ASSUME IInv, Working
  PROVE  Finite'
<1> DEFINE Sets == IsFiniteSet(catalog) /\ IsFiniteSet(active) /\ IsFiniteSet(batch)
<1> SUFFICES Sets'
  BY FiniteDirectories DEF Finite
<1> USE DEF IInv, Finite, Same
<1>0. /\ IsFiniteSet({})
      /\ \A S : IsFiniteSet(S) => \A x : IsFiniteSet(S \cup {x})
  BY FS_EmptySet, FS_AddElement
<1>1. CASE Opening
  BY <1>1
  DEF Opening, AcquireLock, RemoveTemps, WriteMetadata, RenameMetadata, SyncMetadata,
      LoadCatalog, CrashSafe
<1>2. CASE Listing
  BY <1>2 DEF Listing, ManifestCurrent, WriteManifest, RenameManifest, SyncManifest
<1>3. CASE Recovering
  <2>1. \A n : IsFiniteSet(Pending(dir.journal, n))
    BY FS_Subset DEF Pending, ReadJournal, CrashSafe
  <2> QED
    BY <1>3, <2>1 DEF Recovering, NothingToRecover, DiscardJournal, RecoverPending
<1>4. CASE Publication
  BY <1>0, <1>4 DEF Publication, WriteFrame, RenameFrame, SyncFrame, UnlinkJournal
<1>5. CASE Returning
  BY <1>0, <1>5
  DEF Returning, FinishRecovery, ResumeAppend, ReturnSealed, ReturnFlushed, Unlinked
<1>6. CASE Journalling
  BY <1>0, <1>6
  DEF Journalling, BeginAppend, TakeActive, RefuseAppend, AppendError, WriteJournal,
      SyncJournal, SyncNewJournal, SyncJournalDir, AcceptBlock
<1>7. CASE Flush
  BY <1>0, <1>7 DEF Flush, TakeActive
<1> QED BY <1>1, <1>2, <1>3, <1>4, <1>5, <1>6, <1>7 DEF Working

\* A working step keeps the types; the account cannot go below zero.
LEMMA TypeStep ==
  ASSUME IInv, Working
  PROVE  TypeOK'
<1> DEFINE Sets == /\ catalog' \in SUBSET SUBSET Rec /\ active' \in SUBSET Rec
                   /\ batch' \in SUBSET Rec /\ acked' \in SUBSET Rec
           Numbers == /\ activeBytes' \in Nat /\ usage' \in Nat /\ nextId' \in Nat
                      /\ attempt' \in Nat /\ faults' \in Nat
                      /\ req' \in [size : Nat, growth : Nat, created : BOOLEAN]
           Control == pc' \in Labels /\ task' \in Tasks
<1> USE DEF IInv, TypeOK, Labels, Tasks, Move, Same, client
<1>1. CASE Opening
  <2>1. DirectoryBytes(dir) \in Nat /\ dir.frames \in SUBSET SUBSET Rec
    BY DirectoryBytesType DEF Directory
  <2>2. Sets /\ Numbers
    BY <1>1, <2>1 DEF Opening, AcquireLock, RemoveTemps, WriteMetadata, RenameMetadata,
                      SyncMetadata, LoadCatalog
  <2>3. Control
    BY <1>1 DEF Opening, AcquireLock, RemoveTemps, WriteMetadata, RenameMetadata,
                SyncMetadata, LoadCatalog
  <2> QED BY <2>2, <2>3, DirectoryStep
<1>2. CASE Listing
  <2>1. CASE RenameManifest
    <3>1. usage - dir.manifest.bytes \in Nat
      <4>1. usage + dir.temp = DirectoryBytes(dir)
        BY <2>1 DEF RenameManifest, Account
      <4>2. dir.manifest.bytes + dir.temp <= DirectoryBytes(dir)
        BY StoreAssumption DEF DirectoryBytes, Directory
      <4>3. dir.temp \in Nat /\ dir.manifest.bytes \in Nat
        BY DEF Directory
      <4> QED BY <4>1, <4>2, <4>3
    <3>2. EncodeManifest(catalog).bytes \in Nat
      BY EncodeManifestType DEF Finite
    <3> QED BY <2>1, <3>1, <3>2, DirectoryStep DEF RenameManifest
  <2>2. CASE ManifestCurrent \/ WriteManifest \/ SyncManifest
    <3>1. Sets /\ Numbers
      BY <2>2 DEF ManifestCurrent, WriteManifest, SyncManifest
    <3>2. Control
      BY <2>2 DEF ManifestCurrent, WriteManifest, SyncManifest, AfterManifest
    <3> QED BY <3>1, <3>2, DirectoryStep
  <2> QED BY <1>2, <2>1, <2>2 DEF Listing
<1>3. CASE Recovering
  <2>1. NextBlock(dir.frames) \in Nat
    BY DEF CrashSafe, Safe, Sequenced
  <2>2. pc = "recover" => catalog = dir.frames
    BY DEF CatalogTrue, Unloaded
  <2>3. \A n : Pending(dir.journal, n) \in SUBSET Rec
    BY DEF Pending, ReadJournal, Directory
  <2>4. Sets /\ Control
    BY <1>3, <2>3 DEF Recovering, NothingToRecover, DiscardJournal, RecoverPending
  <2>5. Numbers
    BY <1>3, <2>1, <2>2 DEF Recovering, NothingToRecover, DiscardJournal, RecoverPending
  <2> QED BY <2>4, <2>5, DirectoryStep
<1>4. CASE Publication
  <2>1. Sets /\ Control
    BY <1>4 DEF Publication, WriteFrame, RenameFrame, SyncFrame, UnlinkJournal
  <2>2. Numbers
    BY <1>4 DEF Publication, WriteFrame, RenameFrame, SyncFrame, UnlinkJournal, Directory
  <2> QED BY <2>1, <2>2, DirectoryStep
<1>5. CASE Returning
  <2>1. NextBlock(dir.frames) \in Nat
    BY DEF CrashSafe, Safe, Sequenced
  <2>2. pc = "unlinkSync" => catalog = dir.frames
    BY DEF CatalogTrue, Unloaded
  <2>3. Control
    BY <1>5 DEF Returning, FinishRecovery, ResumeAppend, ReturnSealed, ReturnFlushed, Unlinked
  <2>4. Numbers
    <3>1. CASE FinishRecovery
      BY <2>1, <2>2, <3>1 DEF FinishRecovery, Unlinked
    <3>2. CASE ResumeAppend \/ ReturnFlushed
      BY <3>2 DEF ResumeAppend, ReturnFlushed
    <3>3. CASE ReturnSealed
      BY <3>3 DEF ReturnSealed, NoReq
    <3> QED BY <1>5, <3>1, <3>2, <3>3 DEF Returning
  <2>5. Sets
    BY <1>5
    DEF Returning, FinishRecovery, ResumeAppend, ReturnSealed, ReturnFlushed, Unlinked,
        Sealing, Retiring, Rec
  <2> QED BY <2>3, <2>4, <2>5, DirectoryStep
<1>6. CASE Journalling
  <2>1. Incoming \in Rec /\ JournalGrowth \in Nat
    BY JournalTypes
  <2>2. CASE SyncJournal \/ SyncJournalDir
    <3>1. AcceptBlock
      BY <2>2 DEF SyncJournal, SyncJournalDir
    <3>2. Sets /\ Control
      BY <2>1, <3>1 DEF AcceptBlock
    <3>3. Numbers
      <4>1. usage' \in Nat /\ nextId' \in Nat /\ attempt' \in Nat /\ faults' \in Nat
        BY <3>1 DEF AcceptBlock
      <4>2. activeBytes' \in Nat
        BY <3>1 DEF AcceptBlock
      <4>3. NoReq \in [size : Nat, growth : Nat, created : BOOLEAN]
        BY DEF NoReq
      <4>4. req' = req \/ req' = NoReq
        BY <3>1 DEF AcceptBlock
      <4> QED BY <4>1, <4>2, <4>3, <4>4
    <3> QED BY <3>2, <3>3, DirectoryStep
  <2>3. CASE BeginAppend
    <3>1. Sets /\ Control
      BY <2>3 DEF BeginAppend, TakeActive
    <3>2. Numbers
      <4>1. NoReq \in [size : Nat, growth : Nat, created : BOOLEAN]
        BY DEF NoReq
      <4>2. \A n \in BlockSizes :
              [NoReq EXCEPT !.size = n] \in [size : Nat, growth : Nat, created : BOOLEAN]
        BY <4>1, StoreAssumption
      <4>3. req' \in [size : Nat, growth : Nat, created : BOOLEAN]
        BY <2>3, <4>2 DEF BeginAppend
      <4>4. activeBytes' \in Nat
        BY <2>3 DEF BeginAppend, TakeActive
      <4> QED BY <2>3, <4>3, <4>4 DEF BeginAppend
    <3> QED BY <3>1, <3>2, DirectoryStep
  <2>4. CASE RefuseAppend \/ AppendError
    <3>1. Sets /\ Control
      BY <2>4 DEF RefuseAppend, AppendError, Fault
    <3>2. Numbers
      <4>1. NoReq \in [size : Nat, growth : Nat, created : BOOLEAN]
        BY DEF NoReq
      <4>2. CASE RefuseAppend
        BY <4>1, <4>2 DEF RefuseAppend
      <4>3. CASE AppendError
        BY <4>1, <4>3 DEF AppendError, Fault
      <4> QED BY <2>4, <4>2, <4>3
    <3> QED BY <3>1, <3>2, DirectoryStep
  <2>5. CASE WriteJournal \/ SyncNewJournal
    <3>1. Sets /\ Control
      BY <2>5 DEF WriteJournal, SyncNewJournal
    <3>2. Numbers
      <4>1. CASE WriteJournal
        <5>1. req' \in [size : Nat, growth : Nat, created : BOOLEAN]
          BY <2>1, <4>1 DEF WriteJournal
        <5> QED BY <4>1, <5>1 DEF WriteJournal
      <4>2. CASE SyncNewJournal
        BY <4>2 DEF SyncNewJournal
      <4> QED BY <2>5, <4>1, <4>2
    <3> QED BY <3>1, <3>2, DirectoryStep
  <2> QED BY <1>6, <2>2, <2>3, <2>4, <2>5 DEF Journalling
<1>7. CASE Flush
  <2>1. Sets /\ Control
    BY <1>7 DEF Flush, TakeActive
  <2>2. Numbers
    BY <1>7 DEF Flush, TakeActive
  <2> QED BY <2>1, <2>2, DirectoryStep
<1> QED BY <1>1, <1>2, <1>3, <1>4, <1>5, <1>6, <1>7 DEF Working

-----------------------------------------------------------------------------
(* The byte account.                                                       *)

\* A working step keeps the byte account exact.
LEMMA AccountStep ==
  ASSUME IInv, Working
  PROVE  Account'
<1> USE DEF IInv, Account, Move, Same, storage
<1>0. dir \in Directory /\ DirectoryBytes(dir) \in Nat /\ dir.temp \in Nat /\ usage \in Nat
  BY DirectoryBytesType DEF TypeOK, Directory
<1>1. CASE Opening
  <2>1. CASE AcquireLock
    BY <2>1 DEF AcquireLock
  <2>2. CASE RemoveTemps
    BY <2>2, <1>0 DEF RemoveTemps, Change, Directory
  <2>3. CASE WriteMetadata
    BY <2>3, <1>0 DEF WriteMetadata, Change, Directory
  <2>4. CASE RenameMetadata
    BY <2>4, <1>0 DEF RenameMetadata, Change, Directory
  <2>5. CASE SyncMetadata
    BY <2>5 DEF SyncMetadata, SyncDirectory
  <2>6. CASE LoadCatalog
    BY <2>6, <1>0 DEF LoadCatalog
  <2> QED BY <1>1, <2>1, <2>2, <2>3, <2>4, <2>5, <2>6 DEF Opening
<1>2. CASE Listing
  <2>0. EncodeManifest(catalog) \in [listed : SUBSET SUBSET Rec, bytes : Nat]
    BY EncodeManifestType DEF Finite, TypeOK
  <2>1. CASE ManifestCurrent
    BY <2>1 DEF ManifestCurrent, AfterManifest
  <2>2. CASE WriteManifest
    <3>1. dir'.temp = EncodeManifest(catalog).bytes
      BY <2>2, <1>0 DEF WriteManifest, Change, Directory
    <3>2. DirectoryBytes(dir') = (DirectoryBytes(dir) - dir.temp) + dir'.temp
      BY <2>0, <2>2, <3>1, <1>0, ByteChanges DEF WriteManifest, Change
    <3>3. usage + dir.temp = DirectoryBytes(dir)
      BY <2>2 DEF WriteManifest
    <3>4. usage' + dir'.temp = DirectoryBytes(dir')
      BY <2>0, <2>2, <3>1, <3>2, <3>3, <1>0 DEF WriteManifest
    <3> QED BY <2>2, <3>1, <3>4 DEF WriteManifest
  <2>3. CASE RenameManifest
    <3>1. dir'.temp = 0
      BY <2>3, <1>0 DEF RenameManifest, Change, Directory
    <3>2. DirectoryBytes(dir')
            = (DirectoryBytes(dir) - dir.temp - dir.manifest.bytes) + EncodeManifest(catalog).bytes
      BY <2>0, <2>3, <1>0, ByteChanges DEF RenameManifest, Change
    <3>3. usage + dir.temp = DirectoryBytes(dir)
      BY <2>3 DEF RenameManifest
    <3>4. dir.manifest.bytes \in Nat
      BY <1>0 DEF Directory
    <3>5. usage' + dir'.temp = DirectoryBytes(dir')
      BY <2>0, <2>3, <3>1, <3>2, <3>3, <3>4, <1>0 DEF RenameManifest
    <3> QED BY <2>3, <3>1, <3>5 DEF RenameManifest
  <2>4. CASE SyncManifest
    BY <2>4 DEF SyncManifest, SyncDirectory, AfterManifest
  <2> QED BY <1>2, <2>1, <2>2, <2>3, <2>4 DEF Listing
<1>3. CASE Recovering
  BY <1>3 DEF Recovering, NothingToRecover, DiscardJournal, RecoverPending
<1>4. CASE Publication
  <2>1. CASE WriteFrame
    <3>1. PICK n \in FrameSizes : dir' = [dir EXCEPT !.temp = n]
      BY <2>1 DEF WriteFrame, Change
    <3>2. n \in Nat
      BY StoreAssumption
    <3>3. dir'.temp = n /\ DirectoryBytes(dir') = (DirectoryBytes(dir) - dir.temp) + n
      BY <3>1, <3>2, <1>0, ByteChanges DEF Directory
    <3>4. usage + dir.temp = DirectoryBytes(dir)
      BY <2>1 DEF WriteFrame
    <3>5. usage' + dir'.temp = DirectoryBytes(dir')
      BY <2>1, <3>2, <3>3, <3>4, <1>0 DEF WriteFrame
    <3> QED BY <2>1, <3>5 DEF WriteFrame
  <2>2. CASE RenameFrame
    <3>1. dir'.temp = 0
      BY <2>2, <1>0 DEF RenameFrame, Change, Directory
    <3>2. DirectoryBytes(dir') = DirectoryBytes(dir)
      BY <2>2, <1>0, ByteChanges DEF RenameFrame, Change, TypeOK
    <3>3. usage' + dir'.temp = DirectoryBytes(dir')
      BY <2>2, <3>1, <3>2, <1>0 DEF RenameFrame
    <3> QED BY <2>2, <3>1, <3>3 DEF RenameFrame
  <2>3. CASE SyncFrame
    BY <2>3 DEF SyncFrame, SyncDirectory
  <2>4. CASE UnlinkJournal
    <3>1. dir'.temp = 0
      BY <2>4, <1>0 DEF UnlinkJournal, Change, Directory
    <3>2. NoJournal \in [born : Nat, recs : SUBSET Rec, torn : BOOLEAN, bytes : Nat]
      BY DEF NoJournal
    <3>3. DirectoryBytes(dir') = (DirectoryBytes(dir) - dir.journal.bytes) + NoJournal.bytes
      BY <2>4, <3>2, <1>0, ByteChanges DEF UnlinkJournal, Change
    <3>4. NoJournal.bytes = 0 /\ dir.journal.bytes \in Nat /\ DirectoryBytes(dir') \in Nat
      BY <1>0, DirectoryStep, DirectoryBytesType DEF NoJournal, Directory
    <3>5. usage = DirectoryBytes(dir)
      BY <2>4, <1>0 DEF UnlinkJournal
    <3>6. usage' = IF dir.journal.bytes > usage THEN 0 ELSE usage - dir.journal.bytes
      BY <2>4 DEF UnlinkJournal
    <3>7. usage' = DirectoryBytes(dir')
      <4> HIDE DEF IInv, Account, Move, Same, storage
      <4> QED BY <1>0, <3>3, <3>4, <3>5, <3>6
    <3> QED BY <2>4, <3>1, <3>4, <3>7 DEF UnlinkJournal
  <2> QED BY <1>4, <2>1, <2>2, <2>3, <2>4 DEF Publication
<1>5. CASE Returning
  BY <1>5 DEF Returning, FinishRecovery, ResumeAppend, ReturnSealed, ReturnFlushed, Unlinked,
              SyncDirectory
<1>6. CASE Journalling
  <2>1. CASE BeginAppend
    BY <2>1 DEF BeginAppend
  <2>2. CASE RefuseAppend \/ AppendError
    BY <2>2 DEF RefuseAppend, AppendError
  <2>3. CASE WriteJournal
    <3>1. dir'.temp = 0
      BY <2>3, <1>0 DEF WriteJournal, Directory
    <3>2. DirectoryBytes(dir') = DirectoryBytes(dir) + JournalGrowth
      BY <2>3, JournalBytes DEF WriteJournal
    <3>3. usage = DirectoryBytes(dir)
      BY <2>3, <1>0 DEF WriteJournal
    <3>4. JournalGrowth \in Nat /\ dir.journal.bytes \in Nat
      BY <1>0, JournalTypes DEF Directory
    <3>5. usage' + JournalGrowth = DirectoryBytes(dir')
      BY <2>3, <3>2, <3>3, <3>4, <1>0 DEF WriteJournal
    <3>6. req'.growth = JournalGrowth
      BY <2>3 DEF WriteJournal, TypeOK
    <3> QED BY <2>3, <3>1, <3>5, <3>6 DEF WriteJournal
  <2>4. CASE SyncJournal \/ SyncJournalDir
    <3>1. dir' = dir /\ usage' = usage + req.growth /\ pc' \in {"publish", "ready"}
      BY <2>4 DEF SyncJournal, SyncJournalDir, SyncDirectory, AcceptBlock
    <3>2. dir.temp = 0 /\ usage + req.growth = DirectoryBytes(dir)
      BY <2>4 DEF SyncJournal, SyncJournalDir
    <3>3. usage' + dir'.temp = DirectoryBytes(dir')
      BY <3>1, <3>2, <1>0
    <3> QED BY <3>1, <3>2, <3>3
  <2>5. CASE SyncNewJournal
    BY <2>5 DEF SyncNewJournal
  <2> QED BY <1>6, <2>1, <2>2, <2>3, <2>4, <2>5 DEF Journalling
<1>7. CASE Flush
  BY <1>7 DEF Flush
<1> QED BY <1>1, <1>2, <1>3, <1>4, <1>5, <1>6, <1>7 DEF Working

\* A directory that is within the limit may join the others.
LEMMA WithinLimitStep ==
  ASSUME IInv, Working
  PROVE  WithinLimit'
<1> USE DEF IInv, WithinLimit, Account, Fits, Move, storage
<1>0. dir \in Directory /\ dir \in crashDirs /\ DirectoryBytes(dir) \in Nat
        /\ dir.temp \in Nat /\ usage \in Nat /\ MaxBytes \in Nat /\ MetaBytes \in Nat
  BY DirectoryBytesType, StoreAssumption DEF TypeOK, Directory, CrashSafe
<1>1. ASSUME Changing, DirectoryBytes(dir') <= MaxBytes PROVE WithinLimit'
  <2>1. ASSUME NEW e, NEW m \in crashDirs, Kin(m, e) PROVE DirectoryBytes(e) <= MaxBytes
    <3>1. /\ dir' \in Directory /\ e \in Directory /\ dir'.journal = dir.journal
          /\ e.journal.bytes <= dir'.journal.bytes
          /\ e.meta = dir'.meta /\ e.frameBytes = dir'.frameBytes
          /\ e.manifest = dir'.manifest /\ e.temp = dir'.temp
      BY <1>1, <2>1, Changes DEF Kin
    <3>2. DirectoryBytes(e) <= DirectoryBytes(dir')
      BY <3>1, StoreAssumption DEF DirectoryBytes, Directory
    <3>3. DirectoryBytes(e) \in Nat /\ DirectoryBytes(dir') \in Nat
      BY <3>1, DirectoryBytesType
    <3> QED BY <1>0, <1>1, <3>2, <3>3
  <2>2. \A e \in crashDirs' : e \in crashDirs \/ \E m \in crashDirs : Kin(m, e)
    BY <1>1, Changes
  <2> QED BY <2>1, <2>2
<1>8. ASSUME SyncDirectory PROVE WithinLimit'
  BY <1>8, Syncs
<1>2. CASE Opening
  <2>1. CASE AcquireLock \/ LoadCatalog
    BY <2>1 DEF AcquireLock, LoadCatalog
  <2>2. CASE RemoveTemps
    <3>1. DirectoryBytes(dir') = (DirectoryBytes(dir) - dir.temp) + 0
      BY <2>2, <1>0, ByteChanges DEF RemoveTemps, Change
    <3> QED BY <1>0, <1>1, <2>2, <3>1 DEF RemoveTemps, Changing
  <2>3. CASE WriteMetadata
    <3>1. DirectoryBytes(dir') = (DirectoryBytes(dir) - dir.temp) + MetaBytes
      BY <2>3, <1>0, ByteChanges DEF WriteMetadata, Change
    <3> QED BY <1>0, <1>1, <2>3, <3>1 DEF WriteMetadata, Changing
  <2>4. CASE RenameMetadata
    <3>1. DirectoryBytes(dir') <= (DirectoryBytes(dir) - dir.temp) + MetaBytes
      BY <2>4, <1>0, ByteChanges DEF RenameMetadata, Change
    <3>2. DirectoryBytes(dir') \in Nat
      BY DirectoryStep, DirectoryBytesType
    <3> QED BY <1>0, <1>1, <2>4, <3>1, <3>2 DEF RenameMetadata, Changing
  <2>5. CASE SyncMetadata
    BY <2>5, <1>8 DEF SyncMetadata
  <2> QED BY <1>2, <2>1, <2>2, <2>3, <2>4, <2>5 DEF Opening
<1>3. CASE Listing
  <2>0. EncodeManifest(catalog) \in [listed : SUBSET SUBSET Rec, bytes : Nat]
    BY EncodeManifestType DEF Finite, TypeOK
  <2>1. CASE WriteManifest
    <3>1. DirectoryBytes(dir') = (DirectoryBytes(dir) - dir.temp) + EncodeManifest(catalog).bytes
      BY <2>0, <2>1, <1>0, ByteChanges DEF WriteManifest, Change
    <3> QED BY <1>0, <1>1, <2>0, <2>1, <3>1 DEF WriteManifest, Changing, ManifestFits
  <2>2. CASE RenameManifest
    <3>1. DirectoryBytes(dir')
            = (DirectoryBytes(dir) - dir.temp - dir.manifest.bytes) + EncodeManifest(catalog).bytes
      BY <2>0, <2>2, <1>0, ByteChanges DEF RenameManifest, Change
    <3>2. dir.manifest.bytes \in Nat
      BY <1>0 DEF Directory
    <3> QED BY <1>0, <1>1, <2>0, <2>2, <3>1, <3>2 DEF RenameManifest, Changing
  <2>3. CASE ManifestCurrent \/ SyncManifest
    BY <2>3, <1>8 DEF ManifestCurrent, SyncManifest
  <2> QED BY <1>3, <2>1, <2>2, <2>3 DEF Listing
<1>4. CASE Recovering \/ Flush
  BY <1>4 DEF Recovering, NothingToRecover, DiscardJournal, RecoverPending, Flush
<1>5. CASE Publication
  <2>1. CASE WriteFrame
    <3>1. PICK n \in FrameSizes : CanPublish(n) /\ dir' = [dir EXCEPT !.temp = n]
      BY <2>1 DEF WriteFrame, Change
    <3>2. n \in Nat /\ EncodeManifest(catalog \cup {batch}).bytes \in Nat
      <4>1. catalog \cup {batch} \in SUBSET SUBSET Rec /\ IsFiniteSet(catalog \cup {batch})
        BY FS_AddElement DEF Finite, TypeOK
      <4> QED BY <4>1, StoreAssumption, EncodeManifestType
    <3>3. usage + n <= MaxBytes
      BY <3>1, <3>2, <1>0 DEF CanPublish
    <3>4. DirectoryBytes(dir') = (DirectoryBytes(dir) - dir.temp) + n
      BY <3>1, <3>2, <1>0, ByteChanges
    <3> QED BY <1>0, <1>1, <2>1, <3>2, <3>3, <3>4 DEF WriteFrame, Changing
  <2>2. CASE RenameFrame
    <3>1. DirectoryBytes(dir') = DirectoryBytes(dir)
      BY <2>2, <1>0, ByteChanges DEF RenameFrame, Change, TypeOK
    <3> QED BY <1>0, <1>1, <2>2, <3>1 DEF RenameFrame, Changing
  <2>3. CASE SyncFrame
    BY <2>3, <1>8 DEF SyncFrame
  <2>4. CASE UnlinkJournal
    <3>1. NoJournal \in [born : Nat, recs : SUBSET Rec, torn : BOOLEAN, bytes : Nat]
             /\ NoJournal.bytes = 0 /\ dir.journal.bytes \in Nat
      BY <1>0 DEF NoJournal, Directory
    <3>2. DirectoryBytes(dir') = (DirectoryBytes(dir) - dir.journal.bytes) + 0
      BY <2>4, <3>1, <1>0, ByteChanges DEF UnlinkJournal, Change
    <3>3. crashDirs' = crashDirs \cup {dir'}
      BY <2>4, Unlinks
    <3> QED BY <1>0, <3>1, <3>2, <3>3
  <2> QED BY <1>5, <2>1, <2>2, <2>3, <2>4 DEF Publication
<1>6. CASE Returning
  BY <1>6, <1>8 DEF Returning, FinishRecovery, ResumeAppend, ReturnSealed, ReturnFlushed,
                    Unlinked
<1>7. CASE Journalling
  <2>1. CASE BeginAppend \/ RefuseAppend \/ AppendError
    BY <2>1 DEF BeginAppend, RefuseAppend, AppendError
  <2>2. CASE WriteJournal
    <3>1. JournalGrowth \in Nat
      BY JournalTypes
    <3>2. usage = DirectoryBytes(dir) /\ usage + JournalGrowth <= MaxBytes
      BY <2>2, <1>0 DEF WriteJournal, MayJournal
    <3>3. DirectoryBytes(dir') <= MaxBytes
      BY <2>2, <3>2, JournalBytes DEF WriteJournal
    <3>4. ASSUME NEW n \in 0..(JournalGrowth - 1)
          PROVE  DirectoryBytes(TornJournal(n)) <= MaxBytes
      <4>1. DirectoryBytes(TornJournal(n)) = DirectoryBytes(dir) + n
        BY JournalBytes
      <4> QED BY <1>0, <3>1, <3>2, <4>1
    <3> QED BY <2>2, <3>3, <3>4 DEF WriteJournal
  <2>3. CASE SyncJournal \/ SyncNewJournal
    <3>1. ASSUME NEW d \in crashDirs'
          PROVE  d = dir \/ d \in crashDirs
      BY <2>3, <3>1 DEF SyncJournal, SyncNewJournal, SyncJournalFile, Appending
    <3> QED BY <3>1, <1>0
  <2>4. CASE SyncJournalDir
    BY <2>4, <1>8 DEF SyncJournalDir
  <2> QED BY <1>7, <2>1, <2>2, <2>3, <2>4 DEF Journalling
<1> QED BY <1>2, <1>3, <1>4, <1>5, <1>6, <1>7 DEF Working

-----------------------------------------------------------------------------
(* What a power loss may leave stays recoverable.                          *)

\* The journal write: what it adds, and that it is safe whole or torn.
LEMMA JournalWrite ==
  ASSUME IInv, pc = "journal",
         NEW after, after = [dir EXCEPT !.journal =
                               WriteRecord(OpenJournal, Incoming, JournalGrowth)]
  PROVE  /\ after.frames = dir.frames
         /\ after.journal.recs = active \cup {Incoming}
         /\ after.journal.torn = FALSE
         /\ after.journal.born = (IF JournalExists(dir) THEN dir.journal.born ELSE attempt)
         /\ JournalExists(after)
         /\ Safe(after, Promised, attempt)
         /\ \A n \in 0..(JournalGrowth - 1) :
              /\ TornJournal(n).journal.born = after.journal.born
              /\ TornJournal(n).journal.recs = active
              /\ Safe(TornJournal(n), Promised, attempt)
<1> USE DEF IInv
<1>1. /\ dir \in Directory /\ Safe(dir, Promised, attempt)
      /\ NextBlock(dir.frames) \in Nat /\ nextId \in Nat /\ attempt \in Nat
      /\ catalog = dir.frames
  BY DEF TypeOK, CrashSafe, Safe, Sequenced, CatalogTrue, Unloaded
<1>2. /\ dir.journal.recs = active /\ ~dir.journal.torn
      /\ Ids(active) = NextBlock(dir.frames)..(nextId - 1)
      /\ nextId = NextBlock(dir.frames) + Cardinality(active)
      /\ Cardinality(active) \in Nat
  BY <1>1, FS_CardinalityType DEF JournalIsActive, Finite
<1>3. nextId < NextBlock(dir.frames) + MaxBlocks
  BY <1>1, <1>2, StoreAssumption DEF Appending
<1>4. OpenJournal \in [born : Nat, recs : SUBSET Rec, torn : BOOLEAN, bytes : Nat]
  BY JournalTypes
<1>5. /\ OpenJournal.recs = active /\ ~OpenJournal.torn
      /\ OpenJournal.born = (IF JournalExists(dir) THEN dir.journal.born ELSE attempt)
      /\ OpenJournal.born # 0 /\ OpenJournal.born <= attempt
  <2>1. dir.journal.born < attempt /\ dir.journal.born \in Nat
    BY <1>1 DEF Appending, CrashSafe, Directory
  <2>2. CASE JournalExists(dir)
    BY <1>1, <1>2, <2>1, <2>2 DEF OpenJournal, JournalExists
  <2>3. CASE ~JournalExists(dir)
    BY <1>1, <1>2, <2>1, <2>3 DEF OpenJournal, JournalExists, NoJournal, Safe
  <2> QED BY <2>2, <2>3
<1>6. Incoming.id = nextId
  BY DEF Incoming
<1>7. active = {} \/ (nextId - 1 \in Ids(active) /\ nextId \notin Ids(active))
  <2>1. CASE active # {}
    <3>1. PICK r \in active : r.id \in NextBlock(dir.frames)..(nextId - 1)
      BY <1>2, <2>1 DEF Ids
    <3> QED BY <1>1, <1>2, <3>1
  <2> QED BY <2>1
<1>8. /\ after.journal = WriteRecord(OpenJournal, Incoming, JournalGrowth)
      /\ after.frames = dir.frames
  BY <1>1 DEF Directory
<1>9. /\ after.journal.recs = active \cup {Incoming}
      /\ after.journal.torn = FALSE
      /\ after.journal.born = OpenJournal.born
  BY <1>4, <1>5, <1>6, <1>7, <1>8 DEF WriteRecord
<1>10. Ids(after.journal.recs) = NextBlock(dir.frames)..nextId
  <2>1. Ids(after.journal.recs) = Ids(active) \cup {nextId}
    BY <1>6, <1>9 DEF Ids
  <2>2. NextBlock(dir.frames) <= nextId
    BY <1>1, <1>2
  <2>3. \A n, m \in Nat : n <= m => (n..(m - 1)) \cup {m} = n..m
    OBVIOUS
  <2> QED BY <1>1, <1>2, <2>1, <2>2, <2>3
<1>11. Agrees(after)
  <2>1. ASSUME NEW r \in after.journal.recs
        PROVE  r.id \in NextBlock(dir.frames)..nextId
    BY <1>10 DEF Ids
  <2>2. ASSUME NEW r \in after.journal.recs
        PROVE  ~(r.id < NextBlock(dir.frames))
                 /\ NextBlock(dir.frames)..r.id \subseteq NextBlock(dir.frames)..nextId
    BY <1>1, <2>1
  <2>3. ASSUME NEW r \in after.journal.recs, NEW q \in after.journal.recs
        PROVE  r.id < q.id + MaxBlocks
    BY <1>1, <1>3, <2>1, StoreAssumption
  <2> QED BY <1>8, <1>10, <2>2, <2>3 DEF Agrees
<1>12. Safe(after, Promised, attempt)
  BY <1>1, <1>2, <1>5, <1>8, <1>9, <1>11 DEF Safe, JournalExists
<1>13. ASSUME NEW n \in 0..(JournalGrowth - 1)
       PROVE  /\ TornJournal(n).journal.born = OpenJournal.born
              /\ TornJournal(n).journal.recs = active
              /\ TornJournal(n).frames = dir.frames
  BY <1>1, <1>4, <1>5 DEF TornJournal, TearRecord, Directory
<1>14. ASSUME NEW n \in 0..(JournalGrowth - 1)
       PROVE  Safe(TornJournal(n), Promised, attempt)
  BY <1>1, <1>2, <1>5, <1>13 DEF Safe, Agrees, JournalExists
<1> QED BY <1>5, <1>8, <1>9, <1>12, <1>13, <1>14 DEF JournalExists

\* Frames and journals that were safe stay safe while promises shrink.
LEMMA StaysSafe ==
  ASSUME TypeOK, CrashSafe, dir' \in crashDirs', attempt' \in Nat, attempt <= attempt',
         Promised' \subseteq Promised,
         \A e \in crashDirs' : \E d \in crashDirs : e.frames = d.frames /\ e.journal = d.journal
  PROVE  CrashSafe'
<1>1. ASSUME NEW e \in crashDirs'
      PROVE  Safe(e, Promised', attempt')
  <2>1. PICK d \in crashDirs : e.frames = d.frames /\ e.journal = d.journal
    OBVIOUS
  <2>2. Safe(d, Promised, attempt) /\ d \in Directory /\ attempt \in Nat
    BY DEF CrashSafe, TypeOK
  <2> QED BY <2>1, <2>2, SafeLasts
<1> QED BY <1>1 DEF CrashSafe

\* A working step breaks no promise, whatever a power loss after it leaves.
LEMMA CrashSafeStep ==
  ASSUME IInv, Working
  PROVE  CrashSafe'
<1> USE DEF IInv, Promised, Move, Same, storage, client
<1>0. /\ dir \in crashDirs /\ dir \in Directory /\ attempt \in Nat
      /\ Safe(dir, Promised, attempt)
      /\ NextBlock(dir.frames) \in Nat
  BY DEF TypeOK, CrashSafe, Safe, Sequenced
<1>1. ASSUME \/ Changing /\ dir'.frames = dir.frames
             \/ SyncDirectory
             \/ dir' = dir /\ crashDirs' = crashDirs,
             Promised' \subseteq Promised, attempt' \in {attempt, attempt + 1}
      PROVE  CrashSafe'
  <2>1. /\ dir' \in crashDirs'
        /\ \A e \in crashDirs' : \E d \in crashDirs : e.frames = d.frames /\ e.journal = d.journal
    <3>1. CASE Changing /\ dir'.frames = dir.frames
      <4>1. /\ dir' \in crashDirs'
            /\ \A e \in crashDirs' : e \in crashDirs \/ \E m \in crashDirs : Kin(m, e)
        BY <3>1, Changes
      <4> QED BY <3>1, <4>1 DEF Kin
    <3>2. CASE SyncDirectory
      BY <3>2, Syncs
    <3>3. CASE dir' = dir /\ crashDirs' = crashDirs
      BY <1>0, <3>3
    <3> QED BY <1>1, <3>1, <3>2, <3>3
  <2>2. attempt' \in Nat /\ attempt <= attempt'
    BY <1>0, <1>1
  <2> HIDE DEF Promised
  <2> QED BY <1>1, <2>1, <2>2, StaysSafe
<1>2. CASE Opening
  <2>1. Promised' \subseteq Promised
    BY <1>2 DEF Opening, AcquireLock, RemoveTemps, WriteMetadata, RenameMetadata, SyncMetadata,
                LoadCatalog, BeforeLoad
  <2>2. dir'.frames = dir.frames \/ SyncDirectory
    BY <1>0, <1>2 DEF Opening, AcquireLock, RemoveTemps, WriteMetadata, RenameMetadata,
                      SyncMetadata, LoadCatalog, Change, Directory
  <2>3. attempt' = attempt /\ (Changing \/ SyncDirectory \/ (dir' = dir /\ crashDirs' = crashDirs))
    BY <1>2 DEF Opening, AcquireLock, RemoveTemps, WriteMetadata, RenameMetadata,
                SyncMetadata, LoadCatalog, Changing
  <2> HIDE DEF Promised
  <2> QED BY <1>1, <2>1, <2>2, <2>3
<1>3. CASE Listing
  <2>1. Promised' \subseteq Promised
    BY <1>3 DEF Listing, ManifestCurrent, WriteManifest, RenameManifest, SyncManifest
  <2>2. dir'.frames = dir.frames \/ SyncDirectory
    BY <1>0, <1>3 DEF Listing, ManifestCurrent, WriteManifest, RenameManifest, SyncManifest,
                      Change, Directory
  <2>3. attempt' = attempt /\ (Changing \/ SyncDirectory \/ (dir' = dir /\ crashDirs' = crashDirs))
    BY <1>3 DEF Listing, ManifestCurrent, WriteManifest, RenameManifest, SyncManifest, Changing
  <2> HIDE DEF Promised
  <2> QED BY <1>1, <2>1, <2>2, <2>3
<1>4. CASE Recovering
  <2>1. Promised' \subseteq Promised
    BY <1>4 DEF Recovering, NothingToRecover, DiscardJournal, RecoverPending, BeforeLoad
  <2>2. dir' = dir /\ crashDirs' = crashDirs /\ attempt' = attempt
    BY <1>4 DEF Recovering, NothingToRecover, DiscardJournal, RecoverPending
  <2> HIDE DEF Promised
  <2> QED BY <1>0, <1>1, <2>1, <2>2
<1>5. CASE Publication
  <2>1. CASE WriteFrame \/ SyncFrame
    <3>1. Promised' \subseteq Promised
      BY <2>1 DEF WriteFrame, SyncFrame
    <3>2. dir'.frames = dir.frames \/ SyncDirectory
      BY <1>0, <2>1 DEF WriteFrame, SyncFrame, Change, Directory
    <3>3. attempt' = attempt /\ (Changing \/ SyncDirectory)
      BY <2>1 DEF WriteFrame, SyncFrame, Changing
    <3> HIDE DEF Promised
    <3> QED BY <1>1, <3>1, <3>2, <3>3
  <2>2. CASE RenameFrame
    <3>1. dir'.frames = dir.frames \cup {batch} /\ dir'.journal = dir.journal
      BY <1>0, <2>2 DEF RenameFrame, Change, Directory
    <3>2. catalog = dir.frames /\ Sequenced(catalog) /\ Continues(batch, catalog)
      BY <2>2 DEF RenameFrame, CatalogTrue, Unloaded
    <3>3. Sequenced(dir'.frames)
      BY <3>1, <3>2, ExtendSequence DEF Finite
    <3>4. dir.journal.recs \subseteq UNION dir'.frames
      BY <2>2, <3>1, <3>2 DEF RenameFrame, PublicationCovers, Publishing
    <3>5. ASSUME NEW r \in UNION dir'.frames
          PROVE  r.id < NextBlock(dir'.frames)
      <4>1. r.id \in Ids(UNION dir'.frames)
        BY DEF Ids
      <4>2. r.id \in 0..(NextBlock(dir'.frames) - 1) /\ NextBlock(dir'.frames) \in Nat
        BY <3>3, <4>1 DEF Sequenced
      <4> QED BY <4>2
    <3>6. Promised' = Promised /\ attempt' = attempt
      BY <2>2 DEF RenameFrame
    <3>7. ASSUME NEW e, NEW m \in crashDirs, Kin(m, e)
          PROVE  Safe(e, Promised', attempt')
      <4> HIDE DEF Promised
      <4>1. /\ e.frames = dir'.frames /\ e.journal = m.journal /\ m.frames = dir.frames
            /\ m.journal.recs \subseteq dir.journal.recs /\ Safe(m, Promised, attempt)
        BY <3>7 DEF Kin, CrashSafe
      <4>2. Agrees(e)
        BY <3>4, <3>5, <4>1 DEF Agrees, Safe
      <4>3. UNION dir'.frames = (UNION dir.frames) \cup batch
        BY <3>1
      <4> QED BY <3>3, <3>6, <4>1, <4>2, <4>3 DEF Safe, JournalExists
    <3>8. /\ dir' \in crashDirs'
          /\ \A e \in crashDirs' : e \in crashDirs \/ \E m \in crashDirs : Kin(m, e)
      BY <2>2, Changes DEF Changing
    <3> HIDE DEF Promised
    <3> QED BY <3>6, <3>7, <3>8 DEF CrashSafe
  <2>3. CASE UnlinkJournal
    <3>1. dir'.frames = dir.frames /\ dir'.journal = NoJournal
      BY <2>3, Unlinks
    <3>2. dir.journal.recs \subseteq UNION dir.frames
      BY <2>3 DEF UnlinkJournal, PublicationCovers, Retiring, BeforeLoad, CatalogTrue, Unloaded
    <3>3. Promised' = Promised /\ attempt' = attempt
      BY <2>3 DEF UnlinkJournal
    <3>4. Safe(dir', Promised', attempt')
      <4> HIDE DEF Promised
      <4> QED BY <1>0, <3>1, <3>2, <3>3 DEF Safe, JournalExists, Agrees, NoJournal
    <3>5. crashDirs' = crashDirs \cup {dir'}
      BY <2>3, Unlinks
    <3> HIDE DEF Promised
    <3> QED BY <3>3, <3>4, <3>5 DEF CrashSafe
  <2> QED BY <1>5, <2>1, <2>2, <2>3 DEF Publication
<1>6. CASE Returning
  <2>1. Promised' \subseteq Promised
    BY <1>6 DEF Returning, FinishRecovery, ResumeAppend, ReturnSealed, ReturnFlushed, Unlinked,
                Sealing, Retiring
  <2>2. SyncDirectory /\ attempt' = attempt
    BY <1>6 DEF Returning, FinishRecovery, ResumeAppend, ReturnSealed, ReturnFlushed, Unlinked
  <2> HIDE DEF Promised
  <2> QED BY <1>0, <1>1, <2>1, <2>2
<1>7. CASE BeginAppend \/ RefuseAppend \/ AppendError \/ Flush
  <2>1. Promised' \subseteq Promised
    <3>1. CASE BeginAppend \/ Flush
      BY <3>1 DEF BeginAppend, Flush, TakeActive, JournalIsActive
    <3>2. CASE RefuseAppend \/ AppendError
      BY <3>2 DEF RefuseAppend, AppendError, Fault, JournalIsActive
    <3> QED BY <1>7, <3>1, <3>2
  <2>2. dir' = dir /\ crashDirs' = crashDirs /\ attempt' \in {attempt, attempt + 1}
    BY <1>7 DEF BeginAppend, RefuseAppend, AppendError, Flush, Fault
  <2> HIDE DEF Promised
  <2> QED BY <1>0, <1>1, <2>1, <2>2
<1>8. CASE WriteJournal
  <2>1. Promised' = Promised /\ attempt' = attempt
    BY <1>8 DEF WriteJournal
  <2> HIDE DEF Promised
  <2>2. Safe(dir', Promised, attempt)
    BY <1>8, JournalWrite DEF WriteJournal
  <2>3. \A n \in 0..(JournalGrowth - 1) : Safe(TornJournal(n), Promised, attempt)
    BY <1>8, JournalWrite DEF WriteJournal
  <2>4. dir' \in crashDirs'
           /\ crashDirs' = crashDirs \cup {dir'} \cup {TornJournal(n) : n \in 0..(JournalGrowth - 1)}
    BY <1>8 DEF WriteJournal
  <2> QED BY <2>1, <2>2, <2>3, <2>4 DEF CrashSafe
<1>9. CASE SyncNewJournal
  <2>1. crashDirs' \subseteq crashDirs /\ dir' \in crashDirs' /\ dir' = dir
    BY <1>0, <1>9 DEF SyncNewJournal, SyncJournalFile, Appending
  <2>2. Promised' \subseteq Promised /\ attempt' = attempt
    BY <1>9 DEF SyncNewJournal
  <2> HIDE DEF Promised
  <2> QED BY <1>0, <2>1, <2>2, StaysSafe
<1>10. CASE SyncJournal \/ SyncJournalDir
  <2>1. crashDirs' = {dir} /\ dir' = dir
    <3>1. CASE SyncJournal
      BY <1>0, <3>1 DEF SyncJournal, SyncJournalFile, Appending
    <3>2. CASE SyncJournalDir
      BY <3>2, SyncsAll DEF SyncJournalDir
    <3> QED BY <1>10, <3>1, <3>2
  <2>2. Promised' \subseteq Promised \cup {Incoming} /\ attempt' = attempt
    BY <1>10 DEF SyncJournal, SyncJournalDir, AcceptBlock, Appending
  <2>3. Incoming \in dir.journal.recs
    BY <1>10 DEF SyncJournal, SyncJournalDir, Appending
  <2> HIDE DEF Promised
  <2>4. Safe(dir, Promised', attempt)
    BY <1>0, <2>2, <2>3 DEF Safe
  <2> QED BY <2>1, <2>2, <2>4 DEF CrashSafe
<1> QED BY <1>2, <1>3, <1>4, <1>5, <1>6, <1>7, <1>8, <1>9, <1>10 DEF Working, Journalling

-----------------------------------------------------------------------------
(* The writer's memory agrees with the directory.                          *)

\* The ids of the active frame and the block under way.
LEMMA ActiveGrows ==
  ASSUME IInv, pc \in {"journalSync", "journalSyncDir"}
  PROVE  /\ Ids(active \cup {Incoming}) = NextBlock(catalog)..nextId
         /\ nextId + 1 = NextBlock(catalog) + Cardinality(active \cup {Incoming})
<1>1. /\ Ids(active) = NextBlock(catalog)..(nextId - 1)
      /\ nextId = NextBlock(catalog) + Cardinality(active)
      /\ nextId \in Nat /\ NextBlock(catalog) \in Nat /\ IsFiniteSet(active)
      /\ Cardinality(active) \in Nat
  BY FS_CardinalityType
  DEF IInv, Appending, TypeOK, Finite, CatalogTrue, Unloaded, CrashSafe, Safe, Sequenced
<1>2. Incoming.id = nextId
  BY DEF Incoming
<1>3. Ids(active \cup {Incoming}) = Ids(active) \cup {nextId}
  BY <1>2 DEF Ids
<1>4. \A n, m \in Nat : n <= m => (n..(m - 1)) \cup {m} = n..m
  OBVIOUS
<1>5. NextBlock(catalog) <= nextId
  BY <1>1
<1>6. Incoming \notin active
  <2>1. nextId \notin Ids(active)
    BY <1>1
  <2> QED BY <1>2, <2>1 DEF Ids
<1>7. Cardinality(active \cup {Incoming}) = Cardinality(active) + 1
  BY <1>1, <1>6, FS_AddElement
<1>8. Ids(active \cup {Incoming}) = NextBlock(catalog)..nextId
  BY <1>1, <1>3, <1>4, <1>5
<1>9. nextId + 1 = NextBlock(catalog) + Cardinality(active \cup {Incoming})
  BY <1>1, <1>7
<1> QED BY <1>8, <1>9

\* Recovery publishes every journalled block that no frame holds.
LEMMA RecoveryCovers ==
  ASSUME IInv, pc = "recover"
  PROVE  dir.journal.recs \subseteq (UNION catalog) \cup Pending(dir.journal, NextBlock(catalog))
<1>1. dir \in Directory /\ Safe(dir, Promised, attempt) /\ catalog = dir.frames
  BY DEF IInv, TypeOK, CrashSafe, CatalogTrue, Unloaded
<1>2. Safe(dir, dir.journal.recs, attempt)
  BY <1>1 DEF Safe
<1>3. dir.journal.recs \subseteq Recoverable(dir)
  BY <1>1, <1>2, SafeRecovers
<1> QED BY <1>1, <1>3 DEF Recoverable

\* A working step returns with the active frame in the journal.
LEMMA JournalIsActiveStep ==
  ASSUME IInv, Working
  PROVE  JournalIsActive'
<1> USE DEF IInv, JournalIsActive, Move, Same, storage, client
<1>0. /\ dir \in crashDirs /\ dir \in Directory /\ nextId \in Nat
      /\ (~JournalExists(dir) => dir.journal = NoJournal)
      /\ NextBlock(dir.frames) \in Nat
  BY DEF TypeOK, CrashSafe, Safe, Sequenced
<1>1. ASSUME dir'.journal = NoJournal, active' = {}, batch' = {}, nextId' = NextBlock(catalog'),
             NextBlock(catalog') \in Nat
      PROVE  JournalIsActive'
  <2>1. Cardinality({}) = 0 /\ Ids({}) = {}
    BY FS_EmptySet DEF Ids
  <2>2. \A n \in Nat : n..(n - 1) = {} /\ n = n + 0
    OBVIOUS
  <2>3. Ids(active') = NextBlock(catalog')..(nextId' - 1)
    BY <1>1, <2>1, <2>2
  <2>4. nextId' = NextBlock(catalog') + Cardinality(active')
    BY <1>1, <2>1, <2>2
  <2>5. dir'.journal.recs = active' /\ ~dir'.journal.torn /\ ~JournalExists(dir)'
    BY <1>1 DEF JournalExists, NoJournal
  <2> QED BY <1>1, <2>3, <2>4, <2>5
<1>2. CASE Opening \/ Listing \/ Publication \/ Flush
  BY <1>2
  DEF Opening, AcquireLock, RemoveTemps, WriteMetadata, RenameMetadata, SyncMetadata, LoadCatalog,
      Listing, ManifestCurrent, WriteManifest, RenameManifest, SyncManifest, AfterManifest,
      Publication, WriteFrame, RenameFrame, SyncFrame, UnlinkJournal, Flush
<1>3. CASE Recovering
  <2>1. CASE NothingToRecover
    <3>1. task = "open" /\ active = {} /\ batch = {} /\ catalog = dir.frames
      BY <2>1 DEF NothingToRecover, BeforeLoad, CatalogTrue, Unloaded
    <3> QED BY <1>0, <1>1, <2>1, <3>1 DEF NothingToRecover
  <2>2. CASE DiscardJournal \/ RecoverPending
    BY <2>2 DEF DiscardJournal, RecoverPending
  <2> QED BY <1>3, <2>1, <2>2 DEF Recovering
<1>4. CASE Returning
  <2>1. pc = "unlinkSync" /\ dir' = dir /\ catalog' = catalog /\ active' = active /\ batch' = {}
    BY <1>4 DEF Returning, FinishRecovery, ResumeAppend, ReturnSealed, ReturnFlushed, Unlinked,
                SyncDirectory
  <2>2. dir.journal = NoJournal /\ active = {} /\ catalog = dir.frames
    BY <2>1 DEF PublicationCovers, Publishing, Retiring, CatalogTrue, Unloaded
  <2>3. nextId' = NextBlock(catalog)
    BY <1>4, <2>1
    DEF Returning, FinishRecovery, ResumeAppend, ReturnSealed, ReturnFlushed,
        PublicationCovers, Retiring
  <2> QED BY <1>0, <1>1, <2>1, <2>2, <2>3
<1>5. CASE Journalling
  <2>1. CASE BeginAppend
    BY <2>1 DEF BeginAppend
  <2>2. CASE RefuseAppend
    BY <2>2 DEF RefuseAppend
  <2>3. CASE AppendError
    BY <2>3 DEF AppendError
  <2>4. CASE WriteJournal \/ SyncNewJournal
    BY <2>4 DEF WriteJournal, SyncNewJournal
  <2>5. CASE SyncJournal \/ SyncJournalDir
    <3>1. CASE pc' = "ready"
      <4>1. dir' = dir /\ crashDirs' = {dir}
        <5>1. CASE SyncJournal
          BY <1>0, <5>1 DEF SyncJournal, SyncJournalFile, Appending
        <5>2. CASE SyncJournalDir
          BY <5>2, SyncsAll DEF SyncJournalDir
        <5> QED BY <2>5, <5>1, <5>2
      <4>2. /\ active' = active \cup {Incoming} /\ nextId' = nextId + 1
            /\ batch' = batch /\ catalog' = catalog
        BY <2>5, <3>1 DEF SyncJournal, SyncJournalDir, AcceptBlock
      <4>3. dir.journal.recs = active \cup {Incoming} /\ ~dir.journal.torn /\ batch = {}
        BY <2>5 DEF SyncJournal, SyncJournalDir, Appending
      <4>4. (nextId + 1) - 1 = nextId
        BY <1>0
      <4>5. /\ Ids(active \cup {Incoming}) = NextBlock(catalog)..nextId
            /\ nextId + 1 = NextBlock(catalog) + Cardinality(active \cup {Incoming})
        BY <2>5, ActiveGrows DEF SyncJournal, SyncJournalDir
      <4> QED BY <4>1, <4>2, <4>3, <4>4, <4>5
    <3>2. CASE pc' # "ready"
      BY <2>5, <3>2 DEF SyncJournal, SyncJournalDir, AcceptBlock
    <3> QED BY <3>1, <3>2
  <2> QED BY <1>5, <2>1, <2>2, <2>3, <2>4, <2>5 DEF Journalling
<1> QED BY <1>2, <1>3, <1>4, <1>5 DEF Working

\* A change or a sync of the directory leaves no journal that was not there.
LEMMA NoOtherJournal ==
  ASSUME IInv, Changing \/ SyncDirectory
  PROVE  \A e \in crashDirs' : \E d \in crashDirs : e.journal = d.journal
<1>1. CASE Changing
  <2>1. \A e \in crashDirs' : e \in crashDirs \/ \E m \in crashDirs : Kin(m, e)
    BY <1>1, Changes
  <2> QED BY <2>1 DEF Kin
<1>2. CASE SyncDirectory
  BY <1>2, Syncs
<1> QED BY <1>1, <1>2

\* A working step keeps the append under way apart from older journals.
LEMMA AppendingStep ==
  ASSUME IInv, Working
  PROVE  Appending'
<1> USE DEF IInv, Appending, Publishing, Retiring, Move, Same, storage, client
<1>0. /\ dir \in crashDirs /\ dir \in Directory /\ attempt \in Nat
      /\ \A d \in crashDirs : d.journal.born \in Nat /\ d.journal.born <= attempt
  BY DEF TypeOK, CrashSafe, Safe, Directory
<1>1. CASE Opening
  BY <1>1 DEF Opening, AcquireLock, RemoveTemps, WriteMetadata, RenameMetadata, SyncMetadata,
              LoadCatalog, BeforeLoad
<1>2. CASE Listing
  <2>1. \A e \in crashDirs' : \E d \in crashDirs : e.journal = d.journal
    BY <1>2, NoOtherJournal DEF Listing, ManifestCurrent, WriteManifest, RenameManifest, SyncManifest,
                                Changing
  <2> QED
    BY <1>0, <1>2, <2>1
    DEF Listing, ManifestCurrent, WriteManifest, RenameManifest, SyncManifest, AfterManifest
<1>3. CASE Recovering
  BY <1>3 DEF Recovering, NothingToRecover, DiscardJournal, RecoverPending
<1>4. CASE Publication
  <2>1. CASE WriteFrame \/ RenameFrame \/ SyncFrame
    <3>1. \A e \in crashDirs' : \E d \in crashDirs : e.journal = d.journal
      BY <2>1, NoOtherJournal DEF WriteFrame, RenameFrame, SyncFrame, Changing
    <3> QED BY <1>0, <2>1, <3>1 DEF WriteFrame, RenameFrame, SyncFrame
  <2>2. CASE UnlinkJournal
    <3>1. dir'.journal.born = 0
      BY <2>2, Unlinks DEF NoJournal
    <3>2. task = "append" => \A d \in crashDirs' : d.journal.born < attempt
      <4>1. task = "append" => 0 < attempt
        BY <1>0, <2>2 DEF UnlinkJournal
      <4>2. crashDirs' = crashDirs \cup {dir'}
        BY <2>2, Unlinks
      <4> QED BY <1>0, <2>2, <3>1, <4>1, <4>2 DEF UnlinkJournal
    <3> QED BY <2>2, <3>2 DEF UnlinkJournal
  <2> QED BY <1>4, <2>1, <2>2 DEF Publication
<1>5. CASE Returning
  <2>1. CASE ResumeAppend
    <3>1. active = {} /\ Cardinality({}) = 0
      BY <2>1, FS_EmptySet DEF ResumeAppend, Unlinked, PublicationCovers
    <3>2. \A e \in crashDirs' : e \in crashDirs
      BY <2>1, Syncs DEF ResumeAppend, Unlinked
    <3> QED BY <1>0, <2>1, <3>1, <3>2, StoreAssumption DEF ResumeAppend, Unlinked
  <2> QED BY <1>5, <2>1 DEF Returning, FinishRecovery, ReturnSealed, ReturnFlushed
<1>6. CASE Journalling
  <2>1. CASE BeginAppend
    <3>1. \A d \in crashDirs' : d.journal.born < attempt'
      BY <1>0, <2>1 DEF BeginAppend
    <3>2. pc' = "journal" => Cardinality(active') < MaxBlocks
      <4>1. Cardinality({}) = 0 /\ Cardinality(active) \in Nat
        BY FS_EmptySet, FS_CardinalityType DEF Finite
      <4> QED BY <2>1, <4>1, StoreAssumption DEF BeginAppend, NoRoomFor
    <3>3. task' = "append" /\ pc' \in {"publish", "journal"}
      BY <2>1 DEF BeginAppend
    <3> QED BY <3>1, <3>2, <3>3
  <2>2. CASE RefuseAppend \/ AppendError
    BY <2>2 DEF RefuseAppend, AppendError
  <2>3. CASE WriteJournal
    <3>0. /\ dir' = [dir EXCEPT !.journal = WriteRecord(OpenJournal, Incoming, JournalGrowth)]
          /\ crashDirs' = crashDirs \cup {dir'} \cup {TornJournal(n) : n \in 0..(JournalGrowth - 1)}
      BY <2>3 DEF WriteJournal
    <3>1. /\ dir'.journal.recs = active \cup {Incoming}
          /\ dir'.journal.torn = FALSE
          /\ dir'.journal.born = (IF JournalExists(dir) THEN dir.journal.born ELSE attempt)
          /\ JournalExists(dir')
          /\ \A n \in 0..(JournalGrowth - 1) : TornJournal(n).journal.born = dir'.journal.born
      BY <2>3, <3>0, JournalWrite DEF WriteJournal
    <3>2. /\ pc = "journal" /\ pc' = "journalSync" /\ task' = task /\ req'.created = ~JournalExists(dir)
          /\ active' = active /\ nextId' = nextId /\ catalog' = catalog /\ batch' = batch
          /\ attempt' = attempt
      BY <2>3 DEF WriteJournal, TypeOK
    <3>3. \A d \in crashDirs : d = dir \/ d.journal.born # dir'.journal.born
      BY <1>0, <3>1, <3>2 DEF JournalIsActive
    <3>4. [dir EXCEPT !.journal = dir'.journal] = dir'
      BY <1>0, <3>0 DEF Directory
    <3>5. [dir' EXCEPT !.journal = dir'.journal] = dir'
      BY <1>0, <3>0 DEF Directory
    <3>6. \A n \in 0..(JournalGrowth - 1) : [TornJournal(n) EXCEPT !.journal = dir'.journal] = dir'
      BY <1>0, <3>0 DEF Directory, TornJournal
    <3>7. \A d \in crashDirs' : d.journal.born = dir'.journal.born =>
                                  [d EXCEPT !.journal = dir'.journal] = dir'
      BY <3>0, <3>3, <3>4, <3>5, <3>6
    <3>8. ~req'.created => \A d \in crashDirs' : d.journal.born = dir'.journal.born
      BY <3>0, <3>1, <3>2 DEF JournalIsActive
    <3>9. Incoming' = Incoming
      BY <3>2 DEF Incoming
    <3>10. /\ Ids(active') = NextBlock(catalog')..(nextId' - 1)
           /\ nextId' = NextBlock(catalog') + Cardinality(active')
           /\ batch' = {}
      BY <3>2 DEF JournalIsActive
    <3>11. task' = "append" /\ JournalExists(dir)'
      BY <3>1, <3>2 DEF JournalExists
    <3> QED BY <3>1, <3>2, <3>7, <3>8, <3>9, <3>10, <3>11
  <2>4. CASE SyncJournal \/ SyncJournalDir
    BY <2>4 DEF SyncJournal, SyncJournalDir, AcceptBlock
  <2>5. CASE SyncNewJournal
    <3>1. JournalExists(dir)' = JournalExists(dir) /\ Incoming' = Incoming
      BY <2>5 DEF SyncNewJournal, JournalExists, Incoming
    <3>2. \A d \in crashDirs' : d.journal.born = dir.journal.born => d = dir
      BY <2>5 DEF SyncNewJournal, SyncJournalFile
    <3> QED BY <2>5, <3>1, <3>2 DEF SyncNewJournal
  <2> QED BY <1>6, <2>1, <2>2, <2>3, <2>4, <2>5 DEF Journalling
<1>7. CASE Flush
  BY <1>7 DEF Flush
<1> QED BY <1>1, <1>2, <1>3, <1>4, <1>5, <1>6, <1>7 DEF Working

\* A working step keeps the journal of every directory that names it within the present one.
LEMMA InPlaceStep ==
  ASSUME IInv, Working
  PROVE  InPlace'
<1>0. /\ dir \in crashDirs /\ dir \in Directory /\ attempt \in Nat
      /\ \A d \in crashDirs : d \in Directory
  BY DEF IInv, TypeOK, CrashSafe
<1>1. CASE Changing
  <2>1. /\ dir' \in Directory /\ dir' \in crashDirs' /\ dir'.journal = dir.journal
        /\ \A e \in crashDirs' : e \in crashDirs \/ \E m \in crashDirs : Kin(m, e)
        /\ Change(dir')
    BY <1>1, Changes
  <2>2. crashDirs' = crashDirs \cup {dir'} \cup Written(dir')
    BY <2>1 DEF Change
  <2>3. ASSUME NEW e \in crashDirs'
        PROVE  \E c \in crashDirs : e.journal = c.journal
    BY <2>1, <2>3 DEF Kin
  <2>4. ASSUME NEW e \in crashDirs', e.journal.born = dir'.journal.born
        PROVE  /\ [dir' EXCEPT !.journal = e.journal] \in crashDirs'
               /\ e.journal.recs \subseteq dir'.journal.recs
               /\ e.journal.bytes <= dir'.journal.bytes
    <3>1. PICK c \in crashDirs : e.journal = c.journal
      BY <2>3
    <3>2. c.journal.born = dir'.journal.born /\ c.journal.born = dir.journal.born
      BY <2>1, <2>4, <3>1
    <3>3. [dir' EXCEPT !.journal = c.journal] \in Written(dir')
      BY <3>2 DEF Written
    <3>4. c.journal.recs \subseteq dir.journal.recs /\ c.journal.bytes <= dir.journal.bytes
      BY <3>2 DEF IInv, InPlace
    <3> QED BY <2>1, <2>2, <3>1, <3>3, <3>4
  <2> QED BY <2>4 DEF InPlace
<1>2. CASE SyncDirectory
  <2>1. /\ dir' = dir /\ crashDirs' \subseteq crashDirs
        /\ \A e \in crashDirs' : e = [dir EXCEPT !.journal = e.journal]
    BY <1>2, Syncs
  <2> QED BY <2>1 DEF IInv, InPlace
<1>3. CASE dir' = dir /\ crashDirs' = crashDirs
  BY <1>3 DEF IInv, InPlace
<1>4. CASE UnlinkJournal
  <2>1. /\ crashDirs' = crashDirs \cup {dir'} /\ dir' \in Directory /\ dir'.journal = NoJournal
    BY <1>4, Unlinks
  <2>2. ASSUME NEW e \in crashDirs', e.journal.born = dir'.journal.born
        PROVE  /\ [dir' EXCEPT !.journal = e.journal] \in crashDirs'
               /\ e.journal.recs \subseteq dir'.journal.recs
               /\ e.journal.bytes <= dir'.journal.bytes
    <3>1. e.journal = NoJournal
      <4>1. e.journal.born = 0
        BY <2>1, <2>2 DEF NoJournal
      <4> QED BY <2>1, <4>1 DEF IInv, CrashSafe, Safe, JournalExists
    <3>2. [dir' EXCEPT !.journal = dir'.journal] = dir'
      BY <2>1 DEF Directory
    <3>3. NoJournal.bytes <= NoJournal.bytes
      BY DEF NoJournal
    <3> QED BY <2>1, <3>1, <3>2, <3>3
  <2> QED BY <2>2 DEF InPlace
<1>5. CASE WriteJournal
  <2>1. /\ pc = "journal" /\ dir' \in Directory /\ JournalGrowth \in Nat
        /\ dir' = [dir EXCEPT !.journal = WriteRecord(OpenJournal, Incoming, JournalGrowth)]
        /\ crashDirs' = crashDirs \cup {dir'} \cup {TornJournal(n) : n \in 0..(JournalGrowth - 1)}
    BY <1>5, DirectoryStep, JournalTypes DEF WriteJournal, Move, IInv
  <2>2. /\ dir'.journal.recs = active \cup {Incoming}
        /\ dir'.journal.born = (IF JournalExists(dir) THEN dir.journal.born ELSE attempt)
        /\ \A n \in 0..(JournalGrowth - 1) : TornJournal(n).journal.recs = active
    BY <2>1, JournalWrite
  <2>3. OpenJournal \in [born : Nat, recs : SUBSET Rec, torn : BOOLEAN, bytes : Nat]
          /\ OpenJournal.bytes = dir.journal.bytes
    BY JournalTypes DEF OpenJournal, IInv, CrashSafe, Safe, NoJournal
  <2>4. /\ dir'.journal.bytes = dir.journal.bytes + JournalGrowth
        /\ \A n \in 0..(JournalGrowth - 1) : TornJournal(n).journal.bytes = dir.journal.bytes + n
    BY <1>0, <2>1, <2>3 DEF WriteRecord, TornJournal, TearRecord, Directory
  <2>5. ASSUME NEW e \in crashDirs', e.journal.born = dir'.journal.born
        PROVE  \/ e = dir \/ e = dir' \/ \E n \in 0..(JournalGrowth - 1) : e = TornJournal(n)
    <3>1. CASE e \in crashDirs
      <4>1. e.journal.born < attempt /\ e.journal.born \in Nat
        BY <1>0, <2>1, <3>1 DEF IInv, Appending, Directory
      <4>2. JournalExists(dir)
        BY <1>0, <2>2, <2>5, <4>1
      <4> QED BY <2>1, <3>1, <4>2 DEF IInv, JournalIsActive
    <3> QED BY <2>1, <3>1
  <2>6. dir.journal.recs = active /\ dir.journal.bytes \in Nat
    BY <1>0, <2>1 DEF IInv, JournalIsActive, Directory
  <2>7. ASSUME NEW e \in crashDirs', e.journal.born = dir'.journal.born
        PROVE  /\ [dir' EXCEPT !.journal = e.journal] = e
               /\ e.journal.recs \subseteq dir'.journal.recs
               /\ e.journal.bytes <= dir'.journal.bytes
    <3>1. CASE e = dir
      <4>1. [dir' EXCEPT !.journal = dir.journal] = dir
        BY <1>0, <2>1 DEF Directory
      <4> QED BY <2>1, <2>2, <2>4, <2>6, <3>1, <4>1
    <3>2. CASE e = dir'
      <4>1. [dir' EXCEPT !.journal = dir'.journal] = dir'
        BY <2>1 DEF Directory
      <4>2. dir'.journal.bytes \in Nat
        BY <2>1 DEF Directory
      <4> QED BY <3>2, <4>1, <4>2
    <3>3. CASE \E n \in 0..(JournalGrowth - 1) : e = TornJournal(n)
      <4>1. PICK n \in 0..(JournalGrowth - 1) : e = TornJournal(n)
        BY <3>3
      <4>2. [dir' EXCEPT !.journal = e.journal] = e
        BY <1>0, <2>1, <4>1 DEF TornJournal, Directory
      <4> QED BY <2>1, <2>2, <2>4, <2>6, <4>1, <4>2
    <3> QED BY <2>5, <2>7, <3>1, <3>2, <3>3
  <2> QED BY <2>7 DEF InPlace
<1>6. CASE SyncJournal \/ SyncNewJournal
  <2>1. dir' = dir /\ \A e \in crashDirs' : e.journal.born = dir.journal.born => e = dir
    <3>1. pc = "journalSync" /\ dir' = dir /\ SyncJournalFile
      BY <1>6 DEF SyncJournal, SyncNewJournal, Move
    <3>2. ASSUME NEW e \in crashDirs', e.journal.born = dir.journal.born PROVE e = dir
      <4>1. PICK c \in crashDirs : e = IF c.journal.born = dir.journal.born
                                     THEN [c EXCEPT !.journal = dir.journal] ELSE c
        BY <3>1, <3>2 DEF SyncJournalFile
      <4> QED BY <3>1, <3>2, <4>1 DEF IInv, Appending
    <3> QED BY <3>1, <3>2
  <2>2. dir \in crashDirs' /\ [dir EXCEPT !.journal = dir.journal] = dir /\ dir.journal.bytes \in Nat
    BY <1>0, <1>6 DEF SyncJournal, SyncNewJournal, SyncJournalFile, Directory
  <2> QED BY <2>1, <2>2 DEF InPlace
<1> QED BY <1>1, <1>2, <1>3, <1>4, <1>5, <1>6, DirectoryCases

\* A working step unlinks a journal only after its blocks are in frames.
LEMMA PublicationCoversStep ==
  ASSUME IInv, Working
  PROVE  PublicationCovers'
<1> USE DEF IInv, PublicationCovers, Publishing, Retiring, Move, Same, storage, client, Change,
            SyncDirectory
<1>0. dir \in Directory /\ nextId \in Nat
  BY DEF TypeOK
<1>1. CASE Opening
  <2>1. CASE LoadCatalog
    <3>1. task = "open" /\ active = {}
      BY <2>1 DEF LoadCatalog, BeforeLoad
    <3> QED BY <2>1, <3>1 DEF LoadCatalog
  <2> QED BY <1>1, <2>1 DEF Opening, AcquireLock, RemoveTemps, WriteMetadata, RenameMetadata,
                            SyncMetadata
<1>2. CASE Listing
  <2>1. dir'.journal = dir.journal
    BY <1>0, <1>2 DEF Listing, ManifestCurrent, WriteManifest, RenameManifest, SyncManifest,
                      Directory
  <2> QED
    BY <1>2, <2>1
    DEF Listing, ManifestCurrent, WriteManifest, RenameManifest, SyncManifest, AfterManifest
<1>3. CASE Recovering
  <2>1. CASE NothingToRecover
    BY <2>1 DEF NothingToRecover
  <2>2. CASE DiscardJournal \/ RecoverPending
    <3>1. active = {} /\ dir' = dir /\ catalog' = catalog /\ active' = active /\ task' = "recover"
      BY <2>2 DEF DiscardJournal, RecoverPending, BeforeLoad
    <3>2. dir.journal.recs \subseteq (UNION catalog) \cup Pending(dir.journal, NextBlock(catalog))
      BY <2>2, RecoveryCovers DEF DiscardJournal, RecoverPending
    <3>3. CASE DiscardJournal
      BY <3>1, <3>2, <3>3 DEF DiscardJournal
    <3>4. CASE RecoverPending
      BY <3>1, <3>2, <3>4 DEF RecoverPending
    <3> QED BY <2>2, <3>3, <3>4
  <2> QED BY <1>3, <2>1, <2>2 DEF Recovering
<1>4. CASE Publication
  <2>1. CASE WriteFrame \/ RenameFrame
    <3>1. dir'.journal = dir.journal
      BY <1>0, <2>1 DEF WriteFrame, RenameFrame, Directory
    <3> QED BY <2>1, <3>1 DEF WriteFrame, RenameFrame
  <2>2. CASE SyncFrame
    <3>1. NextBlock(catalog \cup {batch}) = NextBlock(catalog) + Cardinality(batch)
      BY <2>2, ExtendSequence DEF SyncFrame, CatalogTrue, Finite
    <3>2. UNION (catalog \cup {batch}) = (UNION catalog) \cup batch
      OBVIOUS
    <3> QED BY <2>2, <3>1, <3>2 DEF SyncFrame
  <2>3. CASE UnlinkJournal
    <3>1. dir'.journal = NoJournal /\ NoJournal.recs = {}
      BY <1>0, <2>3 DEF UnlinkJournal, Directory, NoJournal
    <3> QED BY <2>3, <3>1 DEF UnlinkJournal
  <2> QED BY <1>4, <2>1, <2>2, <2>3 DEF Publication
<1>5. CASE Returning
  BY <1>5 DEF Returning, FinishRecovery, ResumeAppend, ReturnSealed, ReturnFlushed, Unlinked
<1>6. CASE BeginAppend \/ Flush
  <2>1. CASE pc' = "publish"
    <3>1. dir' = dir /\ catalog' = catalog /\ nextId' = nextId /\ active' = {} /\ batch' = active
      BY <1>6, <2>1 DEF BeginAppend, Flush, TakeActive
    <3>2. /\ dir.journal.recs = active
          /\ Ids(active) = NextBlock(catalog)..(nextId - 1)
          /\ nextId = NextBlock(catalog) + Cardinality(active)
      BY <1>6 DEF BeginAppend, Flush, JournalIsActive
    <3> QED BY <2>1, <3>1, <3>2
  <2>2. CASE pc' # "publish"
    BY <1>6, <2>2 DEF BeginAppend, Flush
  <2> QED BY <2>1, <2>2
<1>7. CASE SyncJournal \/ SyncJournalDir
  <2>1. CASE pc' = "publish"
    <3>1. /\ dir' = dir /\ catalog' = catalog /\ nextId' = nextId + 1 /\ active' = {}
          /\ batch' = active \cup {Incoming}
      BY <1>7, <2>1 DEF SyncJournal, SyncJournalDir, AcceptBlock
    <3>2. dir.journal.recs = active \cup {Incoming}
      BY <1>7 DEF SyncJournal, SyncJournalDir, Appending
    <3>3. /\ Ids(active \cup {Incoming}) = NextBlock(catalog)..nextId
          /\ nextId + 1 = NextBlock(catalog) + Cardinality(active \cup {Incoming})
      BY <1>7, ActiveGrows DEF SyncJournal, SyncJournalDir
    <3>4. (nextId + 1) - 1 = nextId
      BY <1>0
    <3> QED BY <2>1, <3>1, <3>2, <3>3, <3>4
  <2>2. CASE pc' # "publish"
    BY <1>7, <2>2 DEF SyncJournal, SyncJournalDir, AcceptBlock
  <2> QED BY <2>1, <2>2
<1>8. CASE RefuseAppend \/ AppendError \/ WriteJournal \/ SyncNewJournal
  BY <1>8 DEF RefuseAppend, AppendError, WriteJournal, SyncNewJournal
<1> QED BY <1>1, <1>2, <1>3, <1>4, <1>5, <1>6, <1>7, <1>8 DEF Working, Journalling

\* A working step keeps the invariant.
LEMMA WorkingStep ==
  ASSUME IInv, Working
  PROVE  IInv'
BY TypeStep, FiniteStep, CrashSafeStep, BeforeLoadStep, CatalogStep, JournalIsActiveStep,
   AppendingStep, InPlaceStep, SealingStep, PublicationCoversStep, AccountStep, WithinLimitStep
DEF IInv

-----------------------------------------------------------------------------
(* An operation that gives up, at whatever point, leaves a safe directory  *)
(* and no memory that is used again.                                       *)

\* An operation that fails, is dropped, killed or loses power keeps the invariant.
LEMMA GivingUpStep ==
  ASSUME IInv, GivingUp
  PROVE  IInv'
<1> USE DEF IInv, GivingUp
<1>3. InPlace'
  <2>1. CASE dir' = dir /\ crashDirs' = crashDirs
    BY <2>1 DEF InPlace
  <2>2. CASE crashDirs' = {dir'}
    <3>1. dir' \in Directory
      BY <2>2 DEF TypeOK
    <3>2. [dir' EXCEPT !.journal = dir'.journal] = dir' /\ dir'.journal.bytes \in Nat
      BY <3>1 DEF Directory
    <3> QED BY <2>2, <3>2 DEF InPlace
  <2> QED BY <2>1, <2>2
<1>1. CASE Release
  <2>1. TypeOK'
    BY <1>1 DEF TypeOK, Release, NoReq, Labels, Tasks
  <2>2. Finite'
    BY <1>1, FS_EmptySet DEF Finite, Release
  <2>3. CrashSafe'
    <3>1. Promised' \subseteq Promised
      BY <1>1 DEF Promised, Release
    <3> QED BY <3>1, <2>1, StaysSafe DEF TypeOK
  <2>4. WithinLimit'
    BY DEF WithinLimit
  <2> QED
    BY <1>1, <1>3, <2>1, <2>2, <2>3, <2>4
    DEF IInv, Release, BeforeLoad, CatalogTrue, JournalIsActive, Appending, Sealing,
        PublicationCovers, Account, Unloaded, Publishing, Retiring
<1>2. CASE /\ pc' = "poisoned"
            /\ UNCHANGED <<task, catalog, active, activeBytes, usage, nextId, batch, req>>
  <2>1. TypeOK'
    BY <1>2 DEF TypeOK, Labels
  <2>2. Finite'
    BY <1>2 DEF Finite
  <2>3. CrashSafe'
    <3>1. Promised' = Promised
      BY <1>2 DEF Promised
    <3> QED BY <3>1, <2>1, StaysSafe DEF TypeOK
  <2>4. WithinLimit'
    BY DEF WithinLimit
  <2>5. BeforeLoad'
    BY <1>2 DEF BeforeLoad, Publishing
  <2> QED
    BY <1>2, <1>3, <2>1, <2>2, <2>3, <2>4, <2>5
    DEF CatalogTrue, JournalIsActive, Appending, Sealing, PublicationCovers, Account,
        Unloaded, Publishing, Retiring
<1> QED BY <1>1, <1>2

\* A journal write that stops half way keeps the invariant.
LEMMA JournalErrorStep ==
  ASSUME IInv, JournalError
  PROVE  IInv'
<1> USE DEF IInv
<1>1. PICK n \in 0..(JournalGrowth - 1) : dir' = TornJournal(n) /\ crashDirs' = crashDirs \cup {dir'}
  BY Tears
<1>2. /\ pc = "journal" /\ task = "append" /\ pc' = "poisoned"
      /\ UNCHANGED <<task, catalog, active, activeBytes, usage, nextId, batch, req>>
      /\ UNCHANGED <<attempt, acked>> /\ faults' = faults + 1 /\ MayJournal
  BY DEF JournalError, Fail, Fault, Appending
<1>3. dir' \in Directory /\ TypeOK'
  <2>1. dir' \in Directory
    BY <1>1, JournalTypes
  <2> QED BY <1>1, <1>2, <2>1 DEF TypeOK, Labels
<1>4. Safe(dir', Promised, attempt) /\ dir'.journal.recs = active
  BY <1>1, <1>2, JournalWrite
<1>5. Promised' = Promised
  BY <1>2 DEF Promised
<1>6. CrashSafe'
  BY <1>1, <1>2, <1>4, <1>5 DEF CrashSafe
<1>7. Finite'
  <2>1. dir'.frames = dir.frames
    BY <1>1 DEF TornJournal, TypeOK, Directory
  <2> QED BY <1>1, <1>2, <1>4, <2>1 DEF Finite, CrashSafe
<1>8. WithinLimit'
  <2>1. JournalGrowth \in Nat /\ usage \in Nat /\ MaxBytes \in Nat
    BY JournalTypes, StoreAssumption DEF TypeOK
  <2>2. usage = DirectoryBytes(dir) /\ usage + JournalGrowth <= MaxBytes
    BY <1>2, <2>1 DEF Account, MayJournal, Fits
  <2>3. DirectoryBytes(dir') = DirectoryBytes(dir) + n
    BY <1>1, JournalBytes
  <2>4. DirectoryBytes(dir') <= MaxBytes
    BY <2>1, <2>2, <2>3
  <2> QED BY <1>1, <2>4 DEF WithinLimit
<1>9. BeforeLoad'
  BY <1>2 DEF BeforeLoad, Publishing
<1>10. InPlace'
  <2>1. /\ dir \in Directory /\ dir \in crashDirs /\ attempt \in Nat
        /\ \A d \in crashDirs : d.journal.born < attempt /\ d.journal.born \in Nat
    BY <1>2 DEF CrashSafe, Appending, TypeOK, Directory
  <2>2. OpenJournal \in [born : Nat, recs : SUBSET Rec, torn : BOOLEAN, bytes : Nat]
          /\ OpenJournal.bytes = dir.journal.bytes
    BY JournalTypes DEF OpenJournal, CrashSafe, Safe, NoJournal
  <2>3. dir'.journal.bytes = dir.journal.bytes + n /\ n \in Nat /\ dir.journal.bytes \in Nat
    <3>1. n \in Nat /\ dir.journal.bytes \in Nat
      BY <2>1, JournalTypes DEF Directory
    <3>2. dir'.journal = TearRecord(OpenJournal, n)
      BY <1>1, <2>1 DEF TornJournal, Directory
    <3> QED BY <2>2, <3>1, <3>2 DEF TearRecord
  <2>4. dir'.journal.born = (IF JournalExists(dir) THEN dir.journal.born ELSE attempt)
    BY <1>1, <1>2, JournalWrite
  <2>5. ASSUME NEW e \in crashDirs', e.journal.born = dir'.journal.born
        PROVE  e = dir \/ e = dir'
    <3>1. CASE e \in crashDirs
      <4>1. JournalExists(dir)
        BY <2>1, <2>4, <2>5, <3>1
      <4> QED BY <1>2, <3>1, <4>1 DEF JournalIsActive
    <3> QED BY <1>1, <3>1
  <2>6. [dir' EXCEPT !.journal = dir.journal] = dir /\ [dir' EXCEPT !.journal = dir'.journal] = dir'
    BY <1>1, <1>3, <2>1 DEF TornJournal, Directory
  <2>7. dir.journal.recs = active
    BY <1>2 DEF JournalIsActive
  <2> QED BY <1>1, <1>4, <2>1, <2>3, <2>5, <2>6, <2>7 DEF InPlace
<1> QED
  BY <1>2, <1>3, <1>6, <1>7, <1>8, <1>9, <1>10
  DEF CatalogTrue, JournalIsActive, Appending, Sealing, PublicationCovers, Account,
      Unloaded, Publishing, Retiring

\* A step of somebody else keeps the invariant.
LEMMA StutterStep ==
  ASSUME IInv, UNCHANGED vars
  PROVE  IInv'
<1>1. /\ dir' = dir /\ crashDirs' = crashDirs /\ pc' = pc /\ task' = task
      /\ catalog' = catalog /\ active' = active /\ activeBytes' = activeBytes
      /\ usage' = usage /\ nextId' = nextId /\ batch' = batch /\ req' = req
      /\ attempt' = attempt /\ acked' = acked /\ faults' = faults
  BY DEF vars, storage, writer, client
<1>2. TypeOK' /\ Finite' /\ CrashSafe' /\ InPlace' /\ WithinLimit'
  BY <1>1 DEF IInv, TypeOK, Finite, CrashSafe, Promised, InPlace, WithinLimit
<1>3. BeforeLoad' /\ CatalogTrue' /\ JournalIsActive' /\ Account'
  BY <1>1 DEF IInv, BeforeLoad, CatalogTrue, JournalIsActive, JournalExists, Account
<1>4. Appending' /\ Sealing' /\ PublicationCovers'
  BY <1>1 DEF IInv, Appending, Incoming, JournalExists, Sealing, PublicationCovers
<1> QED BY <1>2, <1>3, <1>4 DEF IInv

-----------------------------------------------------------------------------
(* The theorems.                                                           *)

\* IInv is inductive: it holds whenever and wherever the archive is opened,
\* written, killed or loses power.
THEOREM Invariance == Spec => []IInv
<1>1. Init => IInv
  BY InitInv
<1>2. IInv /\ [Next]_vars => IInv'
  BY NextCases, WorkingStep, GivingUpStep, JournalErrorStep, StutterStep
<1> QED BY <1>1, <1>2, PTL DEF Spec

\* The archive's state keeps its types: no counter goes below zero.
THEOREM TypeCorrect == Spec => []TypeOK
<1>1. IInv => TypeOK
  BY DEF IInv
<1> QED BY <1>1, Invariance, PTL

\* ArchiveWriter::append is durable: whatever a power loss leaves, a reopen
\* finds every block whose append returned Ok and every block that waits for its
\* frame.
THEOREM Durability == Spec => []AckedSurvives
<1>1. IInv => AckedSurvives
  <2> SUFFICES ASSUME IInv, NEW d \in crashDirs PROVE Promised \subseteq Recoverable(d)
    BY DEF AckedSurvives
  <2>1. d \in Directory /\ Safe(d, Promised, attempt)
    BY DEF IInv, TypeOK, CrashSafe
  <2> QED BY <2>1, SafeRecovers
<1> QED BY <1>1, Invariance, PTL

\* usage_bytes, kept by additions and subtractions, is what directory_bytes
\* would measure wherever a capacity check reads it.
THEOREM AccountIsExact == Spec => []UsageExact
<1>1. IInv => UsageExact
  <2> SUFFICES ASSUME IInv PROVE UsageExact
    OBVIOUS
  <2>1. usage \in Nat
    BY DEF IInv, TypeOK
  <2> QED BY <2>1 DEF IInv, Account, UsageExact
<1> QED BY <1>1, Invariance, PTL

\* The archive's files never exceed max_bytes.
THEOREM CapacityHolds == Spec => []WithinLimit
<1>1. IInv => WithinLimit
  BY DEF IInv
<1> QED BY <1>1, Invariance, PTL

-----------------------------------------------------------------------------
(* Two results that rest on this invariant.                                *)
(*                                                                         *)
(* An archive can always be opened again, and a publication that has       *)
(* passed its checks is not refused half way.  This takes two more facts   *)
(* about every directory a power loss may leave: the journal is a run of   *)
(* consecutive ids, and the room its blocks need as a frame was there when *)
(* the first was written.                                                  *)
(*                                                                         *)
(* The archive implements DurableLog: every step of ArchiveWriter, and     *)
(* every fault, is a step of the log or leaves it as it is.                *)

-----------------------------------------------------------------------------
(* What makes a directory one that open does not refuse.                   *)

\* One block per id, and no id between two is missing.
Consecutive(S) ==
  /\ \A r, q \in S : r.id = q.id => r = q
  /\ S # {} => \E lo, hi \in Nat : Ids(S) = lo..hi

\* The journal holds a block that no frame does.
Ahead(d) == \E r \in d.journal.recs : r.id >= NextBlock(d.frames)

\* The frames F and their manifest leave room for one more.
RoomForOne(F) ==
  /\ Cardinality(F) < MaxFrames
  /\ ManifestSize(Cardinality(F) + 1) <= MaxManifest

\* A directory that open does not refuse, but for the facts Safe has.
Openable(d) ==
  /\ d.meta \/ ~HasContent(d)
  /\ d.manifest.listed \subseteq d.frames
  /\ Cardinality(d.frames) <= MaxFrames
  /\ \A f, g \in d.frames : f # g => Ids(f) \cap Ids(g) = {}
  /\ Consecutive(d.journal.recs)
  /\ Ahead(d) => RoomForOne(d.frames)

AllOpenable == \A d \in crashDirs : Openable(d)

\* The metadata is there before anything else is.
MetadataFirst == pc \notin Unloaded \cup {"poisoned"} => dir.meta

\* The active frame and the batch made from it are no larger than a frame.
BatchFits ==
  /\ pc \in {"ready", "journal", "journalSync", "journalSyncDir"} => Cardinality(active) < MaxBlocks
  /\ pc = "publish" => batch # {} /\ Continues(batch, catalog)

\* What preflight_publication reserves is there until the manifest is written.
RoomKept ==
  LET next == EncodeManifest(catalog \cup {batch})
  IN  /\ pc \in {"frameRename", "frameSync"} =>
           /\ Cardinality(catalog \cup {batch}) <= MaxFrames
           /\ next.bytes <= MaxManifest
           /\ Fits(usage + dir.temp, next.bytes)
      /\ pc \in {"manifestSync", "recover"} => dir.manifest = EncodeManifest(catalog)
      /\ pc = "manifest" /\ task # "open" =>
           dir.manifest = EncodeManifest(catalog) \/ ManifestFits(catalog)

PInv == AllOpenable /\ MetadataFirst /\ BatchFits /\ RoomKept

-----------------------------------------------------------------------------
(* What a power loss may leave can be opened.                              *)

\* What is asked of a directory does not depend on its temporary files.
LEMMA OpenableSame ==
  ASSUME NEW d, NEW e, Openable(d), e.meta \/ e.meta = d.meta, e.frames = d.frames,
         e.manifest = d.manifest, e.journal = d.journal
  PROVE  Openable(e)
BY DEF Openable, HasContent, JournalExists, Ahead

\* Without a new directory there is nothing to show.
LEMMA OpenableSubset ==
  ASSUME PInv, crashDirs' \subseteq crashDirs
  PROVE  AllOpenable'
BY DEF PInv, AllOpenable, Openable, HasContent, JournalExists, Ahead

\* With one new directory, that one is to be shown.
LEMMA OpenableChange ==
  ASSUME PInv, NEW e, Openable(e), crashDirs' \subseteq crashDirs \cup {e}
  PROVE  AllOpenable'
BY DEF PInv, AllOpenable

\* What is known of the present directory once the catalog is loaded.
LEMMA Present ==
  ASSUME IInv, PInv
  PROVE  /\ dir \in crashDirs /\ dir \in Directory /\ Openable(dir)
         /\ Sequenced(dir.frames) /\ IsFiniteSet(dir.frames)
         /\ pc \notin Unloaded \cup {"poisoned"} => dir.meta
BY DEF IInv, PInv, TypeOK, CrashSafe, Safe, Finite, AllOpenable, MetadataFirst

\* The journal write, whole or torn, leaves a directory that can be opened.
LEMMA JournalOpenable ==
  ASSUME IInv, PInv, pc = "journal", MayJournal
  PROVE  /\ Openable([dir EXCEPT !.journal =
                         WriteRecord(OpenJournal, Incoming, JournalGrowth)])
         /\ \A n \in 0..(JournalGrowth - 1) : Openable(TornJournal(n))
<1> DEFINE after == [dir EXCEPT !.journal = WriteRecord(OpenJournal, Incoming, JournalGrowth)]
<1>1. /\ dir \in Directory /\ Openable(dir) /\ dir.meta /\ catalog = dir.frames
      /\ NextBlock(dir.frames) \in Nat /\ nextId \in Nat
  BY Present DEF Unloaded, IInv, TypeOK, CatalogTrue, Sequenced
<1>2. /\ dir.journal.recs = active
      /\ Ids(active) = NextBlock(dir.frames)..(nextId - 1)
      /\ NextBlock(dir.frames) <= nextId
  <2>1. Cardinality(active) \in Nat
    BY FS_CardinalityType DEF IInv, Finite
  <2> QED BY <1>1, <2>1 DEF IInv, JournalIsActive
<1>3. RoomForOne(dir.frames)
  <2>1. CASE active = {}
    BY <1>1, <2>1 DEF MayJournal, RoomForOne
  <2>2. CASE active # {}
    <3>1. PICK r \in active : r.id \in NextBlock(dir.frames)..(nextId - 1)
      BY <1>2, <2>2 DEF Ids
    <3>2. Ahead(dir)
      BY <1>1, <1>2, <3>1 DEF Ahead
    <3> QED BY <1>1, <3>2 DEF Openable
  <2> QED BY <2>1, <2>2
<1>4. Consecutive(active)
  BY <1>1, <1>2 DEF Openable
<1>5. Consecutive(active \cup {Incoming})
  <2>1. Incoming.id = nextId
    BY DEF Incoming
  <2>2. nextId \notin Ids(active)
    BY <1>1, <1>2
  <2>3. Ids(active \cup {Incoming}) = NextBlock(dir.frames)..nextId
    <3>1. Ids(active \cup {Incoming}) = Ids(active) \cup {nextId}
      BY <2>1 DEF Ids
    <3>2. \A n, m \in Nat : n <= m => (n..(m - 1)) \cup {m} = n..m
      OBVIOUS
    <3> QED BY <1>1, <1>2, <3>1, <3>2
  <2>4. \A r, q \in active \cup {Incoming} : r.id = q.id => r = q
    BY <1>4, <2>1, <2>2 DEF Consecutive, Ids
  <2> QED BY <1>1, <2>3, <2>4 DEF Consecutive
<1>6. ASSUME NEW e \in Directory, e.meta = dir.meta, e.frames = dir.frames,
             e.manifest = dir.manifest, Consecutive(e.journal.recs)
      PROVE  Openable(e)
  BY <1>1, <1>3, <1>6 DEF Openable
<1>7. Openable(after)
  <2>1. after.journal.recs = active \cup {Incoming} /\ after.frames = dir.frames
    BY JournalWrite
  <2>2. after \in Directory /\ after.meta = dir.meta /\ after.manifest = dir.manifest
    BY <1>1, JournalTypes, DirectoryChanges DEF IInv, Directory
  <2> HIDE DEF after
  <2> QED BY <1>5, <1>6, <2>1, <2>2
<1>8. ASSUME NEW n \in 0..(JournalGrowth - 1) PROVE Openable(TornJournal(n))
  <2>1. TornJournal(n).journal.recs = active
    BY JournalWrite
  <2>2. TornJournal(n) \in Directory
    BY JournalTypes DEF IInv
  <2>3. /\ TornJournal(n).meta = dir.meta /\ TornJournal(n).frames = dir.frames
        /\ TornJournal(n).manifest = dir.manifest
    BY <1>1 DEF TornJournal, Directory
  <2> QED BY <1>4, <1>6, <2>1, <2>2, <2>3
<1> QED BY <1>7, <1>8

\* A published frame: the batch follows the frames, and nothing is left to recover.
LEMMA FrameOpenable ==
  ASSUME IInv, PInv, pc = "frameRename",
         dir'.meta = dir.meta, dir'.frames = dir.frames \cup {batch}, dir'.manifest = dir.manifest,
         NEW m, NEW e, Kin(m, e)
  PROVE  Openable(e)
<1>0. /\ m \in crashDirs /\ Openable(m) /\ e \in Directory
      /\ e.meta = dir.meta /\ e.frames = dir.frames \cup {batch} /\ e.manifest = dir.manifest
      /\ e.journal = m.journal /\ m.journal.recs \subseteq dir.journal.recs
  BY DEF Kin, PInv, AllOpenable
<1>1. /\ Openable(dir) /\ dir.meta /\ catalog = dir.frames
      /\ Sequenced(dir.frames) /\ Continues(batch, dir.frames) /\ IsFiniteSet(batch)
      /\ dir.journal.recs \subseteq (UNION dir.frames) \cup batch
  BY Present DEF Unloaded, Publishing, IInv, CatalogTrue, PublicationCovers, Finite
<1>2. Cardinality(e.frames) <= MaxFrames
  BY <1>0, <1>1 DEF PInv, RoomKept
<1>3. ASSUME NEW f \in dir.frames PROVE Ids(f) \cap Ids(batch) = {}
  <2>1. Ids(f) \subseteq Ids(UNION dir.frames)
    BY DEF Ids
  <2>2. PICK n \in Nat, c \in Nat : n = NextBlock(dir.frames) /\ c = Cardinality(batch)
    BY <1>1, FS_CardinalityType DEF Sequenced
  <2>3. Ids(UNION dir.frames) = 0..(n - 1) /\ Ids(batch) = n..(n + c - 1)
    BY <1>1, <2>2 DEF Sequenced, Continues
  <2> QED BY <2>1, <2>3
<1>4. \A f, g \in e.frames : f # g => Ids(f) \cap Ids(g) = {}
  BY <1>0, <1>1, <1>3 DEF Openable
<1>5. ~Ahead(e)
  <2>1. Sequenced(e.frames)
    BY <1>0, <1>1, ExtendSequence
  <2>2. ASSUME NEW r \in e.journal.recs PROVE r.id < NextBlock(e.frames)
    <3>1. r \in UNION e.frames
      BY <1>0, <1>1
    <3>2. r.id \in 0..(NextBlock(e.frames) - 1)
      BY <2>1, <3>1 DEF Sequenced, Ids
    <3> QED BY <2>1, <3>2 DEF Sequenced
  <2>3. \A r \in e.journal.recs : r.id \in Nat
    BY <1>0 DEF Directory, Rec
  <2>4. NextBlock(e.frames) \in Nat
    BY <2>1 DEF Sequenced
  <2>5. ASSUME NEW r \in e.journal.recs PROVE ~(r.id >= NextBlock(e.frames))
    BY <2>2, <2>3, <2>4
  <2> QED BY <2>5 DEF Ahead
<1> QED BY <1>0, <1>1, <1>2, <1>4, <1>5 DEF Openable

\* A working step leaves only directories that can be opened.
LEMMA OpenableStep ==
  ASSUME IInv, PInv, Working
  PROVE  AllOpenable'
<1>1. dir \in crashDirs /\ dir \in Directory /\ Openable(dir)
  BY Present
<1>2. ASSUME Changing, \A m, e : Kin(m, e) => Openable(e) PROVE AllOpenable'
  <2>1. \A e \in crashDirs' : e \in crashDirs \/ \E m \in crashDirs : Kin(m, e)
    BY <1>2, Changes
  <2> QED BY <1>2, <2>1 DEF PInv, AllOpenable
<1>3. CASE \/ RemoveTemps \/ WriteMetadata \/ RenameMetadata \/ WriteManifest \/ WriteFrame
  <2>1. /\ dir'.meta \/ dir'.meta = dir.meta
        /\ dir'.frames = dir.frames /\ dir'.manifest = dir.manifest
    BY <1>1, <1>3 DEF RemoveTemps, WriteMetadata, RenameMetadata, WriteManifest, WriteFrame, Change,
                      Directory
  <2>2. ASSUME NEW m, NEW e, Kin(m, e) PROVE Openable(e)
    BY <2>1, <2>2, OpenableSame DEF Kin, PInv, AllOpenable
  <2> QED BY <1>2, <1>3, <2>2 DEF Changing
<1>4. CASE RenameManifest
  <2>1. dir.meta /\ catalog = dir.frames
    BY <1>4, Present DEF RenameManifest, Move, Unloaded, IInv, CatalogTrue
  <2>2. dir'.meta = dir.meta /\ dir'.frames = dir.frames /\ dir'.manifest.listed = catalog
    BY <1>1, <1>4 DEF RenameManifest, Change, Directory, EncodeManifest
  <2>3. ASSUME NEW m, NEW e, Kin(m, e) PROVE Openable(e)
    BY <2>1, <2>2, <2>3 DEF Kin, PInv, AllOpenable, Openable, Ahead
  <2> QED BY <1>2, <1>4, <2>3 DEF Changing
<1>5. CASE RenameFrame
  <2>1. /\ pc = "frameRename" /\ dir'.meta = dir.meta /\ dir'.manifest = dir.manifest
        /\ dir'.frames = dir.frames \cup {batch}
    BY <1>1, <1>5 DEF RenameFrame, Move, Change, Directory
  <2> QED BY <1>2, <1>5, <2>1, FrameOpenable DEF Changing
<1>6. CASE UnlinkJournal
  <2>1. dir.meta
    BY <1>6, Present DEF UnlinkJournal, Move, Unloaded
  <2>2. /\ crashDirs' = crashDirs \cup {dir'} /\ dir'.frames = dir.frames /\ dir'.meta = dir.meta
        /\ dir'.manifest = dir.manifest /\ dir'.journal.recs = {}
    BY <1>6, Unlinks DEF NoJournal
  <2>3. Openable(dir')
    BY <1>1, <2>1, <2>2 DEF Openable, Ahead, Consecutive
  <2> QED BY <2>2, <2>3, OpenableChange
<1>7. CASE WriteJournal
  <2>1. ASSUME NEW e \in crashDirs' PROVE Openable(e)
    BY <1>7, JournalOpenable DEF WriteJournal, Move, PInv, AllOpenable
  <2> QED BY <2>1 DEF AllOpenable
<1>8. CASE SyncJournal \/ SyncNewJournal
  <2>1. \A d \in crashDirs' : d = dir \/ d \in crashDirs
    BY <1>8 DEF SyncJournal, SyncNewJournal, SyncJournalFile, Move, IInv, Appending
  <2>2. crashDirs' \subseteq crashDirs
    BY <1>1, <2>1
  <2> QED BY <2>2, OpenableSubset
<1>9. CASE SyncDirectory \/ crashDirs' = crashDirs
  BY <1>9, Syncs, OpenableSubset
<1> QED BY <1>3, <1>4, <1>5, <1>6, <1>7, <1>8, <1>9, DirectoryCases DEF Changing

-----------------------------------------------------------------------------
(* A publication that has begun is not refused.                            *)

\* A working step keeps the metadata.
LEMMA MetadataStep ==
  ASSUME IInv, PInv, Working
  PROVE  MetadataFirst'
<1> USE DEF PInv, MetadataFirst, Unloaded, Move, storage, Change, SyncDirectory
<1>1. dir \in Directory
  BY Present
<1>2. CASE Opening
  BY <1>1, <1>2 DEF Opening, AcquireLock, RemoveTemps, WriteMetadata, RenameMetadata,
              SyncMetadata, LoadCatalog
<1>3. CASE Listing
  BY <1>1, <1>3 DEF Listing, ManifestCurrent, WriteManifest, RenameManifest, SyncManifest,
              AfterManifest, Directory
<1>4. CASE Recovering
  BY <1>4 DEF Recovering, NothingToRecover, DiscardJournal, RecoverPending
<1>5. CASE Publication
  BY <1>1, <1>5 DEF Publication, WriteFrame, RenameFrame, SyncFrame, UnlinkJournal, Directory
<1>6. CASE Returning
  BY <1>6 DEF Returning, FinishRecovery, ResumeAppend, ReturnSealed, ReturnFlushed, Unlinked
<1>7. CASE Journalling
  BY <1>1, <1>7 DEF Journalling, BeginAppend, TakeActive, RefuseAppend, AppendError,
              WriteJournal, SyncJournal, SyncNewJournal, SyncJournalDir, AcceptBlock, Directory
<1>8. CASE Flush
  BY <1>8 DEF Flush, TakeActive
<1> QED BY <1>2, <1>3, <1>4, <1>5, <1>6, <1>7, <1>8 DEF Working

\* Among blocks with one id each there are as many blocks as ids.
LEMMA CardinalityIds ==
  ASSUME NEW S \in SUBSET Rec, IsFiniteSet(S), \A r, q \in S : r.id = q.id => r = q,
         NEW lo \in Nat, NEW hi \in Nat, Ids(S) = lo..hi
  PROVE  Ids(S) = lo..(lo + Cardinality(S) - 1)
<1> DEFINE f == [r \in S |-> r.id]
<1>1. f \in Bijection(S, lo..hi)
  <2>1. f \in [S -> lo..hi]
    BY DEF Ids
  <2>2. \A r, q \in S : f[r] = f[q] => r = q
    OBVIOUS
  <2>3. \A n \in lo..hi : \E r \in S : f[r] = n
    BY DEF Ids
  <2> QED BY <2>1, <2>2, <2>3 DEF Bijection, Injection, Surjection, IsInjective
<1>2. Cardinality(S) = Cardinality(lo..hi)
  BY <1>1, FS_Bijection DEF ExistsBijection
<1>3. Cardinality(lo..hi) = IF lo > hi THEN 0 ELSE hi - lo + 1
  BY FS_Interval
<1>4. CASE lo > hi
  BY <1>2, <1>3, <1>4
<1>5. CASE ~(lo > hi)
  BY <1>2, <1>3, <1>5
<1> QED BY <1>4, <1>5

\* What recover_journal publishes follows the frames and fits in one.
LEMMA PendingContinues ==
  ASSUME IInv, PInv, pc = "recover",
         NEW rest, rest = Pending(dir.journal, NextBlock(catalog)), rest # {}
  PROVE  Continues(rest, catalog)
<1>1. /\ dir \in Directory /\ Safe(dir, Promised, attempt) /\ Consecutive(dir.journal.recs)
      /\ catalog = dir.frames /\ IsFiniteSet(dir.journal.recs)
  BY Present DEF Unloaded, IInv, CatalogTrue, CrashSafe, Finite, Openable
<1>2. PICK n \in Nat : n = NextBlock(catalog)
  BY <1>1 DEF Safe, Sequenced
<1>3. /\ dir.journal.recs \subseteq Rec /\ ReadJournal(dir.journal) = dir.journal.recs
      /\ \A r, q \in dir.journal.recs : r.id < q.id + MaxBlocks
  BY <1>1 DEF Safe, Agrees, ReadJournal, Directory
<1>4. rest = {r \in dir.journal.recs : r.id >= n /\ n..r.id \subseteq Ids(dir.journal.recs)}
  BY <1>2, <1>3 DEF Pending
<1>5. PICK lo \in Nat, hi \in Nat : Ids(dir.journal.recs) = lo..hi
  BY <1>1, <1>4 DEF Consecutive
<1>6. n \in lo..hi
  <2>1. PICK r \in rest : r.id \in Nat /\ r.id >= n /\ n..r.id \subseteq lo..hi
    BY <1>3, <1>4, <1>5 DEF Rec
  <2> QED BY <2>1
<1>7. Ids(rest) = n..hi
  <2>1. ASSUME NEW i \in n..hi PROVE i \in Ids(rest)
    <3>1. i \in lo..hi /\ n..i \subseteq lo..hi /\ i >= n
      BY <1>6
    <3>2. PICK r \in dir.journal.recs : r.id = i
      BY <1>5, <3>1 DEF Ids
    <3> QED BY <1>4, <1>5, <3>1, <3>2 DEF Ids
  <2>2. ASSUME NEW r \in rest PROVE r.id \in n..hi
    <3>1. r.id \in lo..hi /\ r.id >= n
      BY <1>4, <1>5 DEF Ids
    <3> QED BY <3>1
  <2> QED BY <2>1, <2>2 DEF Ids
<1>8. IsFiniteSet(rest) /\ rest \in SUBSET Rec
  BY <1>1, <1>3, <1>4, FS_Subset
<1>9. Ids(rest) = n..(n + Cardinality(rest) - 1)
  <2>1. \A r, q \in rest : r.id = q.id => r = q
    BY <1>1, <1>4 DEF Consecutive
  <2>2. hi \in Nat
    BY <1>5
  <2> QED BY <1>7, <1>8, <2>1, <2>2, CardinalityIds
<1>10. Cardinality(rest) <= MaxBlocks
  <2>1. Cardinality(rest) \in Nat
    BY <1>8, FS_CardinalityType
  <2>2. PICK r \in rest : r.id = n + Cardinality(rest) - 1
    <3>1. hi \in Ids(rest)
      BY <1>6, <1>7
    <3>2. n + Cardinality(rest) - 1 \in Ids(rest)
      BY <1>6, <1>7, <1>9, <2>1
    <3> QED BY <3>2 DEF Ids
  <2>3. PICK q \in rest : q.id = n
    <3>1. n \in Ids(rest)
      BY <1>6, <1>7
    <3> QED BY <3>1 DEF Ids
  <2>4. r.id < q.id + MaxBlocks
    BY <1>3, <1>4
  <2> QED BY <2>1, <2>2, <2>3, <2>4, StoreAssumption
<1> QED BY <1>2, <1>9, <1>10 DEF Continues

\* The frame that append or the recorder seals follows the frames and is not too large.
LEMMA BatchStep ==
  ASSUME IInv, PInv, Working
  PROVE  BatchFits'
<1> USE DEF PInv, BatchFits, Move, Same
<1>1. CASE Opening
  BY <1>1 DEF Opening, AcquireLock, RemoveTemps, WriteMetadata, RenameMetadata,
              SyncMetadata, LoadCatalog
<1>2. CASE Listing
  BY <1>2 DEF Listing, ManifestCurrent, WriteManifest, RenameManifest, SyncManifest,
              AfterManifest
<1>3. CASE Recovering
  <2>1. CASE RecoverPending
    BY <2>1, PendingContinues DEF RecoverPending
  <2>2. CASE NothingToRecover
    <3>1. active = {}
      BY <2>2 DEF NothingToRecover, IInv, BeforeLoad
    <3> QED BY <2>2, <3>1, FS_EmptySet, StoreAssumption DEF NothingToRecover
  <2> QED BY <1>3, <2>1, <2>2 DEF Recovering, DiscardJournal
<1>4. CASE Publication
  BY <1>4 DEF Publication, WriteFrame, RenameFrame, SyncFrame, UnlinkJournal
<1>5. CASE Returning
  <2>1. active = {}
    BY <1>5 DEF Returning, FinishRecovery, ResumeAppend, ReturnSealed, ReturnFlushed, Unlinked,
                IInv, PublicationCovers, Retiring
  <2> QED BY <1>5, <2>1, FS_EmptySet, StoreAssumption
          DEF Returning, FinishRecovery, ResumeAppend, ReturnSealed, ReturnFlushed, Unlinked
<1>6. CASE BeginAppend \/ Flush
  <2>1. CASE pc' = "publish"
    <3>1. batch' = active /\ active # {} /\ catalog' = catalog /\ pc = "ready"
      BY <1>6, <2>1 DEF BeginAppend, NoRoomFor, Flush, TakeActive
    <3>2. /\ Ids(active) = NextBlock(catalog)..(nextId - 1)
          /\ nextId = NextBlock(catalog) + Cardinality(active)
          /\ Cardinality(active) < MaxBlocks /\ Cardinality(active) \in Nat
          /\ NextBlock(catalog) \in Nat
      BY <3>1, FS_CardinalityType, Present
      DEF IInv, JournalIsActive, Finite, CatalogTrue, Unloaded, Sequenced
    <3>3. Continues(active, catalog)
      BY <3>2, StoreAssumption DEF Continues
    <3> QED BY <2>1, <3>1, <3>3
  <2> QED BY <1>6, <2>1 DEF BeginAppend, Flush
<1>7. CASE SyncJournal \/ SyncJournalDir
  <2>1. /\ catalog' = catalog /\ pc \in {"journalSync", "journalSyncDir"}
        /\ IsFiniteSet(active) /\ IsFiniteSet(active \cup {Incoming})
    BY <1>7, FS_AddElement DEF SyncJournal, SyncJournalDir, AcceptBlock, IInv, Finite
  <2>2. /\ Ids(active \cup {Incoming}) = NextBlock(catalog)..nextId
        /\ nextId + 1 = NextBlock(catalog) + Cardinality(active \cup {Incoming})
    BY <2>1, ActiveGrows
  <2>3. Cardinality(active \cup {Incoming}) \in Nat /\ Cardinality(active \cup {Incoming}) <= MaxBlocks
    <3>1. Cardinality(active \cup {Incoming}) \in {Cardinality(active), Cardinality(active) + 1}
      BY <2>1, FS_AddElement
    <3> QED BY <2>1, <3>1, FS_CardinalityType, StoreAssumption
  <2>4. CASE pc' = "publish"
    <3>1. batch' = active \cup {Incoming}
      BY <1>7, <2>4 DEF SyncJournal, SyncJournalDir, AcceptBlock
    <3>2. nextId = NextBlock(catalog) + Cardinality(active \cup {Incoming}) - 1
      <4>1. nextId \in Nat /\ NextBlock(catalog) \in Nat
        BY <2>1, Present DEF IInv, TypeOK, CatalogTrue, Unloaded, Sequenced
      <4> QED BY <2>2, <2>3, <4>1
    <3>3. Continues(active \cup {Incoming}, catalog)
      BY <2>2, <2>3, <3>2 DEF Continues
    <3> QED BY <2>1, <2>4, <3>1, <3>3
  <2>5. CASE pc' # "publish"
    <3>1. active' = active \cup {Incoming} /\ ~(Cardinality(active \cup {Incoming}) >= MaxBlocks)
      BY <1>7, <2>5 DEF SyncJournal, SyncJournalDir, AcceptBlock, Full
    <3> QED BY <2>3, <2>5, <3>1, StoreAssumption
  <2> QED BY <2>4, <2>5
<1>8. CASE RefuseAppend \/ AppendError \/ WriteJournal \/ SyncNewJournal
  BY <1>8 DEF RefuseAppend, AppendError, WriteJournal, SyncNewJournal
<1> QED BY <1>1, <1>2, <1>3, <1>4, <1>5, <1>6, <1>7, <1>8 DEF Working, Journalling

\* A working step keeps the room for a manifest that is under way.
LEMMA RoomStep ==
  ASSUME IInv, PInv, Working
  PROVE  RoomKept'
<1> USE DEF PInv, RoomKept, Move, Same, storage, Change, SyncDirectory
<1>1. dir \in Directory /\ usage \in Nat
  BY Present DEF IInv, TypeOK
<1>2. CASE Opening
  BY <1>2 DEF Opening, AcquireLock, RemoveTemps, WriteMetadata, RenameMetadata,
              SyncMetadata, LoadCatalog, IInv, BeforeLoad
<1>3. CASE Listing
  <2>1. CASE ManifestCurrent
    BY <2>1 DEF ManifestCurrent, AfterManifest
  <2>2. CASE WriteManifest
    BY <2>2 DEF WriteManifest
  <2>3. CASE RenameManifest
    <3>1. dir'.manifest = EncodeManifest(catalog)
      BY <1>1, <2>3 DEF RenameManifest, Directory
    <3> QED BY <2>3, <3>1 DEF RenameManifest
  <2>4. CASE SyncManifest
    BY <2>4 DEF SyncManifest, AfterManifest
  <2> QED BY <1>3, <2>1, <2>2, <2>3, <2>4 DEF Listing
<1>4. CASE Recovering
  BY <1>4 DEF Recovering, NothingToRecover, DiscardJournal, RecoverPending
<1>5. CASE Publication
  <2>1. CASE WriteFrame
    <3>1. PICK bytes \in FrameSizes : CanPublish(bytes) /\ dir' = [dir EXCEPT !.temp = bytes]
      BY <2>1 DEF WriteFrame
    <3>2. dir'.temp = bytes
      BY <1>1, <3>1 DEF Directory
    <3>3. EncodeManifest(catalog \cup {batch}).bytes \in Nat
      BY FS_AddElement, EncodeManifestType DEF IInv, Finite, TypeOK
    <3>4. Fits(usage + bytes, EncodeManifest(catalog \cup {batch}).bytes)
      BY <1>1, <3>1, <3>3, StoreAssumption DEF CanPublish, Fits
    <3> QED BY <2>1, <3>1, <3>2, <3>4 DEF WriteFrame, CanPublish
  <2>2. CASE RenameFrame
    <3>1. dir'.temp = 0 /\ dir.temp \in Nat /\ usage' = usage + dir.temp
      BY <1>1, <2>2 DEF RenameFrame, Directory
    <3>2. usage' + dir'.temp = usage + dir.temp
      BY <1>1, <3>1
    <3> QED BY <2>2, <3>2 DEF RenameFrame
  <2>3. CASE SyncFrame
    <3>1. dir.temp = 0
      BY <2>3 DEF SyncFrame, IInv, Account
    <3>2. usage + dir.temp = usage
      BY <1>1, <3>1
    <3>3. catalog' = catalog \cup {batch} /\ usage' = usage /\ pc' = "manifest"
      BY <2>3 DEF SyncFrame
    <3>4. ManifestFits(catalog)'
      BY <2>3, <3>2, <3>3 DEF SyncFrame, ManifestFits
    <3> QED BY <3>3, <3>4
  <2>4. CASE UnlinkJournal
    BY <2>4 DEF UnlinkJournal
  <2> QED BY <1>5, <2>1, <2>2, <2>3, <2>4 DEF Publication
<1>6. CASE Returning
  BY <1>6 DEF Returning, FinishRecovery, ResumeAppend, ReturnSealed, ReturnFlushed, Unlinked
<1>7. CASE Journalling
  BY <1>7 DEF Journalling, BeginAppend, TakeActive, RefuseAppend, AppendError,
              WriteJournal, SyncJournal, SyncNewJournal, SyncJournalDir, AcceptBlock
<1>8. CASE Flush
  BY <1>8 DEF Flush, TakeActive
<1> QED BY <1>2, <1>3, <1>4, <1>5, <1>6, <1>7, <1>8 DEF Working

-----------------------------------------------------------------------------
(* The invariant.                                                          *)

\* The invariant holds of an empty directory.
LEMMA InitPInv == Init => PInv
<1> SUFFICES ASSUME Init PROVE PInv
  OBVIOUS
<1>1. Cardinality({}) = 0
  BY FS_EmptySet
<1>2. Openable(EmptyDir)
  BY <1>1, StoreAssumption
  DEF Openable, EmptyDir, HasContent, NoManifest, NoJournal, JournalExists, Consecutive, Ahead
<1> QED
  BY <1>2 DEF Init, PInv, AllOpenable, MetadataFirst, BatchFits, RoomKept, Unloaded

\* Every step keeps it.
LEMMA StepPInv ==
  ASSUME IInv, PInv, [Next]_vars
  PROVE  PInv'
<1>1. CASE Working
  BY <1>1, OpenableStep, MetadataStep, BatchStep, RoomStep DEF PInv
<1>2. CASE GivingUp
  <2>1. AllOpenable'
    BY <1>2, OpenableSubset DEF GivingUp
  <2>2. pc' \in {"closed", "poisoned"}
    BY <1>2 DEF GivingUp, Release
  <2> QED BY <2>1, <2>2 DEF PInv, MetadataFirst, BatchFits, RoomKept, Unloaded
<1>3. CASE JournalError
  <2>1. /\ pc = "journal" /\ MayJournal /\ pc' = "poisoned"
        /\ \E n \in 0..(JournalGrowth - 1) : crashDirs' = crashDirs \cup {TornJournal(n)}
    BY <1>3, Tears DEF JournalError, Fail, IInv, Appending
  <2>2. AllOpenable'
    BY <2>1, JournalOpenable, OpenableChange
  <2> QED BY <2>1, <2>2 DEF PInv, MetadataFirst, BatchFits, RoomKept, Unloaded
<1>4. CASE UNCHANGED vars
  BY <1>4
  DEF vars, storage, writer, client, PInv, AllOpenable, MetadataFirst, BatchFits, RoomKept,
      ManifestFits
<1> QED BY <1>1, <1>2, <1>3, <1>4, NextCases

\* PInv holds in every state, beside IInv.
THEOREM ReopenInvariance == Spec => [](IInv /\ PInv)
<1>1. Init => IInv /\ PInv
  BY InitInv, InitPInv
<1>2. IInv /\ PInv /\ [Next]_vars => (IInv /\ PInv)'
  BY StepPInv, NextCases, WorkingStep, GivingUpStep, JournalErrorStep, StutterStep
<1> QED BY <1>1, <1>2, PTL DEF Spec

-----------------------------------------------------------------------------
(* The theorems.                                                           *)

\* ArchiveWriter::open never refuses, but for the byte limit, what a crash has left.
THEOREM AlwaysReopens == Spec => []Reopenable
<1>1. IInv /\ PInv => Reopenable
  <2> SUFFICES ASSUME IInv, PInv, NEW d \in crashDirs
               PROVE  /\ d.meta \/ ~HasContent(d)
                      /\ ValidSequence(d.frames)
                      /\ ~Conflict(d.journal, d.frames)
                      /\ ReadJournal(d.journal) = d.journal.recs
                      /\ Pending(d.journal, NextBlock(d.frames)) # {} =>
                           /\ Cardinality(d.frames) < MaxFrames
                           /\ ManifestSize(Cardinality(d.frames) + 1) <= MaxManifest
    BY DEF Reopenable
  <2>1. Openable(d) /\ Safe(d, Promised, attempt)
    BY DEF IInv, PInv, AllOpenable, CrashSafe
  <2>2. ValidSequence(d.frames)
    BY <2>1 DEF Openable, Safe, Sequenced, ValidSequence
  <2>3. ReadJournal(d.journal) = d.journal.recs
    BY <2>1 DEF Safe, Agrees, ReadJournal
  <2>4. ~Conflict(d.journal, d.frames)
    BY <2>1, <2>3 DEF Safe, Agrees, Conflict
  <2>5. Pending(d.journal, NextBlock(d.frames)) # {} => RoomForOne(d.frames)
    BY <2>1, <2>3 DEF Openable, Pending, Ahead
  <2> QED BY <2>1, <2>2, <2>3, <2>4, <2>5 DEF Openable, RoomForOne
<1> QED BY <1>1, ReopenInvariance, PTL

\* publish_blocks never meets its own frame, never lists one that can go away,
\* and has the room that preflight_publication looked for.
THEOREM AlwaysPublishesSafely == Spec => []PublishesSafely
<1>1. ASSUME IInv, PInv PROVE PublishesFreshFrame
  <2> SUFFICES ASSUME pc = "publish"
               PROVE  /\ catalog = dir.frames
                      /\ Continues(batch, catalog)
                      /\ \A f \in dir.frames : Ids(f) # Ids(batch)
    BY DEF PublishesFreshFrame
  <2>1. /\ catalog = dir.frames /\ Continues(batch, catalog) /\ batch # {}
        /\ Sequenced(dir.frames)
    BY <1>1, Present DEF IInv, PInv, CatalogTrue, BatchFits, Unloaded
  <2>2. ASSUME NEW f \in dir.frames PROVE Ids(f) # Ids(batch)
    <3>1. PICK r \in batch : r.id \in Ids(batch)
      BY <2>1 DEF Ids
    <3>2. PICK n \in Nat, c \in Nat : n = NextBlock(dir.frames) /\ c = Cardinality(batch)
      BY <1>1, <2>1, FS_CardinalityType DEF Sequenced, IInv, Finite
    <3>3. Ids(UNION dir.frames) = 0..(n - 1) /\ Ids(batch) = n..(n + c - 1)
      BY <2>1, <3>2 DEF Sequenced, Continues
    <3>4. Ids(f) \subseteq Ids(UNION dir.frames)
      BY DEF Ids
    <3>5. r.id \in n..(n + c - 1) /\ ~(r.id \in 0..(n - 1))
      BY <3>1, <3>2, <3>3
    <3>6. ~(r.id \in Ids(f))
      BY <3>3, <3>4, <3>5
    <3> QED BY <3>1, <3>6
  <2> QED BY <2>1, <2>2
<1>2. ASSUME IInv, PInv PROVE ManifestBehindFrames
  BY <1>2 DEF PInv, AllOpenable, Openable, ManifestBehindFrames
<1>3. ASSUME IInv, PInv PROVE ManifestRoomReserved
  BY <1>3 DEF PInv, RoomKept, ManifestRoomReserved
<1>4. IInv /\ PInv => PublishesSafely
  BY <1>1, <1>2, <1>3 DEF PublishesSafely
<1> QED BY <1>4, ReopenInvariance, PTL

-----------------------------------------------------------------------------
(* The invariant of the refinement.                                        *)

\* The blocks of a directory, in frames or in the journal.
Content(d) == (UNION d.frames) \cup d.journal.recs

OneEach(S) == \A r, q \in S : r.id = q.id => r = q

\* An append has begun and has not written its block.
Offering == pc = "journal" \/ (task = "append" /\ pc \in Publishing \cup Retiring)

\* A power loss only takes blocks away.
OnlyTakes == \A d \in crashDirs : Content(d) \subseteq Content(dir)

\* No id is used twice, and a new block's number is larger than any there.
Numbered ==
  /\ OneEach(Content(dir))
  /\ \A r \in Content(dir) : r.val <= attempt
  /\ Offering => \A r \in Content(dir) : r.val < attempt
  /\ attempt <= MaxAttempts

\* Recovery publishes what the directory already has.
RecoversOwn == task = "recover" /\ pc \in Publishing => batch \subseteq Content(dir)

\* One acknowledged block is the last.
LastAcked == acked = {} \/ \E m \in acked : \A r \in acked : r.id <= m.id

RInv == OnlyTakes /\ Numbered /\ RecoversOwn /\ LastAcked

-----------------------------------------------------------------------------
(* Sets of blocks as sequences.                                            *)

\* Blocks with the ids 0 to n - 1 are n blocks, and make a sequence of that length.
LEMMA LogOf ==
  ASSUME NEW S \in SUBSET Rec, OneEach(S), NEW n \in Nat, Ids(S) = 0..(n - 1)
  PROVE  /\ Cardinality(S) = n
         /\ InOrder(S) = [i \in 1..n |-> (CHOOSE r \in S : r.id = i - 1).val]
         /\ InOrder(S) \in Seq(Nat) /\ Len(InOrder(S)) = n /\ DOMAIN InOrder(S) = 1..n
         /\ \A r \in S : r.id + 1 \in 1..n /\ InOrder(S)[r.id + 1] = r.val
         /\ \A i \in 1..n : \E r \in S : r.id = i - 1 /\ InOrder(S)[i] = r.val
<1>1. ASSUME NEW k \in 0..(n - 1)
      PROVE  \E r \in S : r.id = k /\ (CHOOSE q \in S : q.id = k) = r
  <2>1. PICK r \in S : r.id = k BY DEF Ids
  <2>2. \A q \in S : q.id = k => q = r BY <2>1 DEF OneEach
  <2> QED BY <2>1, <2>2
<1> DEFINE f == [k \in 0..(n - 1) |-> CHOOSE q \in S : q.id = k]
<1>2. f \in Bijection(0..(n - 1), S)
  <2>1. f \in [0..(n - 1) -> S] BY <1>1
  <2>2. \A k, l \in 0..(n - 1) : f[k] = f[l] => k = l
    <3> SUFFICES ASSUME NEW k \in 0..(n - 1), NEW l \in 0..(n - 1), f[k] = f[l] PROVE k = l
      OBVIOUS
    <3>1. f[k].id = k /\ f[l].id = l BY <1>1
    <3> QED BY <3>1
  <2>3. \A r \in S : \E k \in 0..(n - 1) : f[k] = r
    <3> SUFFICES ASSUME NEW r \in S PROVE \E k \in 0..(n - 1) : f[k] = r OBVIOUS
    <3>1. r.id \in 0..(n - 1) BY DEF Ids
    <3>2. f[r.id] = CHOOSE q \in S : q.id = r.id BY <3>1
    <3>3. (CHOOSE q \in S : q.id = r.id) = r BY DEF OneEach
    <3> QED BY <3>1, <3>2, <3>3
  <2> HIDE DEF f
  <2> QED BY <2>1, <2>2, <2>3 DEF Bijection, Injection, Surjection, IsInjective
<1>3. Cardinality(S) = n
  <2>1. /\ IsFiniteSet(0..(n - 1))
        /\ Cardinality(0..(n - 1)) = IF 0 > n - 1 THEN 0 ELSE (n - 1) - 0 + 1
    BY FS_Interval
  <2>2. Cardinality(0..(n - 1)) = n
    <3>1. CASE n = 0 BY <2>1, <3>1
    <3>2. CASE n # 0 BY <2>1, <3>2
    <3> QED BY <3>1, <3>2
  <2> HIDE DEF f
  <2> QED BY <1>2, <2>1, <2>2, FS_Bijection DEF ExistsBijection
<1>4. InOrder(S) = [i \in 1..n |-> (CHOOSE r \in S : r.id = i - 1).val]
  BY <1>3 DEF InOrder
<1>5. ASSUME NEW i \in 1..n
      PROVE  \E r \in S : r.id = i - 1 /\ InOrder(S)[i] = r.val
  <2>1. i - 1 \in 0..(n - 1) OBVIOUS
  <2>2. PICK r \in S : r.id = i - 1 /\ (CHOOSE q \in S : q.id = i - 1) = r BY <1>1, <2>1
  <2> QED BY <1>4, <2>2
<1>6. ASSUME NEW r \in S
      PROVE  r.id + 1 \in 1..n /\ InOrder(S)[r.id + 1] = r.val
  <2>1. r.id \in 0..(n - 1) BY DEF Ids
  <2>2. r.id + 1 \in 1..n BY <2>1
  <2>3. PICK i \in 1..n : i = r.id + 1 BY <2>2
  <2>4. PICK q \in S : q.id = i - 1 /\ InOrder(S)[i] = q.val BY <1>5
  <2>5. q.id = r.id BY <2>1, <2>3, <2>4
  <2>6. q = r BY <2>5 DEF OneEach
  <2> QED BY <2>2, <2>3, <2>4, <2>6
<1>7. ASSUME NEW i \in 1..n PROVE InOrder(S)[i] \in Nat
  BY <1>5 DEF Rec
<1>8. InOrder(S) \in Seq(Nat) /\ Len(InOrder(S)) = n /\ DOMAIN InOrder(S) = 1..n
  <2>1. DOMAIN InOrder(S) = 1..n BY <1>4
  <2>2. InOrder(S) \in [1..n -> Nat] BY <1>4, <1>7
  <2> QED BY <2>1, <2>2
<1> QED BY <1>3, <1>4, <1>5, <1>6, <1>8

\* The next block goes to the end of the sequence.
LEMMA LogExtends ==
  ASSUME NEW S \in SUBSET Rec, NEW x \in Rec, NEW n \in Nat, Ids(S) = 0..(n - 1), x.id = n,
         OneEach(S \cup {x})
  PROVE  InOrder(S \cup {x}) = Append(InOrder(S), x.val)
<1> DEFINE T == S \cup {x}
<1>1. Ids(T) = 0..((n + 1) - 1)
  <2>1. Ids(T) = Ids(S) \cup {n} BY DEF Ids
  <2>2. (0..(n - 1)) \cup {n} = 0..((n + 1) - 1) OBVIOUS
  <2> QED BY <2>1, <2>2
<1>2. OneEach(S) BY DEF OneEach
<1>3. /\ InOrder(S) \in Seq(Nat) /\ Len(InOrder(S)) = n /\ DOMAIN InOrder(S) = 1..n
      /\ \A i \in 1..n : \E r \in S : r.id = i - 1 /\ InOrder(S)[i] = r.val
  BY <1>2, LogOf
<1>4. /\ InOrder(T) \in Seq(Nat) /\ Len(InOrder(T)) = n + 1 /\ DOMAIN InOrder(T) = 1..(n + 1)
      /\ \A r \in T : InOrder(T)[r.id + 1] = r.val
  <2>1. T \in SUBSET Rec /\ OneEach(T) /\ n + 1 \in Nat OBVIOUS
  <2> HIDE DEF T
  <2> QED BY <1>1, <2>1, LogOf
<1>5. ASSUME NEW i \in 1..n PROVE InOrder(T)[i] = InOrder(S)[i]
  <2>1. PICK r \in S : r.id = i - 1 /\ InOrder(S)[i] = r.val BY <1>3
  <2>2. InOrder(T)[r.id + 1] = r.val BY <1>4
  <2>3. r.id + 1 = i BY <2>1
  <2> QED BY <2>1, <2>2, <2>3
<1>6. InOrder(T)[n + 1] = x.val BY <1>4
<1>7. x.val \in Nat BY DEF Rec
<1> HIDE DEF T
<1>8. Append(InOrder(S), x.val) \in [1..(n + 1) -> Nat] /\ InOrder(T) \in [1..(n + 1) -> Nat]
  <2>1. Append(InOrder(S), x.val) \in Seq(Nat) /\ Len(Append(InOrder(S), x.val)) = n + 1
    BY <1>3, <1>7
  <2>2. \A s \in Seq(Nat) : Len(s) = n + 1 => s \in [1..(n + 1) -> Nat] OBVIOUS
  <2> QED BY <1>4, <2>1, <2>2
<1>9. ASSUME NEW i \in 1..(n + 1) PROVE InOrder(T)[i] = Append(InOrder(S), x.val)[i]
  <2>1. CASE i \in 1..n BY <1>3, <1>5, <1>7, <2>1
  <2>2. CASE i = n + 1 BY <1>3, <1>6, <1>7, <2>2
  <2>3. i \in 1..n \/ i = n + 1 OBVIOUS
  <2> QED BY <2>1, <2>2, <2>3
<1>10. InOrder(T) = Append(InOrder(S), x.val) BY <1>8, <1>9
<1> QED BY <1>10 DEF T

\* The blocks before one of them are the beginning of the sequence.
LEMMA LogPrefix ==
  ASSUME NEW S \in SUBSET Rec, OneEach(S), NEW n \in Nat, Ids(S) = 0..(n - 1),
         NEW T \in SUBSET S, NEW m \in Nat, Ids(T) = 0..(m - 1)
  PROVE  m <= n /\ InOrder(T) = SubSeq(InOrder(S), 1, m)
<1>1. m <= n
  <2>1. Ids(T) \subseteq Ids(S) BY DEF Ids
  <2>2. CASE m = 0 BY <2>2
  <2>3. CASE m # 0
    <3>1. m - 1 \in 0..(n - 1) BY <2>1, <2>3
    <3> QED BY <3>1
  <2> QED BY <2>2, <2>3
<1>2. OneEach(T) /\ T \in SUBSET Rec BY DEF OneEach
<1>3. /\ InOrder(T) \in Seq(Nat) /\ Len(InOrder(T)) = m /\ DOMAIN InOrder(T) = 1..m
      /\ \A i \in 1..m : \E r \in T : r.id = i - 1 /\ InOrder(T)[i] = r.val
  BY <1>2, LogOf
<1>4. /\ InOrder(S) \in Seq(Nat) /\ Len(InOrder(S)) = n
      /\ \A r \in S : InOrder(S)[r.id + 1] = r.val
  BY LogOf
<1>5. ASSUME NEW i \in 1..m PROVE InOrder(T)[i] = InOrder(S)[i]
  <2>1. PICK r \in T : r.id = i - 1 /\ InOrder(T)[i] = r.val BY <1>3
  <2>2. r \in S /\ r.id + 1 = i BY <2>1
  <2> QED BY <1>4, <2>1, <2>2
<1>6. /\ SubSeq(InOrder(S), 1, m) \in Seq(Nat) /\ Len(SubSeq(InOrder(S), 1, m)) = m
      /\ \A i \in 1..m : SubSeq(InOrder(S), 1, m)[i] = InOrder(S)[i]
  BY <1>1, <1>4
<1> QED BY <1>1, <1>3, <1>5, <1>6

\* Blocks whose last has the id of m are followed by block m.id + 1.
LEMMA AckedIs ==
  ASSUME NEW A \in SUBSET Rec, NEW m \in A, \A r \in A : r.id <= m.id
  PROVE  NextBlock({A}) = m.id + 1
<1> DEFINE S == {0} \cup {i + 1 : i \in Ids(A)}
           P(n) == \A i \in Ids(A) : i < n
<1>1. NextBlock({A}) = CHOOSE n \in S : P(n)
  <2>1. UNION {A} = A OBVIOUS
  <2> QED BY <2>1 DEF NextBlock
<1>2. Ids(A) \subseteq Nat /\ m.id \in Ids(A) /\ \A i \in Ids(A) : i <= m.id
  BY DEF Ids, Rec
<1>3. m.id + 1 \in S /\ P(m.id + 1) BY <1>2
<1>4. ASSUME NEW n \in S, P(n) PROVE n = m.id + 1
  <2>1. m.id < n BY <1>2, <1>4
  <2>2. n # 0 BY <1>2, <2>1
  <2>3. PICK i \in Ids(A) : n = i + 1 BY <2>2
  <2> QED BY <1>2, <2>1, <2>3
<1> HIDE DEF S, P
<1> QED BY <1>1, <1>3, <1>4

-----------------------------------------------------------------------------
(* What a reopen returns.                                                  *)

\* A reopen of a safe directory returns all its blocks.
LEMMA RecoverableIs ==
  ASSUME NEW d \in Directory, NEW kept, NEW n, Safe(d, kept, n)
  PROVE  Recoverable(d) = Content(d)
<1>1. Safe(d, d.journal.recs, n) BY DEF Safe
<1>2. d.journal.recs \subseteq Recoverable(d) BY <1>1, SafeRecovers
<1>3. Recoverable(d) \subseteq Content(d) BY DEF Recoverable, Pending, ReadJournal, Content
<1>4. UNION d.frames \subseteq Recoverable(d) BY DEF Recoverable
<1> QED BY <1>2, <1>3, <1>4 DEF Content

\* The blocks of a directory have the ids 0, 1, ...
LEMMA ContentIds ==
  ASSUME NEW d \in Directory, NEW kept, NEW n, Safe(d, kept, n), Openable(d)
  PROVE  Content(d) \in SUBSET Rec /\ \E k \in Nat : Ids(Content(d)) = 0..(k - 1)
<1>1. Content(d) \in SUBSET Rec BY DEF Content, Directory
<1>2. Ids(Content(d)) = Ids(UNION d.frames) \cup Ids(d.journal.recs) BY DEF Content, Ids
<1>3. PICK b \in Nat : b = NextBlock(d.frames) /\ Ids(UNION d.frames) = 0..(b - 1)
  BY DEF Safe, Sequenced
<1>4. CASE d.journal.recs = {}
  <2>1. Ids(d.journal.recs) = {} BY <1>4 DEF Ids
  <2>2. Ids(Content(d)) = 0..(b - 1) BY <1>2, <1>3, <2>1
  <2> QED BY <1>1, <2>2
<1>5. CASE d.journal.recs # {}
  <2>1. PICK lo, hi \in Nat : Ids(d.journal.recs) = lo..hi
    BY <1>5 DEF Openable, Consecutive
  <2>2. PICK r \in d.journal.recs : r.id = hi
    <3>1. \E r \in d.journal.recs : r.id \in lo..hi BY <1>5, <2>1 DEF Ids
    <3>2. hi \in lo..hi BY <3>1
    <3> QED BY <2>1, <3>2 DEF Ids
  <2>3. CASE hi < b
    <3>1. Ids(Content(d)) = 0..(b - 1) BY <1>2, <1>3, <2>1, <2>3
    <3> QED BY <1>1, <3>1
  <2>4. CASE ~(hi < b)
    <3>1. b..hi \subseteq lo..hi
      BY <1>3, <2>1, <2>2, <2>4 DEF Safe, Agrees
    <3>2. (0..(b - 1)) \cup (lo..hi) = 0..((hi + 1) - 1)
      <4>1. \A i \in 0..hi : i \in 0..(b - 1) \/ i \in b..hi OBVIOUS
      <4> QED BY <2>4, <3>1, <4>1
    <3>3. Ids(Content(d)) = 0..((hi + 1) - 1) BY <1>2, <1>3, <2>1, <3>2
    <3> QED BY <1>1, <3>3
  <2> QED BY <2>3, <2>4
<1> QED BY <1>4, <1>5

\* Of the present directory and of those a power loss may leave.
LEMMA ContentFacts ==
  ASSUME IInv, PInv, NEW d \in crashDirs
  PROVE  /\ d \in Directory /\ Recoverable(d) = Content(d) /\ Content(d) \in SUBSET Rec
         /\ \E k \in Nat : Ids(Content(d)) = 0..(k - 1)
         /\ Promised \subseteq Content(d)
<1>1. d \in Directory /\ Safe(d, Promised, attempt) /\ Openable(d)
  BY DEF IInv, PInv, TypeOK, CrashSafe, AllOpenable
<1> QED BY <1>1, RecoverableIs, ContentIds DEF Safe, Content

-----------------------------------------------------------------------------
(* The steps that leave the blocks as they are.                            *)

\* Every step of the writer but the journal write keeps the blocks of the directory.
LEMMA ContentStep ==
  ASSUME IInv, PInv, RInv, Working, ~WriteJournal
  PROVE  Content(dir') = Content(dir) /\ OnlyTakes'
<1>1. dir \in crashDirs /\ dir \in Directory BY Present
<1>2. OnlyTakes BY DEF RInv
<1>3. CASE Changing
  <2>1. /\ dir'.journal = dir.journal
        /\ \A e \in crashDirs' : e \in crashDirs \/ \E m \in crashDirs : Kin(m, e)
    BY <1>3, Changes
  <2>2. Content(dir') = Content(dir)
    <3>1. CASE RenameFrame
      <4>1. batch \subseteq Content(dir)
        <5>1. CASE task = "recover"
          BY <3>1, <5>1 DEF RenameFrame, Move, RInv, RecoversOwn, Publishing
        <5>2. CASE task # "recover"
          <6>1. batch \subseteq Promised BY <5>2 DEF Promised
          <6> QED BY <1>1, <6>1, ContentFacts
        <5> QED BY <5>1, <5>2
      <4>2. dir'.frames = dir.frames \cup {batch}
        BY <1>1, <3>1 DEF RenameFrame, Change, Directory
      <4>3. UNION (dir.frames \cup {batch}) = (UNION dir.frames) \cup batch OBVIOUS
      <4> QED BY <2>1, <4>1, <4>2, <4>3 DEF Content
    <3>2. CASE ~RenameFrame
      <4>1. dir'.frames = dir.frames
        BY <1>1, <1>3, <3>2 DEF Changing, RemoveTemps, WriteMetadata, RenameMetadata, WriteManifest,
                                RenameManifest, WriteFrame, Change, Directory
      <4> QED BY <2>1, <4>1 DEF Content
    <3> QED BY <3>1, <3>2
  <2>3. ASSUME NEW m, NEW e, Kin(m, e) PROVE Content(e) \subseteq Content(dir')
    BY <2>1, <2>3 DEF Kin, Content
  <2> QED BY <1>2, <2>1, <2>2, <2>3 DEF OnlyTakes
<1>4. CASE UnlinkJournal
  <2>1. dir.journal.recs \subseteq UNION dir.frames
    BY <1>4 DEF UnlinkJournal, Move, IInv, BeforeLoad, CatalogTrue, PublicationCovers, Retiring, Unloaded
  <2>2. crashDirs' = crashDirs \cup {dir'} /\ dir'.frames = dir.frames /\ dir'.journal.recs = {}
    BY <1>4, Unlinks DEF NoJournal
  <2>3. Content(dir') = Content(dir) BY <2>1, <2>2 DEF Content
  <2> QED BY <1>2, <2>2, <2>3 DEF OnlyTakes
<1>5. CASE SyncJournal \/ SyncNewJournal
  <2>1. dir' = dir /\ \A d \in crashDirs' : d = dir \/ d \in crashDirs
    BY <1>5 DEF SyncJournal, SyncNewJournal, SyncJournalFile, Move, IInv, Appending
  <2> QED BY <1>1, <1>2, <2>1 DEF OnlyTakes
<1>6. CASE SyncDirectory
  <2>1. dir' = dir /\ crashDirs' \subseteq crashDirs BY <1>6, Syncs
  <2> QED BY <1>2, <2>1 DEF OnlyTakes
<1>7. CASE dir' = dir /\ crashDirs' = crashDirs
  BY <1>2, <1>7 DEF OnlyTakes
<1> QED BY <1>3, <1>4, <1>5, <1>6, <1>7, DirectoryCases

-----------------------------------------------------------------------------
(* The steps that add a block, or promise one.                             *)

\* The journal write adds the block under way at the end, or tears the journal.
LEMMA JournalContent ==
  ASSUME IInv, PInv, RInv, pc = "journal", MayJournal
  PROVE  /\ Incoming \in Rec /\ Incoming.id = nextId /\ Incoming.val = attempt /\ nextId \in Nat
         /\ Ids(Content(dir)) = 0..(nextId - 1)
         /\ OneEach(Content(dir) \cup {Incoming})
         /\ Content([dir EXCEPT !.journal = WriteRecord(OpenJournal, Incoming, JournalGrowth)])
              = Content(dir) \cup {Incoming}
         /\ \A n \in 0..(JournalGrowth - 1) : Content(TornJournal(n)) = Content(dir)
<1> DEFINE after == [dir EXCEPT !.journal = WriteRecord(OpenJournal, Incoming, JournalGrowth)]
<1>1. /\ dir \in Directory /\ catalog = dir.frames /\ Sequenced(dir.frames)
      /\ nextId \in Nat /\ dir.journal.recs = active
      /\ Ids(active) = NextBlock(dir.frames)..(nextId - 1)
      /\ nextId = NextBlock(dir.frames) + Cardinality(active)
  BY Present DEF Unloaded, IInv, TypeOK, CatalogTrue, JournalIsActive
<1>2. Incoming \in Rec /\ Incoming.id = nextId /\ Incoming.val = attempt
  BY JournalTypes DEF IInv, Incoming
<1>3. Ids(Content(dir)) = 0..(nextId - 1)
  <2>1. Ids(Content(dir)) = Ids(UNION dir.frames) \cup Ids(active) BY <1>1 DEF Content, Ids
  <2>2. PICK b \in Nat, c \in Nat : b = NextBlock(dir.frames) /\ c = Cardinality(active)
    BY <1>1, FS_CardinalityType DEF Sequenced, IInv, Finite
  <2>3. (0..(b - 1)) \cup (b..(b + c - 1)) = 0..(b + c - 1) OBVIOUS
  <2>4. Ids(UNION dir.frames) = 0..(b - 1) /\ Ids(active) = b..(b + c - 1) /\ nextId = b + c
    BY <1>1, <2>2 DEF Sequenced
  <2> QED BY <2>1, <2>3, <2>4
<1>4. OneEach(Content(dir) \cup {Incoming})
  <2>1. OneEach(Content(dir)) BY DEF RInv, Numbered
  <2>2. ASSUME NEW r \in Content(dir) PROVE r.id # nextId
    <3>1. r.id \in 0..(nextId - 1) BY <1>3 DEF Ids
    <3> QED BY <1>1, <3>1
  <2> QED BY <1>2, <2>1, <2>2 DEF OneEach
<1>5. Content(after) = Content(dir) \cup {Incoming}
  <2>1. after.journal.recs = active \cup {Incoming} /\ after.frames = dir.frames BY JournalWrite
  <2> HIDE DEF after
  <2> QED BY <1>1, <2>1 DEF Content
<1>6. ASSUME NEW n \in 0..(JournalGrowth - 1) PROVE Content(TornJournal(n)) = Content(dir)
  <2>1. TornJournal(n).journal.recs = active BY JournalWrite
  <2>2. TornJournal(n).frames = dir.frames BY <1>1 DEF TornJournal, Directory
  <2> QED BY <1>1, <2>1, <2>2 DEF Content
<1> QED BY <1>1, <1>2, <1>3, <1>4, <1>5, <1>6

\* The journal write takes nothing from what a power loss leaves.
LEMMA JournalTakes ==
  ASSUME IInv, PInv, RInv, pc = "journal", MayJournal, Content(dir) \subseteq Content(dir'),
         \A d \in crashDirs' : d \in crashDirs \/ d = dir' \/ Content(d) = Content(dir)
  PROVE  OnlyTakes'
BY DEF RInv, OnlyTakes

\* An append that succeeds promises the last block of the directory.
LEMMA CountedStep ==
  ASSUME IInv, PInv, RInv, Working, acked' # acked
  PROVE  \E x \in Rec : /\ acked' = acked \cup {x}
                        /\ Ids(Content(dir)) = 0..x.id
<1>1. SyncJournal \/ SyncJournalDir \/ ReturnSealed
  BY DEF Working, Opening, AcquireLock, RemoveTemps, WriteMetadata, RenameMetadata, SyncMetadata,
         LoadCatalog, Listing, ManifestCurrent, WriteManifest, RenameManifest, SyncManifest,
         Recovering, NothingToRecover, DiscardJournal, RecoverPending,
         Publication, WriteFrame, RenameFrame, SyncFrame, UnlinkJournal,
         Returning, FinishRecovery, ResumeAppend, ReturnFlushed,
         Journalling, BeginAppend, RefuseAppend, AppendError, Fault, WriteJournal, SyncNewJournal,
         Flush, client
<1>2. CASE SyncJournal \/ SyncJournalDir
  <2>1. pc \in {"journalSync", "journalSyncDir"} /\ acked' = acked \cup {Incoming}
    BY <1>2 DEF SyncJournal, SyncJournalDir, AcceptBlock
  <2>2. /\ catalog = dir.frames /\ Sequenced(dir.frames) /\ nextId \in Nat
        /\ dir.journal.recs = active \cup {Incoming}
        /\ nextId = NextBlock(catalog) + Cardinality(active)
    BY <2>1, Present DEF Unloaded, IInv, TypeOK, CatalogTrue, Appending
  <2>3. Ids(active \cup {Incoming}) = NextBlock(catalog)..nextId BY <2>1, ActiveGrows
  <2>4. Ids(Content(dir)) = Ids(UNION dir.frames) \cup Ids(active \cup {Incoming})
    BY <2>2 DEF Content, Ids
  <2>5. PICK b \in Nat, c \in Nat : b = NextBlock(catalog) /\ c = Cardinality(active)
    BY <2>2, FS_CardinalityType DEF Sequenced, IInv, Finite
  <2>6. (0..(b - 1)) \cup (b..(b + c)) = 0..(b + c) OBVIOUS
  <2>7. Ids(UNION dir.frames) = 0..(b - 1) /\ nextId = b + c BY <2>2, <2>5 DEF Sequenced
  <2>8. Ids(Content(dir)) = 0..nextId BY <2>3, <2>4, <2>5, <2>6, <2>7
  <2>9. Incoming \in Rec /\ Incoming.id = nextId BY JournalTypes DEF IInv, Incoming
  <2> QED BY <2>1, <2>8, <2>9
<1>3. CASE ReturnSealed
  <2> DEFINE x == [id |-> nextId - 1, val |-> attempt]
  <2>1. /\ pc = "unlinkSync" /\ task = "seal" /\ acked' = acked \cup {x}
    BY <1>3 DEF ReturnSealed, Unlinked
  <2>2. /\ catalog = dir.frames /\ Sequenced(dir.frames) /\ nextId \in Nat /\ nextId > 0
        /\ dir.journal.recs = {} /\ nextId = NextBlock(catalog) /\ attempt \in Nat
    BY <2>1, Present
    DEF Unloaded, Retiring, IInv, TypeOK, CatalogTrue, Sealing, PublicationCovers, NoJournal
  <2>3. Ids(Content(dir)) = 0..(nextId - 1)
    <3>1. Content(dir) = UNION dir.frames BY <2>2 DEF Content
    <3> QED BY <2>2, <3>1 DEF Sequenced
  <2>4. x \in Rec /\ x.id = nextId - 1 BY <2>2 DEF Rec
  <2> HIDE DEF x
  <2> QED BY <2>1, <2>3, <2>4
<1> QED BY <1>1, <1>2, <1>3

-----------------------------------------------------------------------------
(* RInv is inductive, beside IInv and PInv.                                *)

\* A working step begins at most one append, and only then is there a new number to offer.
LEMMA OfferStep ==
  ASSUME IInv, Working
  PROVE  \/ attempt' = attempt /\ (Offering' => Offering)
         \/ pc = "ready" /\ attempt < MaxAttempts /\ attempt' = attempt + 1 /\ BeginAppend
<1> USE DEF Offering, Publishing, Retiring, Move, client
<1>1. CASE Opening
  BY <1>1 DEF Opening, AcquireLock, RemoveTemps, WriteMetadata, RenameMetadata,
              SyncMetadata, LoadCatalog, IInv, BeforeLoad
<1>2. CASE Listing
  BY <1>2 DEF Listing, ManifestCurrent, WriteManifest, RenameManifest, SyncManifest,
              AfterManifest
<1>3. CASE Recovering
  BY <1>3 DEF Recovering, NothingToRecover, DiscardJournal, RecoverPending
<1>4. CASE Publication
  BY <1>4 DEF Publication, WriteFrame, RenameFrame, SyncFrame, UnlinkJournal
<1>5. CASE Returning
  BY <1>5 DEF Returning, FinishRecovery, ResumeAppend, ReturnSealed, ReturnFlushed, Unlinked
<1>6. CASE BeginAppend
  BY <1>6 DEF BeginAppend
<1>7. CASE \/ RefuseAppend \/ AppendError \/ WriteJournal
           \/ SyncJournal \/ SyncNewJournal \/ SyncJournalDir
  BY <1>7 DEF RefuseAppend, AppendError, Fault, WriteJournal, SyncJournal, SyncNewJournal,
              SyncJournalDir, AcceptBlock
<1>8. CASE Flush
  BY <1>8 DEF Flush, TakeActive
<1> QED BY <1>1, <1>2, <1>3, <1>4, <1>5, <1>6, <1>7, <1>8 DEF Working, Journalling

\* What a recovery has begun to publish it goes on to publish.
LEMMA BatchKept ==
  ASSUME IInv, Working, task' = "recover", pc' \in Publishing
  PROVE  \/ batch' = batch /\ task = "recover" /\ pc \in Publishing
         \/ batch' \subseteq Content(dir)
<1> USE DEF Publishing, Move
<1>1. CASE Opening
  BY <1>1 DEF Opening, AcquireLock, RemoveTemps, WriteMetadata, RenameMetadata,
              SyncMetadata, LoadCatalog
<1>2. CASE Listing
  BY <1>2 DEF Listing, ManifestCurrent, WriteManifest, RenameManifest, SyncManifest,
              AfterManifest
<1>3. CASE Recovering
  BY <1>3 DEF Recovering, NothingToRecover, DiscardJournal, RecoverPending, Pending, ReadJournal,
              Content
<1>4. CASE Publication
  BY <1>4 DEF Publication, WriteFrame, RenameFrame, SyncFrame, UnlinkJournal, Same
<1>5. CASE Returning
  BY <1>5 DEF Returning, FinishRecovery, ResumeAppend, ReturnSealed, ReturnFlushed, Unlinked
<1>6. CASE Journalling
  BY <1>6 DEF Journalling, BeginAppend, RefuseAppend, AppendError, WriteJournal,
              SyncJournal, SyncNewJournal, SyncJournalDir, AcceptBlock, IInv, Appending
<1>7. CASE Flush
  BY <1>7 DEF Flush, TakeActive
<1> QED BY <1>1, <1>2, <1>3, <1>4, <1>5, <1>6, <1>7 DEF Working

\* The last acknowledged block stays the last, or gives way to a later one.
LEMMA LastStep ==
  ASSUME IInv, PInv, RInv, Working
  PROVE  LastAcked'
<1>1. CASE acked' = acked BY <1>1 DEF RInv, LastAcked
<1>2. CASE acked' # acked
  <2>1. PICK x \in Rec : acked' = acked \cup {x} /\ Ids(Content(dir)) = 0..x.id
    BY <1>2, CountedStep
  <2>2. acked \subseteq Content(dir) BY Present, ContentFacts DEF Promised
  <2>3. x.id \in Nat BY DEF Rec
  <2>4. ASSUME NEW r \in acked PROVE r.id <= x.id
    <3>1. r.id \in 0..x.id BY <2>1, <2>2 DEF Ids
    <3> QED BY <2>3, <3>1
  <2>5. ASSUME NEW r \in acked' PROVE r.id <= x.id BY <2>1, <2>3, <2>4
  <2> QED BY <2>1, <2>5 DEF LastAcked
<1> QED BY <1>1, <1>2

\* A working step keeps it.
LEMMA WorkingRInv ==
  ASSUME IInv, PInv, RInv, Working
  PROVE  RInv'
<1>1. /\ dir \in crashDirs /\ dir \in Directory /\ attempt \in Nat /\ MaxAttempts \in Nat
      /\ Content(dir) \in SUBSET Rec /\ \A r \in Content(dir) : r.val \in Nat
  BY Present, ContentFacts, StoreAssumption DEF IInv, TypeOK, Rec
<1>2. LastAcked' BY LastStep
<1>3. CASE WriteJournal
  <2>1. /\ pc = "journal" /\ pc' = "journalSync" /\ MayJournal /\ attempt' = attempt
        /\ dir' = [dir EXCEPT !.journal = WriteRecord(OpenJournal, Incoming, JournalGrowth)]
        /\ \A d \in crashDirs' : \/ d \in crashDirs \/ d = dir'
                                 \/ \E n \in 0..(JournalGrowth - 1) : d = TornJournal(n)
    BY <1>3 DEF WriteJournal, Move, client
  <2>2. /\ Content(dir') = Content(dir) \cup {Incoming} /\ Incoming.val = attempt
        /\ OneEach(Content(dir'))
        /\ \A n \in 0..(JournalGrowth - 1) : Content(TornJournal(n)) = Content(dir)
    BY <2>1, JournalContent
  <2>3. OnlyTakes' BY <2>1, <2>2, JournalTakes
  <2>4. \A r \in Content(dir') : r.val <= attempt' BY <1>1, <2>1, <2>2 DEF RInv, Numbered
  <2>5. ~Offering' BY <2>1 DEF Offering, Publishing, Retiring
  <2>6. Numbered' BY <2>1, <2>2, <2>4, <2>5 DEF RInv, Numbered
  <2>7. RecoversOwn' BY <2>1 DEF RecoversOwn, Publishing
  <2> QED BY <1>2, <2>3, <2>6, <2>7 DEF RInv
<1>4. CASE ~WriteJournal
  <2>1. Content(dir') = Content(dir) /\ OnlyTakes' BY <1>4, ContentStep
  <2>2. RecoversOwn' BY <2>1, BatchKept DEF RInv, RecoversOwn
  <2>3. CASE attempt' = attempt /\ (Offering' => Offering)
    <3>1. Numbered' BY <2>1, <2>3 DEF RInv, Numbered
    <3> QED BY <1>2, <2>1, <2>2, <3>1 DEF RInv
  <2>4. CASE attempt < MaxAttempts /\ attempt' = attempt + 1
    <3>1. \A r \in Content(dir) : r.val < attempt' BY <1>1, <2>4 DEF RInv, Numbered
    <3>2. attempt' <= MaxAttempts BY <1>1, <2>4
    <3>3. \A r \in Content(dir) : r.val <= attempt' BY <1>1, <2>4 DEF RInv, Numbered
    <3>4. Numbered' BY <2>1, <3>1, <3>2, <3>3 DEF RInv, Numbered
    <3> QED BY <1>2, <2>1, <2>2, <3>4 DEF RInv
  <2> QED BY <2>3, <2>4, OfferStep
<1> QED BY <1>3, <1>4

\* An operation that gives up keeps it.
LEMMA GivingUpRInv ==
  ASSUME IInv, PInv, RInv, GivingUp
  PROVE  RInv'
<1>1. /\ dir' \in crashDirs /\ crashDirs' \subseteq crashDirs
      /\ pc' \in {"closed", "poisoned"} /\ attempt' = attempt /\ acked' = acked
      /\ dir' = dir \/ crashDirs' = {dir'}
  BY DEF GivingUp, Release
<1>2. Content(dir') \subseteq Content(dir) BY <1>1 DEF RInv, OnlyTakes
<1>3. OnlyTakes' BY <1>1 DEF RInv, OnlyTakes
<1>4. ~Offering' /\ RecoversOwn'
  BY <1>1 DEF Offering, RecoversOwn, Publishing, Retiring
<1>5. Numbered' BY <1>1, <1>2, <1>4 DEF RInv, Numbered, OneEach
<1>6. LastAcked' BY <1>1 DEF RInv, LastAcked
<1> QED BY <1>3, <1>4, <1>5, <1>6 DEF RInv

\* So does a journal write that stops half way.
LEMMA JournalErrorRInv ==
  ASSUME IInv, PInv, RInv, JournalError
  PROVE  RInv' /\ Content(dir') = Content(dir)
<1>1. /\ pc = "journal" /\ MayJournal /\ pc' = "poisoned" /\ attempt' = attempt /\ acked' = acked
      /\ crashDirs' = crashDirs \cup {dir'}
      /\ \E n \in 0..(JournalGrowth - 1) : dir' = TornJournal(n)
  BY Tears DEF JournalError, Fail, Fault, IInv, Appending
<1>2. Content(dir') = Content(dir) BY <1>1, JournalContent
<1>3. OnlyTakes' BY <1>1, <1>2, JournalTakes
<1>4. ~Offering' /\ RecoversOwn'
  BY <1>1 DEF Offering, RecoversOwn, Publishing, Retiring
<1>5. Numbered' BY <1>1, <1>2, <1>4 DEF RInv, Numbered
<1>6. LastAcked' BY <1>1 DEF RInv, LastAcked
<1> QED BY <1>2, <1>3, <1>4, <1>5, <1>6 DEF RInv

\* It holds at first.
LEMMA InitRInv == Init => RInv
<1> SUFFICES ASSUME Init PROVE RInv OBVIOUS
<1>1. Content(dir) = {} BY DEF Init, Content, EmptyDir, NoJournal
<1>2. OnlyTakes BY DEF Init, OnlyTakes
<1>3. Numbered BY <1>1, StoreAssumption DEF Init, Numbered, OneEach
<1> QED BY <1>2, <1>3 DEF Init, RInv, RecoversOwn, LastAcked, Publishing

\* What the refinement rests on holds in every state.
THEOREM RefinementInvariance == Spec => [](IInv /\ PInv /\ RInv)
<1>1. Init => RInv BY InitRInv
<1>2. IInv /\ PInv /\ RInv /\ [Next]_vars => RInv'
  <2> SUFFICES ASSUME IInv, PInv, RInv, [Next]_vars PROVE RInv' OBVIOUS
  <2>1. CASE Next
    BY <2>1, NextCases, WorkingRInv, GivingUpRInv, JournalErrorRInv
  <2>2. CASE UNCHANGED vars
    BY <2>2
    DEF vars, storage, writer, client, RInv, OnlyTakes, Numbered, Offering, RecoversOwn, LastAcked
  <2> QED BY <2>1, <2>2
<1> QED BY <1>1, <1>2, ReopenInvariance, PTL DEF Spec

-----------------------------------------------------------------------------
(* Steps of the archive as steps of the log.                               *)

\* What the directory holds and what is acknowledged, as a log.
LEMMA AsLog ==
  ASSUME IInv, PInv, RInv
  PROVE  /\ Recoverable(dir) = Content(dir) /\ Content(dir) \in SUBSET Rec
         /\ OneEach(Content(dir)) /\ acked \subseteq Content(dir)
         /\ \E k \in Nat : Ids(Content(dir)) = 0..(k - 1)
BY Present, ContentFacts DEF RInv, Numbered, Promised

\* The promise ends before the last of the blocks that hold what is acknowledged.
LEMMA PromiseEnds ==
  ASSUME LastAcked, NEW S \in SUBSET Rec, acked \subseteq S, NEW k \in Nat, Ids(S) = 0..(k - 1)
  PROVE  AckedLength \in 0..k
<1>1. CASE acked = {}
  <2>1. Ids(UNION {acked}) = {} BY <1>1 DEF Ids
  <2>2. \A n \in Nat : n = 0 => Ids(UNION {acked}) = 0..(n - 1)
    <3>1. \A n \in Nat : n = 0 => {} = 0..(n - 1) OBVIOUS
    <3> QED BY <2>1, <3>1
  <2>3. AckedLength = 0 BY <2>2, NextBlockIs DEF AckedLength
  <2> QED BY <2>3
<1>2. CASE acked # {}
  <2>1. PICK m \in acked : \A r \in acked : r.id <= m.id BY <1>2 DEF LastAcked
  <2>2. AckedLength = m.id + 1 BY <2>1, AckedIs DEF AckedLength
  <2>3. m.id \in 0..(k - 1) BY DEF Ids
  <2> QED BY <2>2, <2>3
<1> QED BY <1>1, <1>2

\* Neither blocks nor acknowledgements change: nor does the log.
LEMMA LogSame ==
  ASSUME Recoverable(dir') = Recoverable(dir), acked' = acked
  PROVE  UNCHANGED Log!vars
BY DEF Log!vars, AckedLength

\* A journal write offers a value later than all that are there.
LEMMA AcceptStep ==
  ASSUME IInv, PInv, RInv, WriteJournal, Recoverable(dir') = Content(dir')
  PROVE  Log!Next
<1>1. /\ pc = "journal" /\ MayJournal /\ acked' = acked
      /\ dir' = [dir EXCEPT !.journal = WriteRecord(OpenJournal, Incoming, JournalGrowth)]
  BY DEF WriteJournal, Move, client
<1>2. /\ Incoming \in Rec /\ Incoming.id = nextId /\ Incoming.val = attempt /\ nextId \in Nat
      /\ Ids(Content(dir)) = 0..(nextId - 1) /\ OneEach(Content(dir) \cup {Incoming})
      /\ Content(dir') = Content(dir) \cup {Incoming}
  BY <1>1, JournalContent
<1>3. InOrder(Recoverable(dir')) = Append(InOrder(Recoverable(dir)), attempt)
  BY <1>2, AsLog, LogExtends
<1>4. ASSUME NEW i \in 1..Len(InOrder(Recoverable(dir)))
      PROVE  InOrder(Recoverable(dir))[i] < attempt
  <2>1. \E r \in Content(dir) : InOrder(Content(dir))[i] = r.val
    <3>1. /\ Content(dir) \in SUBSET Rec /\ OneEach(Content(dir))
          /\ Recoverable(dir) = Content(dir)
      BY AsLog
    <3>2. i \in 1..nextId BY <1>2, <3>1, LogOf
    <3> QED BY <1>2, <3>1, <3>2, LogOf
  <2>2. \A r \in Content(dir) : r.val < attempt BY <1>1 DEF RInv, Numbered, Offering
  <2> QED BY <2>1, <2>2, AsLog
<1>5. attempt \in 1..MaxAttempts
  <2>1. dir \in crashDirs /\ dir.journal.born \in Nat BY Present DEF Directory
  <2>2. dir.journal.born < attempt BY <1>1, <2>1 DEF IInv, Appending
  <2>3. attempt <= MaxAttempts /\ attempt \in Nat /\ MaxAttempts \in Nat
    BY StoreAssumption DEF RInv, Numbered, IInv, TypeOK
  <2> QED BY <2>1, <2>2, <2>3
<1>6. AckedLength' = AckedLength BY <1>1 DEF AckedLength
<1>7. Log!Accept(attempt) BY <1>3, <1>4, <1>6 DEF Log!Accept
<1> QED BY <1>5, <1>7 DEF Log!Next

\* An append that returns promises the log up to its block.
LEMMA PromiseStep ==
  ASSUME IInv, PInv, RInv, Working, acked' # acked, Recoverable(dir') = Recoverable(dir)
  PROVE  [Log!Next]_(Log!vars)
<1>1. PICK x \in Rec : acked' = acked \cup {x} /\ Ids(Content(dir)) = 0..x.id
  BY CountedStep
<1>2. x.id \in Nat BY DEF Rec
<1>3. PICK n \in Nat : n = x.id + 1 /\ Ids(Content(dir)) = 0..(n - 1)
  BY <1>1, <1>2
<1>4. Len(InOrder(Recoverable(dir))) = n BY <1>3, AsLog, LogOf
<1>5. AckedLength \in 0..n BY <1>3, AsLog, PromiseEnds DEF RInv
<1>6. AckedLength' = n
  <2>1. acked \in SUBSET Rec BY DEF IInv, TypeOK
  <2>2. ASSUME NEW r \in acked \cup {x} PROVE r.id <= x.id
    <3>1. CASE r \in acked
      <4>1. r.id \in 0..x.id BY <1>1, <3>1, AsLog DEF Ids
      <4> QED BY <1>2, <4>1
    <3> QED BY <1>2, <3>1
  <2>3. NextBlock({acked \cup {x}}) = x.id + 1 BY <2>1, <2>2, AckedIs
  <2> QED BY <1>1, <1>3, <2>3 DEF AckedLength
<1>7. CASE AckedLength = n
  <2>1. AckedLength' = AckedLength BY <1>6, <1>7
  <2> QED BY <2>1 DEF Log!vars
<1>8. CASE AckedLength # n
  <2>1. n \in (AckedLength + 1)..n /\ n \in 0..n BY <1>5, <1>8
  <2>2. Log!Promise(n) BY <1>4, <1>6, <2>1 DEF Log!Promise
  <2> QED BY <1>4, <2>1, <2>2 DEF Log!Next
<1> QED BY <1>7, <1>8

\* Giving up cuts the log at its end, not below the promise.
LEMMA LoseStep ==
  ASSUME IInv, PInv, RInv, GivingUp
  PROVE  Log!Next
<1>1. dir' \in crashDirs /\ acked' = acked BY DEF GivingUp
<1>2. PICK k \in Nat : Ids(Content(dir')) = 0..(k - 1) BY <1>1, ContentFacts
<1>3. PICK n \in Nat : Ids(Content(dir)) = 0..(n - 1) BY AsLog
<1>4. /\ Recoverable(dir') = Content(dir') /\ Content(dir') \in SUBSET Content(dir)
      /\ Content(dir') \in SUBSET Rec /\ acked \subseteq Content(dir')
  BY <1>1, ContentFacts DEF RInv, OnlyTakes, Promised
<1>5. k <= n /\ InOrder(Content(dir')) = SubSeq(InOrder(Content(dir)), 1, k)
  BY <1>2, <1>3, <1>4, AsLog, LogPrefix
<1>6. Len(InOrder(Recoverable(dir))) = n BY <1>3, AsLog, LogOf
<1>7. AckedLength \in 0..k BY <1>2, <1>4, PromiseEnds DEF RInv
<1>8. k \in AckedLength..n /\ k \in 0..n BY <1>5, <1>7
<1>9. AckedLength' = AckedLength BY <1>1 DEF AckedLength
<1>10. Log!Lose(k) BY <1>4, <1>5, <1>6, <1>8, <1>9, AsLog DEF Log!Lose
<1> QED BY <1>6, <1>8, <1>10 DEF Log!Next

\* The empty archive is the empty log.
LEMMA InitLog == Init => Log!Init
<1> SUFFICES ASSUME Init PROVE Log!Init OBVIOUS
<1>1. Recoverable(dir) = {}
  BY DEF Init, EmptyDir, NoJournal, Recoverable, Pending, ReadJournal
<1>2. \A n \in Nat : n = 0 => Ids({}) = 0..(n - 1) BY DEF Ids
<1>3. \A n \in Nat : n = 0 => Len(InOrder({})) = n /\ InOrder({}) \in Seq(Nat)
  BY <1>2, LogOf DEF OneEach
<1>4. InOrder(Recoverable(dir)) = <<>> BY <1>1, <1>3
<1>5. AckedLength = 0
  <2>1. UNION {{}} = {} OBVIOUS
  <2>2. NextBlock({{}}) = 0 BY <1>2, <2>1, NextBlockIs
  <2> QED BY <2>2 DEF Init, AckedLength
<1> QED BY <1>4, <1>5 DEF Log!Init

\* Every step of the archive is one of the log, or leaves it as it is.
LEMMA StepLog ==
  ASSUME IInv, PInv, RInv, IInv', [Next]_vars
  PROVE  [Log!Next]_(Log!vars)
<1>1. Recoverable(dir) = Content(dir) BY AsLog
<1>2. Recoverable(dir') = Content(dir')
  <2>1. dir' \in Directory /\ Safe(dir', Promised', attempt')
    BY DEF IInv, TypeOK, CrashSafe
  <2> QED BY <2>1, RecoverableIs
<1>3. CASE WriteJournal BY <1>2, <1>3, AcceptStep
<1>4. CASE Working /\ ~WriteJournal
  <2>1. Recoverable(dir') = Recoverable(dir) BY <1>1, <1>2, <1>4, ContentStep
  <2> QED BY <1>4, <2>1, LogSame, PromiseStep
<1>5. CASE GivingUp BY <1>5, LoseStep
<1>6. CASE JournalError
  <2>1. Content(dir') = Content(dir) /\ acked' = acked
    BY <1>6, JournalErrorRInv DEF JournalError, Fault
  <2> QED BY <1>1, <1>2, <2>1, LogSame
<1>7. CASE UNCHANGED vars
  <2>1. dir' = dir /\ acked' = acked BY <1>7 DEF vars, storage, client
  <2> QED BY <2>1, LogSame
<1> QED BY <1>3, <1>4, <1>5, <1>6, <1>7, NextCases

\* A step that gives up keeps the directory, but for a power loss.
LEMMA GivesUpOne ==
  ASSUME IInv, Next
  PROVE  Working \/ JournalError \/ PowerLoss \/ dir' = dir
<1>1. CASE Refuse \/ StorageError \/ Drop \/ Kill
  BY <1>1 DEF Refuse, StorageError, Drop, Kill, storage
<1>2. CASE ReturnFinished
  BY <1>2 DEF ReturnFinished, SyncDirectory
<1> QED
  BY <1>1, <1>2
  DEF Next, Step, Working, Opening, Listing, Recovering, Publication, Returning, Journalling

\* Only a power loss takes a block away.
LEMMA KeptStep ==
  ASSUME IInv, PInv, RInv, IInv', [Next]_vars
  PROVE  Recoverable(dir) \subseteq Recoverable(dir') \/ PowerLoss
<1>1. Recoverable(dir) = Content(dir) BY AsLog
<1>2. Recoverable(dir') = Content(dir')
  <2>1. dir' \in Directory /\ Safe(dir', Promised', attempt')
    BY DEF IInv, TypeOK, CrashSafe
  <2> QED BY <2>1, RecoverableIs
<1>3. CASE WriteJournal
  <2>1. /\ pc = "journal" /\ MayJournal
        /\ dir' = [dir EXCEPT !.journal = WriteRecord(OpenJournal, Incoming, JournalGrowth)]
    BY <1>3 DEF WriteJournal, Move
  <2>2. Content(dir') = Content(dir) \cup {Incoming} BY <2>1, JournalContent
  <2> QED BY <1>1, <1>2, <2>2
<1>4. CASE Working /\ ~WriteJournal BY <1>1, <1>2, <1>4, ContentStep
<1>5. CASE JournalError BY <1>1, <1>2, <1>5, JournalErrorRInv
<1>6. CASE PowerLoss BY <1>6
<1>7. CASE dir' = dir BY <1>7
<1>8. CASE UNCHANGED vars BY <1>8 DEF vars, storage
<1> QED BY <1>3, <1>4, <1>5, <1>6, <1>7, <1>8, GivesUpOne

\* ArchiveWriter is a durable log: what a reopen returns are the blocks in the order
\* of their appends, each once; only a power loss removes any, from the end, and never
\* one whose append returned Ok.
THEOREM ArchiveIsDurableLog == Spec => ImplementsDurableLog
<1>1. IInv /\ PInv /\ RInv /\ (IInv)' /\ [Next]_vars => [Log!Next]_(Log!vars)
  BY StepLog
<1>2. IInv /\ PInv /\ RInv /\ (IInv)' /\ [Next]_vars
        => [Recoverable(dir) \subseteq Recoverable(dir') \/ PowerLoss]_vars
  BY KeptStep
<1> QED BY <1>1, <1>2, InitLog, RefinementInvariance, PTL
    DEF Spec, ImplementsDurableLog, Log!Spec, LostOnlyInPowerLoss
=============================================================================
