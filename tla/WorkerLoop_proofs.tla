-------------------------- MODULE WorkerLoop_proofs --------------------------
(***************************************************************************)
(* That a worker never takes for reported what Herdr does not show, and    *)
(* that what it knows of panes and markers is true once it has handled its *)
(* events, for any number of panes, workspaces, attempts, changes, faults. *)
(*                                                                         *)
(* CacheTrue is almost inductive: lastSent only grows with shown, in       *)
(* Report, and what Herdr forgets, or takes without the worker's knowing,  *)
(* ends the stream, that only Connect opens again, with lastSent empty.    *)
(* Missing is that a pane that is yet to open has not been reported.       *)
(*                                                                         *)
(* ViewTrue speaks of a worker between two polls.  ViewInv says, of every  *)
(* point of the loop, where what the worker does not know yet is still to  *)
(* be found: in the snapshot it works through, in the events it has read   *)
(* or in those it has not.  The types of the state come last, with both.   *)
(***************************************************************************)
EXTENDS WorkerLoop, TLAPS

Shapes ==
    /\ pane \in [Panes -> {"new", "open", "closed"}]
    /\ shown \in [Keys -> Usages \cup {0}]
    /\ lastSent \in [Keys -> Usages \cup {0}]

NewUnsent == \A p \in Panes : pane[p] = "new" => lastSent[p] = 0

CacheInv == Shapes /\ NewUnsent /\ CacheTrue

\* What no step of Herdr or the worker but a few changes.
CacheVars == <<pane, shown, stream, lastSent>>

LEMMA InitCacheInv == Init => CacheInv
<1> SUFFICES ASSUME Init PROVE CacheInv
    OBVIOUS
<1>1. Shapes
    BY DEF Init, Shapes
<1>2. NewUnsent
    BY DEF Init, NewUnsent, Keys
<1>3. CacheTrue
    BY DEF Init, CacheTrue
<1> QED
    BY <1>1, <1>2, <1>3 DEF CacheInv

LEMMA SameCacheInv == ASSUME CacheInv, UNCHANGED CacheVars PROVE CacheInv'
BY DEF CacheInv, CacheVars, Shapes, NewUnsent, CacheTrue, Open, Keys

\* Without a stream nothing is asked but the shapes.
LEMMA NoStreamCacheInv ==
    ASSUME CacheInv, Shapes', stream' # "live", pane' = pane,
           \A k \in Keys : lastSent'[k] \in {0, lastSent[k]}
    PROVE  CacheInv'
BY DEF CacheInv, Shapes, NewUnsent, CacheTrue, Keys

LEMMA EmptyCacheInv ==
    ASSUME CacheInv, UNCHANGED <<pane, shown>>, lastSent' = [k \in Keys |-> 0]
    PROVE  CacheInv'
BY DEF CacheInv, Shapes, NewUnsent, CacheTrue, Keys, Open

LEMMA UnavailableCacheInv ==
    ASSUME CacheInv, NEW next, Unavailable(next), pane' = pane, shown' \in [Keys -> Usages \cup {0}]
    PROVE  CacheInv'
<1>1. stream' # "live" /\ (lastSent' = lastSent \/ lastSent' = [k \in Keys |-> 0])
    BY DEF Unavailable, Close, known
<1>2. Shapes'
    BY <1>1 DEF CacheInv, Shapes
<1>3. \A k \in Keys : lastSent'[k] \in {0, lastSent[k]}
    BY <1>1
<1> QED
    BY <1>1, <1>2, <1>3, NoStreamCacheInv

LEMMA HerdrCacheInv == ASSUME CacheInv, Herdr PROVE CacheInv'
<1>1. ASSUME NEW p \in Panes, OpenPane(p) PROVE CacheInv'
    BY <1>1 DEF OpenPane, CacheInv, Shapes, NewUnsent, CacheTrue, Open, Keys, known
<1>2. ASSUME NEW p \in Panes, ClosePane(p) PROVE CacheInv'
    <2>1. /\ pane' = [pane EXCEPT ![p] = "closed"] /\ shown' = [shown EXCEPT ![p] = 0]
          /\ lastSent' = lastSent /\ stream' = stream /\ 0 \in Usages \cup {0}
        BY <1>2 DEF ClosePane, known
    <2>2. Shapes'
        BY <2>1 DEF CacheInv, Shapes, Keys
    <2>3. NewUnsent'
        BY <2>1 DEF CacheInv, Shapes, NewUnsent
    <2>4. \A k \in Open' \cup Workspaces : k \in Open \cup Workspaces /\ shown'[k] = shown[k]
        BY <2>1, WorkerLoopAssumption DEF CacheInv, Shapes, Open, Keys
    <2>5. CacheTrue'
        BY <2>1, <2>4 DEF CacheInv, CacheTrue
    <2> QED
        BY <2>2, <2>3, <2>5 DEF CacheInv
<1>3. ASSUME NEW p \in Panes, SetMarker(p) \/ DropMarker(p) \/ OverlayExpires(p) PROVE CacheInv'
    BY <1>3, SameCacheInv DEF SetMarker, DropMarker, OverlayExpires, CacheVars, known, events
<1>4. CASE Restart
    <2>1. stream' # "live" /\ pane' = pane /\ lastSent' = lastSent
        BY <1>4 DEF Restart, known
    <2>2. Shapes'
        BY <1>4, <2>1 DEF Restart, CacheInv, Shapes
    <2> QED
        BY <2>1, <2>2, NoStreamCacheInv
<1>5. CASE DisablePlugin
    BY <1>5, SameCacheInv DEF DisablePlugin, CacheVars, known, events
<1> QED
    BY <1>1, <1>2, <1>3, <1>4, <1>5 DEF Herdr

LEMMA SyncCacheInv ==
    ASSUME CacheInv,
           SyncMarked \/ SyncUnmarked \/ SyncUnknown \/ ReportTitle \/ ClearTitle \/ SyncLost
    PROVE  CacheInv'
<1>1. CASE SyncMarked \/ SyncUnmarked \/ SyncUnknown
    BY <1>1, SameCacheInv DEF SyncMarked, SyncUnmarked, SyncUnknown, CacheVars, known, events, herdr
<1>2. CASE ReportTitle \/ ClearTitle
    BY <1>2, SameCacheInv DEF ReportTitle, ClearTitle, CacheVars, known
<1>3. CASE SyncLost
    <2>1. pane' = pane /\ shown' = shown /\ Unavailable(Behind)
        BY <1>3 DEF SyncLost, Lost
    <2> QED
        BY <2>1, UnavailableCacheInv DEF CacheInv, Shapes
<1> QED
    BY <1>1, <1>2, <1>3

LEMMA SampleCacheInv == ASSUME CacheInv, Sample PROVE CacheInv'
<1>1. ASSUME NEW p \in Panes, SampleGone(p) PROVE CacheInv'
    BY <1>1 DEF SampleGone, CacheInv, Shapes, NewUnsent, CacheTrue, Open, Keys, herdr, events
<1>2. ASSUME NEW p \in Panes, SampleSame(p) PROVE CacheInv'
    BY <1>2, SameCacheInv DEF SampleSame, CacheVars, known, events, herdr
<1>3. ASSUME NEW p \in Panes, NEW usage \in Usages, SampleReport(p, usage) PROVE CacheInv'
    <2>1. CASE Done(p) /\ Report(p, usage)
        BY <1>3, <2>1 DEF SampleReport, Done, Report, CacheInv, Shapes, NewUnsent, CacheTrue, Open, Keys
    <2>2. CASE UNCHANGED <<shown, lastSent>>
        BY <1>3, <2>2, SameCacheInv DEF SampleReport, CacheVars
    <2> QED
        BY <1>3, <2>1, <2>2 DEF SampleReport
<1>4. ASSUME NEW w \in Workspaces, NEW usage \in Usages, SampleWorkspace(w, usage) PROVE CacheInv'
    <2>1. CASE Report(w, usage)
        BY <1>4, <2>1, WorkerLoopAssumption
           DEF SampleWorkspace, Report, CacheInv, Shapes, NewUnsent, CacheTrue, Open, Keys, events
    <2>2. CASE UNCHANGED <<shown, lastSent>>
        BY <1>4, <2>2, SameCacheInv DEF SampleWorkspace, CacheVars, events
    <2> QED
        BY <1>4, <2>1, <2>2 DEF SampleWorkspace
<1>5. CASE SampleLost
    <2>1. PICK k \in todo, usage \in Usages :
              shown' = shown \/ (k \in Open \cup Workspaces /\ shown' = [shown EXCEPT ![k] = usage])
        BY <1>5 DEF SampleLost
    <2>2. shown' \in [Keys -> Usages \cup {0}]
        BY <2>1 DEF CacheInv, Shapes, Keys, Open
    <2>3. pane' = pane /\ Unavailable("plugin")
        BY <1>5 DEF SampleLost, Lost
    <2> QED
        BY <2>2, <2>3, UnavailableCacheInv
<1>6. CASE EndSample
    BY <1>6, SameCacheInv DEF EndSample, CacheVars, known, events, herdr
<1> QED
    BY <1>1, <1>2, <1>3, <1>4, <1>5, <1>6 DEF Sample

LEMMA WorkerCacheInv == ASSUME CacheInv, Worker PROVE CacheInv'
<1>1. CASE Connect
    BY <1>1, EmptyCacheInv DEF Connect, herdr
<1>2. CASE ConnectFails
    <2>1. UNCHANGED herdr /\ Unavailable(after)
        BY <1>2 DEF ConnectFails, Lost
    <2> QED
        BY <2>1, UnavailableCacheInv DEF CacheInv, Shapes, herdr
<1>3. CASE SnapshotFails
    <2>1. UNCHANGED herdr /\ Unavailable("sampling")
        BY <1>3 DEF SnapshotFails, Lost
    <2> QED
        BY <2>1, UnavailableCacheInv DEF CacheInv, Shapes, herdr
<1>4. CASE PollFails
    <2>1. UNCHANGED herdr /\ Unavailable("poll")
        BY <1>4 DEF PollFails
    <2> QED
        BY <2>1, UnavailableCacheInv DEF CacheInv, Shapes, herdr
<1>5. CASE PluginLost
    <2>1. UNCHANGED herdr /\ Unavailable("poll")
        BY <1>5 DEF PluginLost, Lost
    <2> QED
        BY <2>1, UnavailableCacheInv DEF CacheInv, Shapes, herdr
<1>6. CASE PluginGone
    BY <1>6, EmptyCacheInv DEF PluginGone, Close, herdr
<1>7. CASE TakeSnapshot \/ Marks
    BY <1>7, SameCacheInv DEF TakeSnapshot, Marks, CacheVars, known, events, herdr
<1>8. CASE \E p \in Panes : AskInfo(p) \/ NextMark(p)
    BY <1>8, SameCacheInv DEF AskInfo, NextMark, CacheVars, known, events, herdr
<1>9. CASE EndSnapshot
    BY <1>9 DEF EndSnapshot, CacheInv, Shapes, NewUnsent, CacheTrue, Open, Keys, herdr, events
<1>10. CASE Poll \/ HandleMarker \/ HandleLifecycle \/ EndPoll
    BY <1>10, SameCacheInv DEF Poll, HandleMarker, HandleLifecycle, EndPoll, CacheVars, known, events, herdr
<1>11. CASE SyncMarked \/ SyncUnmarked \/ SyncUnknown \/ ReportTitle \/ ClearTitle \/ SyncLost
    BY <1>11, SyncCacheInv
<1>12. CASE BeginSnapshot \/ BeginSample \/ NotDue
    BY <1>12, SameCacheInv DEF BeginSnapshot, BeginSample, NotDue, CacheVars, known, events, herdr
<1>13. CASE Sample
    BY <1>13, SampleCacheInv
<1> QED
    BY <1>1, <1>2, <1>3, <1>4, <1>5, <1>6, <1>7, <1>8, <1>9, <1>10, <1>11, <1>12, <1>13 DEF Worker

\* However requests fail and whenever Herdr starts again, what the worker has in last_sent and
\* last_workspace_sent, and so does not report again, is what Herdr shows.
THEOREM AlwaysCacheTrue == Spec => []CacheTrue
<1>1. CacheInv /\ [Next]_vars => CacheInv'
    <2> SUFFICES ASSUME CacheInv, [Next]_vars PROVE CacheInv'
        OBVIOUS
    <2>1. CASE Herdr
        BY <2>1, HerdrCacheInv
    <2>2. CASE Worker
        BY <2>2, WorkerCacheInv
    <2>3. CASE UNCHANGED vars
        BY <2>3, SameCacheInv DEF vars, CacheVars, herdr, events, known
    <2> QED
        BY <2>1, <2>2, <2>3 DEF Next
<1>2. CacheInv => CacheTrue
    BY DEF CacheInv
<1> QED
    BY <1>1, <1>2, InitCacheInv, PTL DEF Spec

----------------------------------------------------------------------------
(* What the worker knows of panes and markers *)

Within(s) == {s[i] : i \in DOMAIN s}
Says(p, m) == [pane |-> p, marked |-> m]
Caller == [pane : Panes, was : BOOLEAN, from : {"marks", "handle", "sample"}]

Syncing == pc \in {"sync", "title", "clear"}
BeforeSnapshot == pc \in {"connect", "snapshot"}
InMarks == pc = "marks" \/ (Syncing /\ call.from = "marks")
AfterSnapshot == ~BeforeSnapshot /\ pc # "infos" /\ ~InMarks

\* The events of a pane, and the place a call of sync_aghist_title goes back to, are what they may be.
ViewShapes ==
    /\ pane \in [Panes -> {"new", "open", "closed"}] /\ marker \subseteq Open
    /\ queue \in Seq(Event) /\ batch \in Seq(Event)
    /\ Syncing => call \in Caller
    /\ batch # <<>> => pc = "handle" \/ (Syncing /\ call.from = "handle")
    /\ after \in {"poll", "sampling", "plugin"}

Told == Lifecycle \in Within(queue)

RootsTrue ==
    /\ pc = "infos" =>
          /\ todo \cap found = {} /\ todo \cap skipped = {} /\ found \cap skipped = {}
          /\ Told \/ Open = todo \cup found \cup skipped
    /\ InMarks => found \cap skipped = {} /\ (Told \/ Open = found \cup skipped)
    /\ AfterSnapshot => Told \/ Lifecycle \in Within(batch) \/ dirty \/ roots = Open \ skipped

\* After what says that p has no marker comes what says that it has.
Corrected(s, p) ==
    \A i \in DOMAIN s : s[i] = Says(p, FALSE) => \E j \in DOMAIN s : j > i /\ s[j] = Says(p, TRUE)

MarksTold ==
    \A p \in marker :
        Corrected(queue, p) /\ (Corrected(batch, p) \/ Says(p, TRUE) \in Within(queue))

MarksKnown ==
    \A p \in marker :
        \/ BeforeSnapshot
        \/ Says(p, TRUE) \in Within(queue)
        \/ pc = "infos" /\ p \in seen
        \/ pc # "infos" /\ (p \in marked \/ Says(p, TRUE) \in Within(batch))

ViewInv == ViewShapes /\ (stream = "live" => RootsTrue /\ MarksTold /\ MarksKnown)

ViewVars == <<pane, marker, stream, queue, pc, batch, todo, call, after, roots, marked, dirty, found, seen, skipped>>

----------------------------------------------------------------------------
LEMMA Distinct ==
    /\ Lifecycle \in Event
    /\ \A p \in Panes, m \in BOOLEAN : Says(p, m) \in Event /\ Says(p, m) # Lifecycle
    /\ \A e \in Event : e # Lifecycle => e.pane \in Panes /\ e.marked \in BOOLEAN /\ e = Says(e.pane, e.marked)
    /\ \A p, q, m, n : Says(p, m) = Says(q, n) => p = q
    /\ \A p, q : Says(p, TRUE) # Says(q, FALSE) /\ Says(p, TRUE) # Lifecycle
<1>1. Lifecycle \in Event
    BY DEF Event
<1>2. \A p \in Panes, m \in BOOLEAN : Says(p, m) \in Event
    BY DEF Event, Says
<1>3. ASSUME NEW p, NEW m PROVE Says(p, m) # Lifecycle
    <2>1. "pane" \in DOMAIN Says(p, m) /\ "pane" \notin DOMAIN Lifecycle
        BY DEF Says, Lifecycle
    <2> QED
        BY <2>1
<1>4. \A e \in Event : e # Lifecycle => e.pane \in Panes /\ e.marked \in BOOLEAN /\ e = Says(e.pane, e.marked)
    BY DEF Event, Says
<1>5. \A p, q, m, n : Says(p, m) = Says(q, n) => p = q
    <2> SUFFICES ASSUME NEW p, NEW q, NEW m, NEW n, Says(p, m) = Says(q, n) PROVE p = q
        OBVIOUS
    <2>1. Says(p, m).pane = p /\ Says(q, n).pane = q
        BY DEF Says
    <2> QED
        BY <2>1
<1>6. ASSUME NEW p, NEW q PROVE Says(p, TRUE) # Says(q, FALSE)
    <2>1. Says(p, TRUE).marked = TRUE /\ Says(q, FALSE).marked = FALSE
        BY DEF Says
    <2> QED
        BY <2>1
<1> QED
    BY <1>1, <1>2, <1>3, <1>4, <1>5, <1>6

LEMMA AppendWithin ==
    ASSUME NEW s \in Seq(Event), NEW e \in Event
    PROVE  /\ Append(s, e) \in Seq(Event) /\ DOMAIN Append(s, e) = 1 .. Len(s) + 1 /\ DOMAIN s = 1 .. Len(s)
           /\ Len(s) \in Nat /\ Append(s, e)[Len(s) + 1] = e /\ \A i \in DOMAIN s : Append(s, e)[i] = s[i]
OBVIOUS

\* What was to be read still is, and what Herdr tells a worker that listens is among it.
LEMMA EmitWithin ==
    ASSUME queue \in Seq(Event), NEW e \in Event, Emit(e)
    PROVE  /\ queue' \in Seq(Event) /\ Within(queue) \subseteq Within(queue')
           /\ stream = "live" => e \in Within(queue')
<1>1. CASE queue' = Append(queue, e)
    BY <1>1, AppendWithin DEF Within
<1>2. CASE queue' = queue /\ (stream # "live" \/ \E i \in DOMAIN queue : queue[i] = e)
    BY <1>2 DEF Within
<1> QED
    BY <1>1, <1>2 DEF Emit

LEMMA EmitCorrected ==
    ASSUME queue \in Seq(Event), NEW p \in Panes, NEW e \in Event, Emit(e), stream = "live",
           (Corrected(queue, p) /\ e # Says(p, FALSE)) \/ e = Says(p, TRUE)
    PROVE  Corrected(queue', p)
<1>0. DOMAIN queue = 1 .. Len(queue) /\ Len(queue) \in Nat
    OBVIOUS
<1>1. CASE queue' = Append(queue, e)
    <2> SUFFICES ASSUME NEW i \in DOMAIN queue', queue'[i] = Says(p, FALSE)
                 PROVE  \E j \in DOMAIN queue' : j > i /\ queue'[j] = Says(p, TRUE)
        BY DEF Corrected
    <2>1. e # Says(p, FALSE)
        BY Distinct
    <2>0. i \in 1 .. Len(queue) + 1 /\ Append(queue, e)[i] = Says(p, FALSE)
        BY <1>1, AppendWithin
    <2>2. i \in DOMAIN queue /\ queue[i] = Says(p, FALSE) /\ i < Len(queue) + 1
        <3>1. i # Len(queue) + 1
            <4>1. Append(queue, e)[Len(queue) + 1] = e
                BY AppendWithin
            <4> QED
                BY <2>0, <2>1, <4>1
        <3>2. i \in 1 .. Len(queue) /\ i < Len(queue) + 1
            BY <2>0, <3>1, <1>0
        <3> QED
            BY <2>0, <3>2, <1>0, AppendWithin
    <2>3. CASE e = Says(p, TRUE)
        <3>1. Len(queue) + 1 \in DOMAIN queue' /\ queue'[Len(queue) + 1] = e
            BY <1>1, AppendWithin
        <3> QED
            BY <2>2, <2>3, <3>1
    <2>4. CASE Corrected(queue, p)
        <3>1. PICK j \in DOMAIN queue : j > i /\ queue[j] = Says(p, TRUE)
            BY <2>2, <2>4 DEF Corrected
        <3>2. j \in DOMAIN queue' /\ queue'[j] = queue[j]
            BY <1>1, AppendWithin
        <3> QED
            BY <3>1, <3>2
    <2> QED
        BY <2>3, <2>4
<1>2. CASE queue' # Append(queue, e)
    <2>1. CASE e = Says(p, TRUE)
        <3>1. e # Lifecycle /\ e.pane = p
            BY <2>1, Distinct DEF Says
        <3>2. PICK i \in DOMAIN queue :
                  /\ queue[i] = e
                  /\ \A j \in DOMAIN queue : queue[j] # Lifecycle /\ queue[j].pane = p => j <= i
            BY <1>2, <3>1 DEF Emit
        <3>3. queue' = queue
            BY <1>2 DEF Emit
        <3> SUFFICES ASSUME NEW k \in DOMAIN queue, queue[k] = Says(p, FALSE)
                     PROVE  i > k
            BY <3>2, <3>3, <2>1 DEF Corrected
        <3>4. queue[k] # Lifecycle /\ queue[k].pane = p /\ queue[k] # e
            <4>1. Says(p, FALSE).pane = p
                BY DEF Says
            <4> QED
                BY <4>1, <2>1, Distinct
        <3>5. k <= i /\ k # i
            BY <3>2, <3>4
        <3> QED
            BY <3>5, <1>0
    <2>2. CASE Corrected(queue, p)
        BY <1>2, <2>2 DEF Emit
    <2> QED
        BY <2>1, <2>2
<1> QED
    BY <1>1, <1>2

----------------------------------------------------------------------------
LEMMA InitViewInv == Init => ViewInv
<1> SUFFICES ASSUME Init PROVE ViewInv
    OBVIOUS
<1>1. ViewShapes
    BY DEF Init, ViewShapes, Syncing, Open
<1> QED
    BY <1>1 DEF Init, ViewInv

\* A change Herdr does not tell of takes markers away at most.
LEMMA SilentViewInv ==
    ASSUME ViewInv, marker' \subseteq marker,
           UNCHANGED <<pane, stream, queue, pc, batch, todo, call, after, roots, marked, dirty, found, seen, skipped>>
    PROVE  ViewInv'
<1>1. ViewShapes'
    BY DEF ViewInv, ViewShapes, Syncing, Open
<1>2. RootsTrue => RootsTrue'
    BY DEF RootsTrue, Told, Within, BeforeSnapshot, AfterSnapshot, InMarks, Syncing, Open
<1>3. MarksTold => MarksTold'
    <2> SUFFICES ASSUME MarksTold, NEW p \in marker
                 PROVE  Corrected(queue', p) /\ (Corrected(batch', p) \/ Says(p, TRUE) \in Within(queue'))
        BY DEF MarksTold, Corrected, Within
    <2> QED
        BY DEF MarksTold
<1>4. MarksKnown => MarksKnown'
    BY DEF MarksKnown, Within, BeforeSnapshot
<1> QED
    BY <1>1, <1>2, <1>3, <1>4 DEF ViewInv

LEMMA SameViewInv == ASSUME ViewInv, UNCHANGED ViewVars PROVE ViewInv'
BY SilentViewInv DEF ViewVars

\* A worker that does not listen need not know anything.
LEMMA UnavailableViewInv ==
    ASSUME ViewInv, Close \/ \E next \in {"poll", "sampling", "plugin"} : Unavailable(next), UNCHANGED <<pane, marker>>
    PROVE  ViewInv'
<1>1. /\ stream' # "live" /\ queue' = <<>> /\ batch' = <<>> /\ pc' \in {"connect", "closed"}
      /\ after' \in {"poll", "sampling", "plugin"}
    BY DEF Unavailable, Close, conn, ViewInv, ViewShapes
<1> QED
    BY <1>1 DEF ViewInv, ViewShapes, Syncing, Open

\* A change of a pane or its marker, of which Herdr tells.
LEMMA ToldViewInv ==
    ASSUME ViewInv, NEW e \in Event, Emit(e),
           UNCHANGED <<stream, pc, batch, todo, call, after, roots, marked, dirty, found, seen, skipped>>,
           pane' \in [Panes -> {"new", "open", "closed"}], marker' \subseteq Open',
           Open' = Open \/ e = Lifecycle,
           \A p \in marker' : (p \in marker /\ e # Says(p, FALSE)) \/ e = Says(p, TRUE)
    PROVE  ViewInv'
<1>0. ViewShapes /\ queue \in Seq(Event) /\ marker' \subseteq Panes
    BY DEF ViewInv, ViewShapes, Open
<1>1. /\ queue' \in Seq(Event) /\ Within(queue) \subseteq Within(queue')
      /\ stream = "live" => e \in Within(queue')
    BY <1>0, EmitWithin
<1>2. ViewShapes'
    BY <1>0, <1>1 DEF ViewShapes, Syncing
<1> SUFFICES ASSUME stream = "live" PROVE (RootsTrue /\ MarksTold /\ MarksKnown)'
    BY <1>2 DEF ViewInv
<1>3. RootsTrue /\ MarksTold /\ MarksKnown /\ e \in Within(queue')
    BY <1>1 DEF ViewInv
<1>4. RootsTrue'
    <2>1. (BeforeSnapshot' <=> BeforeSnapshot) /\ (InMarks' <=> InMarks) /\ (AfterSnapshot' <=> AfterSnapshot)
        BY DEF BeforeSnapshot, AfterSnapshot, InMarks, Syncing
    <2>2. Told' \/ (~Told /\ Open' = Open)
        BY <1>1, <1>3 DEF Told
    <2>3. CASE Told'
        BY <1>3, <2>1, <2>3 DEF RootsTrue
    <2>4. CASE ~Told /\ Open' = Open
        BY <1>3, <2>1, <2>4 DEF RootsTrue
    <2> QED
        BY <2>2, <2>3, <2>4
<1>5. MarksTold'
    <2> SUFFICES ASSUME NEW p \in marker'
                 PROVE  Corrected(queue', p) /\ (Corrected(batch, p) \/ Says(p, TRUE) \in Within(queue'))
        BY DEF MarksTold, Corrected
    <2>1. (p \in marker /\ e # Says(p, FALSE)) \/ e = Says(p, TRUE)
        OBVIOUS
    <2>2. Corrected(queue', p)
        BY <1>0, <1>3, <2>1, EmitCorrected DEF MarksTold
    <2> QED
        BY <1>1, <1>3, <2>1, <2>2 DEF MarksTold
<1>6. MarksKnown'
    <2> SUFFICES ASSUME NEW p \in marker'
                 PROVE  \/ BeforeSnapshot
                        \/ Says(p, TRUE) \in Within(queue')
                        \/ pc = "infos" /\ p \in seen
                        \/ pc # "infos" /\ (p \in marked \/ Says(p, TRUE) \in Within(batch))
        BY DEF MarksKnown, BeforeSnapshot, Within, Says
    <2> QED
        BY <1>1, <1>3 DEF MarksKnown
<1> QED
    BY <1>4, <1>5, <1>6

LEMMA HerdrViewInv == ASSUME ViewInv, Herdr PROVE ViewInv'
<1>0. ViewShapes /\ marker \subseteq Open
    BY DEF ViewInv, ViewShapes
<1>1. ASSUME NEW p \in Panes, OpenPane(p) PROVE ViewInv'
    <2>1. /\ pane' = [pane EXCEPT ![p] = "open"] /\ Emit(Lifecycle) /\ marker' = marker
          /\ UNCHANGED <<stream, pc, batch, todo, call, after, roots, marked, dirty, found, seen, skipped>>
        BY <1>1 DEF OpenPane, conn, known, local
    <2>2. pane' \in [Panes -> {"new", "open", "closed"}] /\ marker' \subseteq Open'
        BY <1>0, <2>1 DEF ViewShapes, Open
    <2>3. \A q \in marker' : q \in Panes /\ q \in marker
        BY <1>0, <2>1 DEF Open
    <2> QED
        BY <2>1, <2>2, <2>3, Distinct, ToldViewInv
<1>2. ASSUME NEW p \in Panes, ClosePane(p) PROVE ViewInv'
    <2>1. /\ pane' = [pane EXCEPT ![p] = "closed"] /\ Emit(Lifecycle) /\ marker' = marker \ {p}
          /\ UNCHANGED <<stream, pc, batch, todo, call, after, roots, marked, dirty, found, seen, skipped>>
        BY <1>2 DEF ClosePane, conn, known, local
    <2>2. pane' \in [Panes -> {"new", "open", "closed"}] /\ marker' \subseteq Open' /\ marker' \subseteq Panes
        BY <1>0, <2>1 DEF ViewShapes, Open
    <2> QED
        BY <2>1, <2>2, Distinct, ToldViewInv
<1>3. ASSUME NEW p \in Panes, SetMarker(p) PROVE ViewInv'
    <2>1. /\ pane' = pane /\ pane[p] = "open" /\ Emit(Says(p, TRUE)) /\ marker' = marker \cup {p}
          /\ UNCHANGED <<stream, pc, batch, todo, call, after, roots, marked, dirty, found, seen, skipped>>
        BY <1>3 DEF SetMarker, conn, known, local, Says
    <2>2. pane' \in [Panes -> {"new", "open", "closed"}] /\ marker' \subseteq Open' /\ Open' = Open
        BY <1>0, <2>1 DEF ViewShapes, Open
    <2> QED
        BY <2>1, <2>2, Distinct, ToldViewInv
<1>4. ASSUME NEW p \in Panes, DropMarker(p) PROVE ViewInv'
    <2>1. /\ pane' = pane /\ marker' = marker \ {p} /\ (queue' = queue \/ Emit(Says(p, FALSE)))
          /\ UNCHANGED <<stream, pc, batch, todo, call, after, roots, marked, dirty, found, seen, skipped>>
        BY <1>4 DEF DropMarker, conn, known, local, Says
    <2>2. pane' \in [Panes -> {"new", "open", "closed"}] /\ marker' \subseteq Open' /\ Open' = Open
        BY <1>0, <2>1 DEF ViewShapes, Open
    <2>3. CASE Emit(Says(p, FALSE))
        <3>1. ASSUME NEW q \in marker' PROVE q \in marker /\ Says(p, FALSE) # Says(q, FALSE)
            <4>1. Says(p, FALSE).pane = p /\ Says(q, FALSE).pane = q
                BY DEF Says
            <4> QED
                BY <2>1, <4>1
        <3>2. Says(p, FALSE) \in Event
            BY Distinct
        <3> QED
            BY <2>1, <2>2, <2>3, <3>1, <3>2, ToldViewInv
    <2>4. CASE queue' = queue
        BY <2>1, <2>4, SilentViewInv
    <2> QED
        BY <2>1, <2>3, <2>4
<1>5. ASSUME NEW p \in Panes, OverlayExpires(p) PROVE ViewInv'
    BY <1>5, SameViewInv DEF OverlayExpires, ViewVars, conn, known, events, local
<1>6. CASE Restart
    <2>1. /\ pane' = pane /\ marker' = {} /\ stream' # "live"
          /\ UNCHANGED <<queue, pc, batch, call, after>>
        BY <1>6 DEF Restart, conn
    <2> QED
        BY <2>1 DEF ViewInv, ViewShapes, Syncing, Open
<1>7. CASE DisablePlugin
    BY <1>7, SameViewInv DEF DisablePlugin, ViewVars, conn, known, events, local
<1> QED
    BY <1>1, <1>2, <1>3, <1>4, <1>5, <1>6, <1>7 DEF Herdr

----------------------------------------------------------------------------
\* The worker goes on with the events it has.
LEMMA GoOnViewInv ==
    ASSUME ViewInv, UNCHANGED <<pane, marker, stream, queue, batch>>, after' \in {"poll", "sampling", "plugin"},
           Syncing' => call' \in Caller,
           batch # <<>> => pc' = "handle" \/ (Syncing' /\ call'.from = "handle"),
           stream = "live" /\ RootsTrue /\ MarksTold /\ MarksKnown => RootsTrue' /\ MarksKnown'
    PROVE  ViewInv'
<1>1. ViewShapes'
    BY DEF ViewInv, ViewShapes, Open
<1>2. MarksTold => MarksTold'
    <2> SUFFICES ASSUME MarksTold, NEW p \in marker
                 PROVE  Corrected(queue', p) /\ (Corrected(batch', p) \/ Says(p, TRUE) \in Within(queue'))
        BY DEF MarksTold, Corrected, Within
    <2> QED
        BY DEF MarksTold
<1> QED
    BY <1>1, <1>2 DEF ViewInv

\* A step within a phase keeps what is known, unless it forgets a pane that has the marker.
LEMMA SamePhase ==
    ASSUME UNCHANGED <<pane, marker, batch, roots, dirty, skipped, found>>,
           Within(queue) \subseteq Within(queue'),
           (InMarks /\ InMarks') \/ (AfterSnapshot /\ AfterSnapshot'),
           \A p \in marker \cap marked : p \in marked' \/ Says(p, TRUE) \in Within(queue'),
           RootsTrue, MarksKnown
    PROVE  RootsTrue' /\ MarksKnown'
<1>1. Told => Told'
    BY DEF Told
<1>2. RootsTrue'
    BY <1>1 DEF RootsTrue, AfterSnapshot, InMarks, Syncing, Within, Open
<1>3. MarksKnown'
    BY DEF MarksKnown, AfterSnapshot, InMarks, BeforeSnapshot, Syncing, Within, Says
<1> QED
    BY <1>2, <1>3

LEMMA LostViewInv ==
    ASSUME ViewInv,
           ConnectFails \/ SnapshotFails \/ PollFails \/ PluginLost \/ SyncLost \/ SampleLost \/ PluginGone
    PROVE  ViewInv'
<1>1. after \in {"poll", "sampling", "plugin"} /\ Behind \in {"poll", "sampling", "plugin"}
    BY DEF ViewInv, ViewShapes, Behind
<1>2. (Close \/ \E next \in {"poll", "sampling", "plugin"} : Unavailable(next)) /\ UNCHANGED <<pane, marker>>
    BY <1>1 DEF ConnectFails, SnapshotFails, PollFails, PluginLost, SyncLost, SampleLost, PluginGone, Lost, herdr
<1> QED
    BY <1>2, UnavailableViewInv

LEMMA ConnectViewInv == ASSUME ViewInv, Connect PROVE ViewInv'
<1>1. /\ UNCHANGED <<pane, marker, batch, after>> /\ queue' = <<>> /\ pc' = "snapshot" /\ pc = "connect"
    BY DEF Connect, herdr, conn
<1>2. batch = <<>> /\ ViewShapes'
    BY <1>1 DEF ViewInv, ViewShapes, Syncing, Open
<1>3. RootsTrue' /\ MarksKnown'
    BY <1>1 DEF RootsTrue, MarksKnown, BeforeSnapshot, AfterSnapshot, InMarks, Syncing
<1>4. \A p : Corrected(queue', p) /\ Corrected(batch', p)
    BY <1>1, <1>2 DEF Corrected
<1> QED
    BY <1>2, <1>3, <1>4 DEF ViewInv, MarksTold

LEMMA SnapshotViewInv ==
    ASSUME ViewInv, TakeSnapshot \/ \E p \in Panes : AskInfo(p)
    PROVE  ViewInv'
<1>0. marker \subseteq Open
    BY DEF ViewInv, ViewShapes
<1>1. CASE TakeSnapshot
    <2>1. /\ UNCHANGED <<pane, marker, stream, after, queue, batch>> /\ pc = "snapshot" /\ pc' = "infos"
          /\ todo' = Open /\ seen' = marker \cap Open /\ found' = {} /\ skipped' = {}
        BY <1>1 DEF TakeSnapshot, herdr, conn, events
    <2>2. RootsTrue' /\ MarksKnown'
        BY <1>0, <2>1 DEF RootsTrue, MarksKnown, AfterSnapshot, InMarks, Syncing, Open
    <2> QED
        BY <2>1, <2>2, GoOnViewInv DEF ViewInv, ViewShapes, Syncing
<1>2. ASSUME NEW p \in Panes, AskInfo(p) PROVE ViewInv'
    <2>1. /\ UNCHANGED <<pane, marker, stream, after, queue, batch, pc, seen>> /\ pc = "infos" /\ p \in todo
          /\ todo' = todo \ {p}
          /\ \/ found' = found \cup {p} /\ skipped' = skipped
             \/ skipped' = skipped \cup {p} /\ found' = found
        BY <1>2 DEF AskInfo, herdr, conn, events, known
    <2>2. RootsTrue => RootsTrue'
        BY <2>1 DEF RootsTrue, AfterSnapshot, InMarks, Syncing, Open, Told, Within
    <2>3. MarksKnown => MarksKnown'
        BY <2>1 DEF MarksKnown, BeforeSnapshot, Within
    <2> QED
        BY <2>1, <2>2, <2>3, GoOnViewInv DEF ViewInv, ViewShapes, Syncing
<1> QED
    BY <1>1, <1>2

LEMMA MarksViewInv ==
    ASSUME ViewInv, Marks \/ EndSnapshot \/ \E p \in Panes : NextMark(p)
    PROVE  ViewInv'
<1>1. CASE Marks
    <2>1. /\ UNCHANGED <<pane, marker, stream, after, queue, batch, found, skipped>> /\ pc = "infos" /\ pc' = "marks"
          /\ todo = {} /\ marked' = seen
        BY <1>1 DEF Marks, herdr, conn, events
    <2>2. RootsTrue => RootsTrue'
        BY <2>1 DEF RootsTrue, AfterSnapshot, InMarks, Syncing, Open, Told, Within
    <2>3. MarksKnown => MarksKnown'
        BY <2>1 DEF MarksKnown, BeforeSnapshot, Within
    <2> QED
        BY <2>1, <2>2, <2>3, GoOnViewInv DEF ViewInv, ViewShapes, Syncing
<1>2. CASE EndSnapshot
    <2>1. /\ UNCHANGED <<pane, marker, stream, after, queue, batch, skipped, marked>> /\ pc = "marks"
          /\ pc' \in {"sampling", "poll"} /\ roots' = found
        BY <1>2 DEF EndSnapshot, herdr, conn, events
    <2>2. RootsTrue => RootsTrue'
        BY <2>1 DEF RootsTrue, AfterSnapshot, InMarks, Syncing, Open, Told, Within
    <2>3. MarksKnown => MarksKnown'
        BY <2>1 DEF MarksKnown, BeforeSnapshot, Within
    <2> QED
        BY <2>1, <2>2, <2>3, GoOnViewInv DEF ViewInv, ViewShapes, Syncing
<1>3. ASSUME NEW p \in Panes, NextMark(p) PROVE ViewInv'
    <2>1. /\ UNCHANGED <<pane, marker, stream, after, queue, batch, skipped, found, marked>> /\ pc = "marks"
          /\ pc' = "sync" /\ \E was \in BOOLEAN : call' = [pane |-> p, was |-> was, from |-> "marks"]
        BY <1>3 DEF NextMark, Sync, herdr, conn, events, known
    <2>4. call' \in Caller /\ call'.from = "marks"
        BY <2>1 DEF Caller
    <2>2. RootsTrue => RootsTrue'
        BY <2>1, <2>4 DEF RootsTrue, AfterSnapshot, InMarks, Syncing, Open, Told, Within
    <2>3. MarksKnown => MarksKnown'
        BY <2>1, <2>4 DEF MarksKnown, BeforeSnapshot, Within
    <2> QED
        BY <2>1, <2>2, <2>3, <2>4, GoOnViewInv DEF ViewInv, ViewShapes, Syncing
<1> QED
    BY <1>1, <1>2, <1>3

----------------------------------------------------------------------------
LEMMA TailWithin ==
    ASSUME NEW s \in Seq(Event), s # <<>>
    PROVE  /\ Tail(s) \in Seq(Event) /\ Head(s) \in Event /\ Within(s) = {Head(s)} \cup Within(Tail(s))
<1>1. /\ Len(s) \in Nat \ {0} /\ DOMAIN s = 1 .. Len(s) /\ DOMAIN Tail(s) = 1 .. Len(s) - 1
      /\ Head(s) = s[1] /\ \A i \in DOMAIN Tail(s) : Tail(s)[i] = s[i + 1]
      /\ Tail(s) \in Seq(Event) /\ Head(s) \in Event /\ 1 \in DOMAIN s
    OBVIOUS
<1>2. \A i \in DOMAIN s : i = 1 \/ (i - 1 \in DOMAIN Tail(s) /\ s[i] = Tail(s)[i - 1])
    BY <1>1
<1>3. \A i \in DOMAIN Tail(s) : i + 1 \in DOMAIN s /\ s[i + 1] = Tail(s)[i]
    BY <1>1
<1>4. Within(s) = {Head(s)} \cup Within(Tail(s))
    <2>1. ASSUME NEW e \in Within(s) PROVE e \in {Head(s)} \cup Within(Tail(s))
        <3>1. PICK i \in DOMAIN s : s[i] = e
            BY <2>1 DEF Within
        <3> QED
            BY <3>1, <1>1, <1>2 DEF Within
    <2>2. ASSUME NEW e \in {Head(s)} \cup Within(Tail(s)) PROVE e \in Within(s)
        <3>1. CASE e = s[1]
            BY <3>1, <1>1 DEF Within
        <3>2. CASE e \in Within(Tail(s))
            <4>1. PICK i \in DOMAIN Tail(s) : Tail(s)[i] = e
                BY <3>2 DEF Within
            <4> QED
                BY <4>1, <1>3 DEF Within
        <3> QED
            BY <2>2, <3>1, <3>2, <1>1
    <2> QED
        BY <2>1, <2>2
<1> QED
    BY <1>1, <1>4

LEMMA TailCorrected ==
    ASSUME NEW s \in Seq(Event), s # <<>>, NEW p, Corrected(s, p)
    PROVE  Corrected(Tail(s), p) /\ (Head(s) = Says(p, FALSE) => Says(p, TRUE) \in Within(Tail(s)))
<1>1. /\ Len(s) \in Nat \ {0} /\ DOMAIN s = 1 .. Len(s) /\ DOMAIN Tail(s) = 1 .. Len(s) - 1
      /\ Head(s) = s[1] /\ \A i \in DOMAIN Tail(s) : Tail(s)[i] = s[i + 1]
      /\ Tail(s) \in Seq(Event) /\ Head(s) \in Event /\ 1 \in DOMAIN s
    OBVIOUS
<1>2. \A i \in DOMAIN s : i = 1 \/ (i - 1 \in DOMAIN Tail(s) /\ s[i] = Tail(s)[i - 1])
    BY <1>1
<1>3. \A i \in DOMAIN Tail(s) : i + 1 \in DOMAIN s /\ s[i + 1] = Tail(s)[i]
    BY <1>1
<1>4. ASSUME NEW i \in DOMAIN s, s[i] = Says(p, FALSE)
      PROVE  \E j \in DOMAIN Tail(s) : j > i - 1 /\ Tail(s)[j] = Says(p, TRUE)
    <2>1. PICK j \in DOMAIN s : j > i /\ s[j] = Says(p, TRUE)
        BY <1>4 DEF Corrected
    <2>2. j # 1 /\ j - 1 > i - 1
        BY <1>1, <2>1
    <2> QED
        BY <1>2, <2>1, <2>2
<1>5. ASSUME NEW i \in DOMAIN Tail(s), Tail(s)[i] = Says(p, FALSE)
      PROVE  \E j \in DOMAIN Tail(s) : j > i /\ Tail(s)[j] = Says(p, TRUE)
    <2>1. i \in Nat /\ (i + 1) - 1 = i
        BY <1>1
    <2>2. i + 1 \in DOMAIN s /\ s[i + 1] = Says(p, FALSE)
        BY <1>3, <1>5
    <2> QED
        BY <1>4, <1>5, <2>1, <2>2
<1>6. ASSUME Head(s) = Says(p, FALSE)
      PROVE  Says(p, TRUE) \in Within(Tail(s))
    <2>1. 1 \in DOMAIN s /\ s[1] = Says(p, FALSE)
        BY <1>1, <1>6
    <2> QED
        BY <1>4, <1>6, <2>1 DEF Within
<1> QED
    BY <1>5, <1>6 DEF Corrected

LEMMA EventsViewInv ==
    ASSUME ViewInv, Poll \/ HandleLifecycle \/ HandleMarker \/ EndPoll
    PROVE  ViewInv'
<1>0. /\ queue \in Seq(Event) /\ batch \in Seq(Event) /\ marker \subseteq Open /\ marker \subseteq Panes
      /\ pane \in [Panes -> {"new", "open", "closed"}] /\ after \in {"poll", "sampling", "plugin"}
      /\ \A p \in marker : Corrected(batch, p) /\ batch # <<>> => Corrected(Tail(batch), p)
    BY TailCorrected DEF ViewInv, ViewShapes, Open
<1>1. CASE Poll
    <2>1. /\ UNCHANGED <<pane, marker, stream, after, roots, marked, dirty, skipped>> /\ pc = "poll" /\ pc' = "handle"
          /\ batch' = queue /\ queue' = <<>>
        BY <1>1 DEF Poll, herdr, conn, known, local
    <2>2. batch = <<>> /\ ViewShapes' /\ Within(batch) = {}
        BY <1>0, <2>1 DEF ViewInv, ViewShapes, Syncing, Open, Within
    <2>3. RootsTrue => RootsTrue'
        BY <2>1, <2>2 DEF RootsTrue, AfterSnapshot, BeforeSnapshot, InMarks, Syncing, Open, Told, Within
    <2>4. MarksKnown => MarksKnown'
        BY <2>1, <2>2 DEF MarksKnown, BeforeSnapshot, Within, Says
    <2>5. MarksTold => MarksTold'
        <3>1. \A p : Corrected(queue', p) /\ (Corrected(batch', p) <=> Corrected(queue, p))
            BY <2>1 DEF Corrected
        <3> QED
            BY <2>1, <3>1 DEF MarksTold
    <2> QED
        BY <2>1, <2>2, <2>3, <2>4, <2>5 DEF ViewInv
<1>2. CASE HandleLifecycle
    <2>1. /\ UNCHANGED <<pane, marker, stream, after, queue, roots, marked, skipped, pc, call>> /\ pc = "handle"
          /\ dirty' = TRUE /\ batch # <<>> /\ batch' = Tail(batch) /\ Head(batch) = Lifecycle
        BY <1>2 DEF HandleLifecycle, herdr, conn, events, local
    <2>2. ViewShapes'
        BY <1>0, <2>1, TailWithin DEF ViewShapes, Syncing, Open
    <2>3. RootsTrue'
        BY <2>1 DEF RootsTrue, InMarks, Syncing
    <2>4. ASSUME NEW p \in marker, Says(p, TRUE) \in Within(batch) PROVE Says(p, TRUE) \in Within(batch')
        BY <1>0, <2>1, <2>4, TailWithin, Distinct
    <2>5. MarksKnown => MarksKnown'
        BY <2>1, <2>4 DEF MarksKnown, BeforeSnapshot, Within, Says
    <2>6. MarksTold => MarksTold'
        <3> SUFFICES ASSUME MarksTold, NEW p \in marker
                     PROVE  Corrected(queue', p) /\ (Corrected(batch', p) \/ Says(p, TRUE) \in Within(queue'))
            BY <2>1 DEF MarksTold, Corrected, Within
        <3>1. Corrected(batch, p) => Corrected(batch', p)
            BY <1>0, <2>1
        <3> QED
            BY <2>1, <3>1 DEF MarksTold
    <2> QED
        BY <2>1, <2>2, <2>3, <2>5, <2>6 DEF ViewInv
<1>3. CASE HandleMarker
    <2>1. /\ UNCHANGED <<pane, marker, stream, after, queue, roots, dirty, skipped>> /\ pc = "handle"
          /\ batch # <<>> /\ batch' = Tail(batch) /\ Head(batch) # Lifecycle
        BY <1>3 DEF HandleMarker, herdr, conn, events, local
    <2>2. PICK p \in Panes, m \in BOOLEAN : Head(batch) = Says(p, m) /\ p = Head(batch).pane /\ m = Head(batch).marked
        BY <1>0, <2>1, TailWithin, Distinct
    <2>3. \/ UNCHANGED <<pc, call, marked>> /\ m = (p \in marked)
          \/ /\ marked' = (IF m THEN marked \cup {p} ELSE marked \ {p})
             /\ pc' = "sync" /\ call' = [pane |-> p, was |-> p \in marked, from |-> "handle"]
        BY <1>3, <2>2 DEF HandleMarker, Sync
    <2>4. UNCHANGED <<pc, call, marked>> \/ (pc' = "sync" /\ call' \in Caller /\ call'.from = "handle")
        <3>1. \A was \in BOOLEAN : [pane |-> p, was |-> was, from |-> "handle"] \in Caller
            BY DEF Caller
        <3>2. (p \in marked) \in BOOLEAN
            OBVIOUS
        <3>3. [pane |-> p, was |-> p \in marked, from |-> "handle"] \in Caller
            BY <3>1, <3>2, Zenon
        <3>4. [pane |-> p, was |-> p \in marked, from |-> "handle"].from = "handle"
            OBVIOUS
        <3> QED
            BY <2>3, <3>3, <3>4, Zenon
    <2>5. ViewShapes'
        BY <1>0, <2>1, <2>4, TailWithin DEF ViewShapes, Syncing, Open
    <2>6. RootsTrue => RootsTrue'
        <3>1. Lifecycle \in Within(batch) => Lifecycle \in Within(batch')
            BY <1>0, <2>1, TailWithin
        <3> QED
            BY <2>1, <2>4, <3>1 DEF RootsTrue, AfterSnapshot, BeforeSnapshot, InMarks, Syncing, Open, Told, Within
    <2>7. MarksTold => MarksTold'
        <3> SUFFICES ASSUME MarksTold, NEW q \in marker
                     PROVE  Corrected(queue', q) /\ (Corrected(batch', q) \/ Says(q, TRUE) \in Within(queue'))
            BY <2>1 DEF MarksTold, Corrected, Within
        <3>1. Corrected(batch, q) => Corrected(batch', q)
            BY <1>0, <2>1
        <3> QED
            BY <2>1, <3>1 DEF MarksTold
    <2>8. ASSUME MarksKnown, MarksTold PROVE MarksKnown'
        <3>1. ASSUME NEW q \in marker
              PROVE  q \in marked' \/ Says(q, TRUE) \in Within(queue) \cup Within(batch')
            <4>1. q \in marked \/ Says(q, TRUE) \in Within(queue) \cup Within(batch)
                BY <2>1, <2>8 DEF MarksKnown, BeforeSnapshot
            <4>2. CASE q = p /\ m = FALSE
                <5>1. Corrected(batch, p) \/ Says(p, TRUE) \in Within(queue)
                    BY <2>8, <4>2 DEF MarksTold
                <5>2. Head(batch) = Says(p, FALSE)
                    BY <2>2, <4>2
                <5>3. Corrected(batch, p) => Says(p, TRUE) \in Within(Tail(batch))
                    BY <1>0, <2>1, <5>2, TailCorrected
                <5> QED
                    BY <2>1, <4>2, <5>1, <5>3
            <4>3. CASE q = p /\ m = TRUE
                BY <2>3, <4>3
            <4>4. CASE q # p
                <5>1. q \in marked => q \in marked'
                    BY <2>3, <4>4
                <5>2. Says(q, TRUE) # Head(batch)
                    <6>1. Says(q, TRUE).pane = q
                        BY DEF Says
                    <6> QED
                        BY <2>2, <4>4, <6>1
                <5> QED
                    BY <1>0, <2>1, <4>1, <5>1, <5>2, TailWithin
            <4> QED
                BY <4>2, <4>3, <4>4
        <3> QED
            BY <2>1, <2>4, <3>1 DEF MarksKnown, BeforeSnapshot, Within, Says
    <2> QED
        BY <2>1, <2>5, <2>6, <2>7, <2>8 DEF ViewInv
<1>4. CASE EndPoll
    <2>1. /\ UNCHANGED <<pane, marker, stream, queue, batch, roots, marked, dirty, skipped, found>>
          /\ pc = "handle" /\ batch = <<>> /\ pc' \in {"refresh", "poll", "sampling", "plugin"} /\ after' = "poll"
        BY <1>4 DEF EndPoll, ViewInv, ViewShapes, herdr, events, known, local
    <2> QED
        BY <2>1, GoOnViewInv, SamePhase DEF AfterSnapshot, BeforeSnapshot, InMarks, Syncing
<1> QED
    BY <1>1, <1>2, <1>3, <1>4

----------------------------------------------------------------------------
\* A report, after which Herdr tells of its pane with the marker it has.
LEMMA UpdatedViewInv ==
    ASSUME ViewInv, NEW p \in Panes, Updated(p), UNCHANGED <<pane, marker, stream, batch>>,
           after' \in {"poll", "sampling", "plugin"},
           Syncing' => call' \in Caller,
           batch # <<>> => pc' = "handle" \/ (Syncing' /\ call'.from = "handle"),
           /\ stream = "live" /\ RootsTrue /\ MarksTold /\ MarksKnown
           /\ Within(queue) \subseteq Within(queue') /\ (p \in marker => Says(p, TRUE) \in Within(queue'))
           => RootsTrue' /\ MarksKnown'
    PROVE  ViewInv'
<1>0. queue \in Seq(Event) /\ marker \subseteq Panes
    BY DEF ViewInv, ViewShapes, Open
<1>1. PICK e : e = Says(p, p \in marker)
    OBVIOUS
<1>2. (p \in marker => e = Says(p, TRUE)) /\ (p \notin marker => e = Says(p, FALSE))
    <2>1. (p \in marker => (p \in marker) = TRUE) /\ (p \notin marker => (p \in marker) = FALSE)
        OBVIOUS
    <2> QED
        BY <1>1, <2>1, Zenon
<1>3. e \in Event /\ Emit(e)
    BY <1>1, <1>2, Distinct DEF Updated, Says
<1>4. /\ queue' \in Seq(Event) /\ Within(queue) \subseteq Within(queue')
      /\ stream = "live" => e \in Within(queue')
    BY <1>0, <1>3, EmitWithin
<1>5. ViewShapes'
    BY <1>4 DEF ViewInv, ViewShapes, Open
<1>6. ASSUME stream = "live", MarksTold PROVE MarksTold'
    <2> SUFFICES ASSUME NEW q \in marker
                 PROVE  Corrected(queue', q) /\ (Corrected(batch, q) \/ Says(q, TRUE) \in Within(queue'))
        BY DEF MarksTold, Corrected
    <2>1. Corrected(queue, q) /\ (Corrected(batch, q) \/ Says(q, TRUE) \in Within(queue'))
        BY <1>4, <1>6 DEF MarksTold
    <2>2. e # Says(q, FALSE) \/ e = Says(q, TRUE)
        <3>1. Says(p, FALSE).pane = p /\ Says(q, FALSE).pane = q
            BY DEF Says
        <3> QED
            BY <1>2, <3>1, Distinct
    <2>3. Corrected(queue', q)
        BY <1>0, <1>3, <1>6, <2>1, <2>2, EmitCorrected
    <2> QED
        BY <2>1, <2>3
<1> QED
    BY <1>2, <1>4, <1>5, <1>6 DEF ViewInv

\* Where sync_aghist_title goes back to.
LEMMA ReturnPhase ==
    ASSUME ViewInv, Syncing, Return
    PROVE  /\ call.pane \in Panes /\ ~Syncing'
           /\ (InMarks /\ InMarks') \/ (AfterSnapshot /\ AfterSnapshot')
           /\ batch # <<>> => pc' = "handle"
<1>1. call \in Caller /\ pc' = call.from
    BY DEF ViewInv, ViewShapes, Return
<1>2. call.pane \in Panes /\ call.from \in {"marks", "handle", "sample"}
    BY <1>1 DEF Caller
<1>3. batch # <<>> => call.from = "handle"
    BY DEF ViewInv, ViewShapes, Syncing
<1> QED
    BY <1>1, <1>2, <1>3 DEF Syncing, InMarks, AfterSnapshot, BeforeSnapshot

LEMMA SyncViewInv ==
    ASSUME ViewInv, SyncMarked \/ SyncUnmarked \/ SyncUnknown \/ ReportTitle \/ ClearTitle
    PROVE  ViewInv'
<1>0. Syncing /\ after \in {"poll", "sampling", "plugin"} /\ call \in Caller
    BY DEF SyncMarked, SyncUnmarked, SyncUnknown, ReportTitle, ClearTitle, Syncing, ViewInv, ViewShapes
<1>1. ASSUME Syncing', UNCHANGED call
      PROVE  /\ (InMarks /\ InMarks') \/ (AfterSnapshot /\ AfterSnapshot')
             /\ batch # <<>> => pc' = "handle" \/ (Syncing' /\ call'.from = "handle")
    BY <1>0, <1>1 DEF ViewInv, ViewShapes, Syncing, InMarks, AfterSnapshot, BeforeSnapshot
<1>2. CASE SyncMarked
    <2>1. /\ UNCHANGED <<pane, marker, stream, queue, batch, after, call, roots, dirty, skipped, found>>
          /\ marked' = marked \cup {call.pane} /\ pc' = "title"
        BY <1>2 DEF SyncMarked, herdr, events, conn, local
    <2>2. Syncing' /\ Within(queue) \subseteq Within(queue')
        BY <2>1 DEF Syncing
    <2>3. RootsTrue /\ MarksKnown => RootsTrue' /\ MarksKnown'
        BY <1>1, <2>1, <2>2, SamePhase
    <2> QED
        BY <1>0, <1>1, <2>1, <2>2, <2>3, GoOnViewInv
<1>3. CASE SyncUnmarked
    <2>1. /\ UNCHANGED <<pane, marker, stream, queue, batch, after, roots, dirty, skipped, found>>
          /\ call.pane \notin marker
          /\ \/ pc' = "clear" /\ UNCHANGED call
             \/ Return
          /\ \A p \in marker \cap marked : p \in marked'
        BY <1>3 DEF SyncUnmarked, herdr, events, conn, local
    <2>2. /\ (InMarks /\ InMarks') \/ (AfterSnapshot /\ AfterSnapshot')
          /\ batch # <<>> => pc' = "handle" \/ (Syncing' /\ call'.from = "handle")
          /\ Syncing' => call' \in Caller
        <3>1. CASE pc' = "clear" /\ UNCHANGED call
            <4>1. Syncing'
                BY <3>1 DEF Syncing
            <4> QED
                BY <1>0, <1>1, <3>1, <4>1
        <3>2. CASE Return
            BY <1>0, <3>2, ReturnPhase
        <3> QED
            BY <2>1, <3>1, <3>2
    <2>3. RootsTrue /\ MarksKnown => RootsTrue' /\ MarksKnown'
        BY <2>1, <2>2, SamePhase
    <2> QED
        BY <1>0, <2>1, <2>2, <2>3, GoOnViewInv
<1>4. CASE SyncUnknown
    <2>1. /\ UNCHANGED <<pane, marker, stream, queue, batch, after, roots, marked, dirty, skipped, found>> /\ Return
        BY <1>4 DEF SyncUnknown, herdr, events, conn, known, local
    <2>2. /\ (InMarks /\ InMarks') \/ (AfterSnapshot /\ AfterSnapshot')
          /\ (batch # <<>> => pc' = "handle") /\ ~Syncing'
        BY <1>0, <2>1, ReturnPhase
    <2>3. RootsTrue /\ MarksKnown => RootsTrue' /\ MarksKnown'
        BY <2>1, <2>2, SamePhase
    <2> QED
        BY <1>0, <2>1, <2>2, <2>3, GoOnViewInv
<1>5. CASE ReportTitle \/ ClearTitle
    <2>1. /\ UNCHANGED <<pane, marker, stream, batch, after, roots, dirty, skipped, found>> /\ Return
          /\ \/ Updated(call.pane) /\ marked' \in {marked, marked \ {call.pane}}
             \/ queue' = queue /\ marked' = marked
        BY <1>5 DEF ReportTitle, ClearTitle, conn, known, local
    <2>2. /\ (InMarks /\ InMarks') \/ (AfterSnapshot /\ AfterSnapshot')
          /\ (batch # <<>> => pc' = "handle") /\ ~Syncing' /\ call.pane \in Panes
        BY <1>0, <2>1, ReturnPhase
    <2>3. CASE queue' = queue /\ marked' = marked
        <3>1. RootsTrue /\ MarksKnown => RootsTrue' /\ MarksKnown'
            BY <2>1, <2>2, <2>3, SamePhase
        <3> QED
            BY <1>0, <2>1, <2>2, <2>3, <3>1, GoOnViewInv
    <2>4. CASE Updated(call.pane) /\ marked' \in {marked, marked \ {call.pane}}
        <3>1. ASSUME RootsTrue, MarksKnown, Within(queue) \subseteq Within(queue'),
                     call.pane \in marker => Says(call.pane, TRUE) \in Within(queue')
              PROVE  RootsTrue' /\ MarksKnown'
            BY <2>1, <2>2, <2>4, <3>1, SamePhase
        <3> QED
            BY <1>0, <2>1, <2>2, <2>4, <3>1, UpdatedViewInv
    <2> QED
        BY <2>1, <2>3, <2>4
<1> QED
    BY <1>2, <1>3, <1>4, <1>5

LEMMA LoopViewInv ==
    ASSUME ViewInv, BeginSnapshot \/ BeginSample \/ NotDue
    PROVE  ViewInv'
<1>1. CASE BeginSnapshot
    <2>1. /\ UNCHANGED <<pane, marker, stream, queue, batch, after>> /\ pc = "refresh" /\ pc' = "snapshot"
        BY <1>1 DEF BeginSnapshot, herdr, events, conn
    <2>2. RootsTrue' /\ MarksKnown'
        BY <2>1 DEF RootsTrue, MarksKnown, AfterSnapshot, BeforeSnapshot, InMarks, Syncing
    <2> QED
        BY <2>1, <2>2, GoOnViewInv DEF ViewInv, ViewShapes, Syncing
<1>2. CASE BeginSample \/ NotDue
    <2>1. /\ UNCHANGED <<pane, marker, stream, queue, batch, after, roots, marked, dirty, skipped, found>>
          /\ pc \in {"refresh", "sampling", "plugin"} /\ pc' \in {"sample", "sampling", "plugin", "poll"}
        BY <1>2 DEF BeginSample, NotDue, herdr, events, conn, known, local
    <2>2. RootsTrue /\ MarksKnown => RootsTrue' /\ MarksKnown'
        BY <2>1, SamePhase DEF AfterSnapshot, BeforeSnapshot, InMarks, Syncing
    <2> QED
        BY <2>1, <2>2, GoOnViewInv DEF ViewInv, ViewShapes, Syncing
<1> QED
    BY <1>1, <1>2

LEMMA AndSyncPhase ==
    ASSUME pc = "sample", NEW p \in Panes, AndSync(p)
    PROVE  AfterSnapshot /\ AfterSnapshot' /\ (Syncing' => call' \in Caller)
<1>1. UNCHANGED <<pc, call>> \/ (pc' = "sync" /\ call' = [pane |-> p, was |-> TRUE, from |-> "sample"])
    BY DEF AndSync, Sync
<1>2. PICK to : to = [pane |-> p, was |-> TRUE, from |-> "sample"]
    OBVIOUS
<1>3. to \in Caller /\ to.from = "sample"
    BY <1>2 DEF Caller
<1>4. UNCHANGED <<pc, call>> \/ (pc' = "sync" /\ call' = to)
    BY <1>1, <1>2
<1> QED
    BY <1>3, <1>4 DEF AfterSnapshot, BeforeSnapshot, InMarks, Syncing

LEMMA SampleViewInv == ASSUME ViewInv, Sample, ~SampleLost PROVE ViewInv'
<1>0. ASSUME pc = "sample" PROVE batch = <<>> /\ after \in {"poll", "sampling", "plugin"}
    BY <1>0 DEF ViewInv, ViewShapes, Syncing
<1>1. ASSUME NEW p \in Panes, SampleGone(p) \/ SampleSame(p) \/ \E usage \in Usages : SampleReport(p, usage)
      PROVE  ViewInv'
    <2>1. /\ UNCHANGED <<pane, marker, stream, batch, after, roots, marked, dirty, skipped, found>>
          /\ pc = "sample" /\ AndSync(p) /\ (queue' = queue \/ Updated(p))
        BY <1>1 DEF SampleGone, SampleSame, SampleReport, herdr, events, conn, known, local
    <2>2. AfterSnapshot /\ AfterSnapshot' /\ (Syncing' => call' \in Caller)
        BY <2>1, AndSyncPhase
    <2>3. ASSUME RootsTrue, MarksKnown, Within(queue) \subseteq Within(queue')
          PROVE  RootsTrue' /\ MarksKnown'
        BY <2>1, <2>2, <2>3, SamePhase
    <2>4. CASE queue' = queue
        BY <1>0, <2>1, <2>2, <2>3, <2>4, GoOnViewInv
    <2>5. CASE Updated(p)
        BY <1>0, <2>1, <2>2, <2>3, <2>5, UpdatedViewInv
    <2> QED
        BY <2>1, <2>4, <2>5
<1>2. CASE EndSample \/ \E w \in Workspaces, usage \in Usages : SampleWorkspace(w, usage)
    <2>1. /\ UNCHANGED <<pane, marker, stream, queue, batch, after, call, roots, marked, dirty, skipped, found>>
          /\ pc = "sample" /\ pc' \in {"sample", "plugin"}
        BY <1>2 DEF EndSample, SampleWorkspace, herdr, events, conn, known, local
    <2>2. AfterSnapshot /\ AfterSnapshot' /\ ~Syncing'
        BY <2>1 DEF AfterSnapshot, BeforeSnapshot, InMarks, Syncing
    <2>3. RootsTrue /\ MarksKnown => RootsTrue' /\ MarksKnown'
        BY <2>1, <2>2, SamePhase
    <2> QED
        BY <1>0, <2>1, <2>2, <2>3, GoOnViewInv
<1> QED
    BY <1>1, <1>2 DEF Sample

LEMMA WorkerViewInv == ASSUME ViewInv, Worker PROVE ViewInv'
BY LostViewInv, ConnectViewInv, SnapshotViewInv, MarksViewInv, EventsViewInv, SyncViewInv, LoopViewInv, SampleViewInv
   DEF Worker, Sample

LEMMA ViewInvTrue == ViewInv => ViewTrue
<1> SUFFICES ASSUME ViewInv, Settled
             PROVE  /\ roots = Open \ skipped
                    /\ \A p \in marker : p \in marked \/ [pane |-> p, marked |-> TRUE] \in Within(queue)
    BY DEF ViewTrue, Within
<1>1. AfterSnapshot /\ batch = <<>> /\ ~Told /\ ~dirty /\ Within(batch) = {} /\ RootsTrue /\ MarksKnown
    BY DEF Settled, ViewInv, ViewShapes, AfterSnapshot, BeforeSnapshot, InMarks, Syncing, Told, Within
<1>2. roots = Open \ skipped
    BY <1>1 DEF RootsTrue
<1>3. ASSUME NEW p \in marker
      PROVE  p \in marked \/ [pane |-> p, marked |-> TRUE] \in Within(queue)
    BY <1>1 DEF MarksKnown, AfterSnapshot, Says
<1> QED
    BY <1>2, <1>3

\* A worker that has handled its events knows every pane there is, and of every pane with the marker it
\* knows or is about to read, whatever came between its requests and however often Herdr started again.
THEOREM AlwaysViewTrue == Spec => []ViewTrue
<1>1. ViewInv /\ [Next]_vars => ViewInv'
    <2> SUFFICES ASSUME ViewInv, [Next]_vars PROVE ViewInv'
        OBVIOUS
    <2>1. CASE Herdr
        BY <2>1, HerdrViewInv
    <2>2. CASE Worker
        BY <2>2, WorkerViewInv
    <2>3. CASE UNCHANGED vars
        BY <2>3, SameViewInv DEF vars, ViewVars, herdr, events, conn, known, local
    <2> QED
        BY <2>1, <2>2, <2>3 DEF Next
<1> QED
    BY <1>1, InitViewInv, ViewInvTrue, PTL DEF Spec
----------------------------------------------------------------------------
(* Types *)

Typed == ViewShapes /\ Shapes

SetsFit ==
    /\ overlay \subseteq Panes /\ roots \subseteq Panes /\ marked \subseteq Panes
    /\ found \subseteq Panes /\ seen \subseteq Panes /\ new \subseteq Panes /\ skipped \subseteq Panes
    /\ todo \subseteq Keys

Labels == {"connect", "snapshot", "infos", "marks", "poll", "handle", "sync", "title", "clear",
           "refresh", "sampling", "sample", "plugin", "closed"}

ControlFits ==
    /\ pc \in Labels /\ call \in Caller \cup {NoCall}
    /\ stream \in {"none", "live", "broken"} /\ enabled \in BOOLEAN /\ dirty \in BOOLEAN

CountsFit == attempt \in 0 .. MaxReconnects /\ changes \in 0 .. MaxChanges /\ faults \in 0 .. MaxFaults

LEMMA InitFits == Init => SetsFit /\ ControlFits /\ CountsFit
<1> SUFFICES ASSUME Init PROVE SetsFit /\ ControlFits /\ CountsFit
    OBVIOUS
<1>1. SetsFit
    BY DEF Init, SetsFit
<1>2. ControlFits
    BY DEF Init, ControlFits, Labels
<1>3. CountsFit
    BY WorkerLoopAssumption DEF Init, CountsFit
<1> QED
    BY <1>1, <1>2, <1>3

\* The callee of a request, as long as there is one.
LEMMA CallFits ==
    ASSUME ViewShapes, pc \in {"sync", "title", "clear"}
    PROVE  call.pane \in Panes /\ call.from \in Labels
BY DEF ViewShapes, Syncing, Caller, Labels

LEMMA EventFits ==
    ASSUME ViewShapes, batch # <<>>, Head(batch) # Lifecycle
    PROVE  Head(batch).pane \in Panes
<1>1. Head(batch) \in Event
    BY DEF ViewShapes
<1> QED
    BY <1>1 DEF Event, Lifecycle

LEMMA UnavailableSets ==
    ASSUME SetsFit, NEW next, Unavailable(next), overlay' \subseteq Panes, UNCHANGED skipped
    PROVE  SetsFit'
BY DEF SetsFit, Unavailable, Close, known, Keys

LEMMA SetsKept == ASSUME Typed, SetsFit, [Next]_vars PROVE SetsFit'
<1>0. ViewShapes /\ Open \subseteq Panes
    BY DEF Typed, Open
<1>1. CASE Herdr
    <2>1. UNCHANGED <<roots, marked, found, seen, new, skipped, todo>>
        BY <1>1 DEF Herdr, OpenPane, ClosePane, SetMarker, DropMarker, OverlayExpires, Restart, DisablePlugin, known, local
    <2>2. overlay' \subseteq overlay
        BY <1>1 DEF Herdr, OpenPane, ClosePane, SetMarker, DropMarker, OverlayExpires, Restart, DisablePlugin
    <2> QED
        BY <2>1, <2>2 DEF SetsFit, Keys
<1>2. CASE ConnectFails \/ SnapshotFails \/ PollFails \/ PluginLost \/ SyncLost \/ SampleLost \/ PluginGone
    <2>1. CASE PluginGone
        BY <2>1 DEF PluginGone, Close, SetsFit, Keys, herdr
    <2>2. CASE SyncLost
        <3>1. overlay' \subseteq Panes
            BY <1>0, <2>2, CallFits DEF SyncLost, SetsFit
        <3> QED
            BY <2>2, <3>1, UnavailableSets DEF SyncLost, Lost
    <2>3. CASE ConnectFails \/ SnapshotFails \/ PollFails \/ PluginLost \/ SampleLost
        <3>1. UNCHANGED <<overlay, skipped>> /\ \E next \in {after, "sampling", "poll", "plugin"} : Unavailable(next)
            BY <2>3 DEF ConnectFails, SnapshotFails, PollFails, PluginLost, SampleLost, Lost, herdr
        <3> QED
            BY <3>1, UnavailableSets DEF SetsFit
    <2> QED
        BY <1>2, <2>1, <2>2, <2>3
<1>3. CASE Connect \/ TakeSnapshot \/ Marks \/ EndSnapshot \/ Poll \/ HandleLifecycle \/ EndPoll
           \/ BeginSnapshot \/ BeginSample \/ NotDue \/ EndSample \/ UNCHANGED vars
    BY <1>0, <1>3 DEF Connect, TakeSnapshot, Marks, EndSnapshot, Poll, HandleLifecycle, EndPoll, BeginSnapshot,
        BeginSample, NotDue, EndSample, SetsFit, Keys, vars, herdr, known, local
<1>4. CASE \E p \in Panes : AskInfo(p) \/ NextMark(p) \/ SampleGone(p) \/ SampleSame(p)
                            \/ \E usage \in Usages : SampleReport(p, usage)
    BY <1>4 DEF AskInfo, NextMark, SampleGone, SampleSame, SampleReport, SetsFit, Keys, herdr, known, local
<1>5. CASE \E w \in Workspaces, usage \in Usages : SampleWorkspace(w, usage)
    BY <1>5 DEF SampleWorkspace, SetsFit, Keys, local
<1>6. CASE HandleMarker
    <2>1. Head(batch).pane \in Panes
        BY <1>0, <1>6, EventFits DEF HandleMarker
    <2>2. marked' \subseteq Panes
        BY <1>6, <2>1 DEF HandleMarker, SetsFit
    <2> QED
        BY <1>6, <2>2 DEF HandleMarker, SetsFit, Keys, herdr, local
<1>7. CASE SyncMarked \/ SyncUnmarked \/ SyncUnknown \/ ReportTitle \/ ClearTitle
    <2>1. call.pane \in Panes
        BY <1>0, <1>7, CallFits DEF SyncMarked, SyncUnmarked, SyncUnknown, ReportTitle, ClearTitle
    <2>2. UNCHANGED <<roots, found, seen, new, skipped, todo>>
        BY <1>7 DEF SyncMarked, SyncUnmarked, SyncUnknown, ReportTitle, ClearTitle, known, local
    <2>3. overlay' \subseteq Panes
        BY <1>7, <2>1 DEF SyncMarked, SyncUnmarked, SyncUnknown, ReportTitle, ClearTitle, SetsFit, herdr
    <2>4. marked' \subseteq Panes
        BY <1>7, <2>1 DEF SyncMarked, SyncUnmarked, SyncUnknown, ReportTitle, ClearTitle, SetsFit, known
    <2> QED
        BY <2>2, <2>3, <2>4 DEF SetsFit, Keys
<1> QED
    BY <1>1, <1>2, <1>3, <1>4, <1>5, <1>6, <1>7 DEF Next, Worker, Sample

\* A call of sync_aghist_title begins with a pane of the worker.
LEMMA SyncControl ==
    ASSUME NEW p \in Panes, NEW was \in BOOLEAN, NEW from \in {"marks", "handle", "sample"}, Sync(p, was, from)
    PROVE  pc' \in Labels /\ call' \in Caller \cup {NoCall}
BY DEF Sync, Labels, Caller

LEMMA UnavailableControl ==
    ASSUME ControlFits, NEW next, Unavailable(next) \/ Close, UNCHANGED enabled
    PROVE  ControlFits'
BY DEF ControlFits, Unavailable, Close, known, Labels, Caller, NoCall

LEMMA ControlKept == ASSUME Typed, ControlFits, [Next]_vars PROVE ControlFits'
<1>0. ViewShapes
    BY DEF Typed
<1>1. CASE Herdr
    <2>1. UNCHANGED <<pc, call, dirty>> /\ stream' \in {stream, "broken"} /\ enabled' \in {enabled, FALSE}
        BY <1>1 DEF Herdr, OpenPane, ClosePane, SetMarker, DropMarker, OverlayExpires, Restart, DisablePlugin, known, events
    <2> QED
        BY <2>1 DEF ControlFits
<1>2. CASE ConnectFails \/ SnapshotFails \/ PollFails \/ PluginLost \/ SyncLost \/ SampleLost \/ PluginGone
    <2>1. UNCHANGED enabled /\ \E next \in {after, "sampling", "poll", "plugin", Behind} : Unavailable(next) \/ Close
        BY <1>2 DEF ConnectFails, SnapshotFails, PollFails, PluginLost, SyncLost, SampleLost, PluginGone, Lost, herdr
    <2> QED
        BY <2>1, UnavailableControl
<1>3. CASE Connect \/ TakeSnapshot \/ Marks \/ EndSnapshot \/ Poll \/ HandleLifecycle
           \/ BeginSnapshot \/ BeginSample \/ NotDue \/ EndSample \/ UNCHANGED vars
           \/ (\E p \in Panes : AskInfo(p)) \/ \E w \in Workspaces, usage \in Usages : SampleWorkspace(w, usage)
    <2>1. UNCHANGED <<call, enabled>> /\ stream' \in {stream, "live"} /\ dirty' \in {dirty, TRUE, FALSE}
        BY <1>3 DEF Connect, TakeSnapshot, Marks, EndSnapshot, Poll, HandleLifecycle, BeginSnapshot,
            BeginSample, NotDue, EndSample, AskInfo, SampleWorkspace, vars, herdr, known, events
    <2>2. pc' \in {pc, "snapshot", "infos", "marks", "sampling", "poll", "handle", "sample", "plugin"}
        BY <1>3 DEF Connect, TakeSnapshot, Marks, EndSnapshot, Poll, HandleLifecycle, BeginSnapshot,
            BeginSample, NotDue, EndSample, AskInfo, SampleWorkspace, vars
    <2> QED
        BY <2>1, <2>2 DEF ControlFits, Labels
<1>4. CASE EndPoll
    <2>1. pc' \in {"refresh", "poll", "sampling", "plugin"}
        BY <1>0, <1>4 DEF EndPoll, ViewShapes
    <2> QED
        BY <1>4, <2>1 DEF EndPoll, ControlFits, Labels, herdr, events, known
<1>5. CASE (\E p \in Panes : NextMark(p) \/ SampleGone(p) \/ SampleSame(p) \/ \E usage \in Usages : SampleReport(p, usage))
           \/ HandleMarker
    <2>1. UNCHANGED <<enabled, stream, dirty>>
        BY <1>5 DEF NextMark, SampleGone, SampleSame, SampleReport, HandleMarker, herdr, events, known
    <2>2. \/ UNCHANGED <<pc, call>>
          \/ \E p \in Panes, was \in BOOLEAN, from \in {"marks", "handle", "sample"} : Sync(p, was, from)
        <3>1. CASE HandleMarker
            <4>1. Head(batch).pane \in Panes
                BY <1>0, <3>1, EventFits DEF HandleMarker
            <4>2. (Head(batch).pane \in marked) \in BOOLEAN
                OBVIOUS
            <4> QED
                BY <3>1, <4>1, <4>2, Zenon DEF HandleMarker
        <3>2. CASE \E p \in Panes : NextMark(p)
            BY <3>2, Zenon DEF NextMark
        <3>3. CASE \E p \in Panes : AndSync(p)
            BY <3>3, Zenon DEF AndSync
        <3> QED
            BY <1>5, <3>1, <3>2, <3>3 DEF SampleGone, SampleSame, SampleReport
    <2>3. pc' \in Labels /\ call' \in Caller \cup {NoCall}
        BY <2>2, SyncControl DEF ControlFits
    <2> QED
        BY <2>1, <2>3 DEF ControlFits
<1>6. CASE SyncMarked \/ SyncUnmarked \/ SyncUnknown \/ ReportTitle \/ ClearTitle
    <2>1. call.from \in Labels
        BY <1>0, <1>6, CallFits DEF SyncMarked, SyncUnmarked, SyncUnknown, ReportTitle, ClearTitle
    <2>2. UNCHANGED <<enabled, stream, dirty>> /\ call' \in {call, NoCall} /\ pc' \in {"title", "clear", call.from}
        BY <1>6 DEF SyncMarked, SyncUnmarked, SyncUnknown, ReportTitle, ClearTitle, Return, herdr, events, known
    <2> QED
        BY <2>1, <2>2 DEF ControlFits, Labels
<1> QED
    BY <1>1, <1>2, <1>3, <1>4, <1>5, <1>6 DEF Next, Worker, Sample

LEMMA CountsKept == ASSUME CountsFit, [Next]_vars PROVE CountsFit'
<1>0. MaxReconnects \in Nat /\ MaxChanges \in Nat /\ MaxFaults \in Nat
    BY WorkerLoopAssumption
<1>1. UNCHANGED changes \/ Change
    BY DEF Next, Herdr, Worker, Sample, OpenPane, ClosePane, SetMarker, DropMarker, OverlayExpires, Restart, DisablePlugin,
        Connect, ConnectFails, TakeSnapshot, SnapshotFails, Marks, EndSnapshot, AskInfo, NextMark, Poll, PollFails,
        HandleMarker, HandleLifecycle, EndPoll, SyncMarked, SyncUnmarked, SyncUnknown, ReportTitle, ClearTitle, SyncLost,
        BeginSnapshot, BeginSample, NotDue, SampleGone, SampleSame, SampleReport, SampleWorkspace, SampleLost, EndSample,
        PluginGone, PluginLost, bounds, vars
<1>2. UNCHANGED faults \/ Fault
    BY DEF Next, Herdr, Worker, Sample, OpenPane, ClosePane, SetMarker, DropMarker, OverlayExpires, Restart, DisablePlugin,
        Connect, ConnectFails, TakeSnapshot, SnapshotFails, Marks, EndSnapshot, AskInfo, NextMark, Poll, PollFails,
        HandleMarker, HandleLifecycle, EndPoll, SyncMarked, SyncUnmarked, SyncUnknown, ReportTitle, ClearTitle, SyncLost,
        BeginSnapshot, BeginSample, NotDue, SampleGone, SampleSame, SampleReport, SampleWorkspace, SampleLost, EndSample,
        PluginGone, PluginLost, Lost, Answered, Refused, Done, NotDone, bounds, vars
<1>3. attempt' \in {attempt, 0} \/ (attempt < MaxReconnects /\ attempt' = attempt + 1)
    <2>1. CASE ConnectFails \/ SnapshotFails \/ PollFails \/ PluginLost \/ SyncLost \/ SampleLost \/ PluginGone
        <3>1. \E next \in {after, "sampling", "poll", "plugin", Behind} : Unavailable(next) \/ Close
            BY <2>1 DEF ConnectFails, SnapshotFails, PollFails, PluginLost, SyncLost, SampleLost, PluginGone, Lost
        <3> QED
            BY <3>1 DEF Unavailable, Close, conn
    <2>2. CASE ~(ConnectFails \/ SnapshotFails \/ PollFails \/ PluginLost \/ SyncLost \/ SampleLost \/ PluginGone)
        BY <2>2 DEF Next, Herdr, Worker, Sample, OpenPane, ClosePane, SetMarker, DropMarker, OverlayExpires, Restart,
            DisablePlugin, Connect, TakeSnapshot, Marks, EndSnapshot, AskInfo, NextMark, Poll,
            HandleMarker, HandleLifecycle, EndPoll, SyncMarked, SyncUnmarked, SyncUnknown, ReportTitle, ClearTitle,
            BeginSnapshot, BeginSample, NotDue, SampleGone, SampleSame, SampleReport, SampleWorkspace, EndSample, conn, vars
    <2> QED
        BY <2>1, <2>2
<1>4. attempt' \in 0 .. MaxReconnects
    BY <1>0, <1>3 DEF CountsFit
<1>5. changes' \in 0 .. MaxChanges
    BY <1>0, <1>1 DEF CountsFit, Change
<1>6. faults' \in 0 .. MaxFaults
    BY <1>0, <1>2 DEF CountsFit, Fault
<1> QED
    BY <1>4, <1>5, <1>6 DEF CountsFit

LEMMA Fitting == ASSUME Typed, SetsFit, ControlFits, CountsFit PROVE TypeOK
<1>1. marker \subseteq Panes
    BY DEF Typed, ViewShapes, Open
<1> QED
    BY <1>1 DEF TypeOK, Typed, ViewShapes, Shapes, SetsFit, ControlFits, CountsFit, Labels, Caller

\* Whatever Herdr tells and however requests end, the worker asks only about panes there have been, makes
\* no attempt to reconnect beyond the last one, and returns from sync_aghist_title to where it was called.
THEOREM AlwaysTypeOK == Spec => []TypeOK
<1>1. CacheInv /\ [Next]_vars => CacheInv'
    <2> SUFFICES ASSUME CacheInv, [Next]_vars PROVE CacheInv'
        OBVIOUS
    <2>1. CASE UNCHANGED vars
        BY <2>1, SameCacheInv DEF vars, CacheVars, herdr, events, known
    <2> QED
        BY <2>1, HerdrCacheInv, WorkerCacheInv DEF Next
<1>2. ViewInv /\ [Next]_vars => ViewInv'
    <2> SUFFICES ASSUME ViewInv, [Next]_vars PROVE ViewInv'
        OBVIOUS
    <2>1. CASE UNCHANGED vars
        BY <2>1, SameViewInv DEF vars, ViewVars, herdr, events, conn, known, local
    <2> QED
        BY <2>1, HerdrViewInv, WorkerViewInv DEF Next
<1>3. CacheInv /\ ViewInv => Typed
    BY DEF CacheInv, ViewInv, Typed
<1>4. Typed /\ SetsFit /\ ControlFits /\ CountsFit /\ [Next]_vars => SetsFit' /\ ControlFits' /\ CountsFit'
    BY SetsKept, ControlKept, CountsKept
<1>5. Typed /\ SetsFit /\ ControlFits /\ CountsFit => TypeOK
    BY Fitting
<1> QED
    BY <1>1, <1>2, <1>3, <1>4, <1>5, InitCacheInv, InitViewInv, InitFits, PTL DEF Spec
=============================================================================
