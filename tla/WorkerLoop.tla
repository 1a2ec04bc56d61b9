------------------------------ MODULE WorkerLoop -----------------------------
(***************************************************************************)
(* The loop of a pane-load worker (Worker of main.rs) against Herdr, one   *)
(* request at a time: events come in order on a stream, snapshots say what *)
(* panes there are, samples report what each uses, and a pane that carries *)
(* the marker of agent-history gets a second title beside that.  Between   *)
(* two requests of the worker panes open and close, markers come and go,   *)
(* Herdr refuses a request, does not answer it, or starts again and has    *)
(* forgotten every report.                                                 *)
(***************************************************************************)
EXTENDS Naturals, Sequences, FiniteSets

CONSTANTS
    Panes, Workspaces,
    Usages,         \* what a sample finds
    MaxReconnects,  \* MAX_RECONNECTS
    MaxChanges,     \* bound: panes that open or close, markers that come or go
    MaxFaults       \* bound: requests that are refused or get no answer, restarts

ASSUME WorkerLoopAssumption ==
    /\ Panes \cap Workspaces = {} /\ 0 \notin Usages
    /\ MaxReconnects \in Nat \ {0} /\ MaxChanges \in Nat /\ MaxFaults \in Nat

VARIABLES
    \* Herdr
    pane,           \* "new", "open" or "closed"; an id is not used again
    marker,         \* the panes with the token
    shown,          \* what is shown of a pane or workspace, 0 for nothing
    overlay,        \* the panes with the title that has the marker
    stream, queue,  \* the event stream, and the events not yet read from it
    enabled,        \* is the plugin?
    \* the worker
    pc, batch, todo,\* where it is, the events and the items it has yet to handle
    call,           \* sync_aghist_title: its pane, was_marked and who called it
    attempt, after, \* of reconnect_snapshot, 0 outside it; where the loop goes on behind it
    roots, marked, lastSent, dirty, \* self.roots, aghist_panes, last_sent and last_workspace_sent
    found, seen, new, \* locals of snapshot: roots, marked_panes; the panes it must yet bring in line
    skipped,        \* history: the panes of the last snapshot without a root
    changes, faults
herdr == <<pane, marker, shown, overlay, enabled>>
events == <<stream, queue>>
local == <<found, seen, new, skipped>>
known == <<roots, marked, lastSent, dirty>>
conn == <<attempt, after>>
bounds == <<changes, faults>>
vars == <<herdr, events, pc, batch, todo, call, conn, known, local, bounds>>

Keys == Panes \cup Workspaces
Open == {p \in Panes : pane[p] = "open"}
NoCall == [pane |-> "none", was |-> FALSE, from |-> "none"]
Lifecycle == [lifecycle |-> TRUE]
Event == [pane : Panes, marked : BOOLEAN] \cup {Lifecycle}

TypeOK ==
    /\ pane \in [Panes -> {"new", "open", "closed"}] /\ marker \subseteq Panes /\ overlay \subseteq Panes
    /\ shown \in [Keys -> Usages \cup {0}] /\ enabled \in BOOLEAN
    /\ stream \in {"none", "live", "broken"} /\ queue \in Seq(Event) /\ batch \in Seq(Event)
    /\ pc \in {"connect", "snapshot", "infos", "marks", "poll", "handle", "sync", "title", "clear",
              "refresh", "sampling", "sample", "plugin", "closed"}
    /\ call \in [pane : Panes, was : BOOLEAN, from : {"marks", "handle", "sample"}] \cup {NoCall}
    /\ todo \subseteq Keys /\ attempt \in 0 .. MaxReconnects /\ after \in {"poll", "sampling", "plugin"}
    /\ roots \subseteq Panes /\ marked \subseteq Panes /\ dirty \in BOOLEAN
    /\ lastSent \in [Keys -> Usages \cup {0}]
    /\ found \subseteq Panes /\ seen \subseteq Panes /\ new \subseteq Panes /\ skipped \subseteq Panes
    /\ changes \in 0 .. MaxChanges /\ faults \in 0 .. MaxFaults

Init ==
    /\ pane \in [Panes -> {"new", "open"}] /\ marker = {} /\ overlay = {} /\ enabled = TRUE
    /\ shown = [k \in Keys |-> 0] /\ stream = "none" /\ queue = <<>>
    /\ pc = "connect" /\ batch = <<>> /\ todo = {} /\ call = NoCall /\ attempt = 1 /\ after = "poll"
    /\ roots = {} /\ marked = {} /\ lastSent = [k \in Keys |-> 0] /\ dirty = FALSE
    /\ found = {} /\ seen = {} /\ new = {} /\ skipped = {} /\ changes = 0 /\ faults = 0

----------------------------------------------------------------------------
(* Herdr and its other users *)

\* An event reaches a worker that has subscribed; one that says again what the last unread one of its
\* pane says, or a second unread one that panes have come or gone, adds nothing.
Emit(event) ==
    LET same == {i \in DOMAIN queue : IF event = Lifecycle THEN queue[i] = event
                                     ELSE queue[i] # Lifecycle /\ queue[i].pane = event.pane}
    IN  queue' = IF stream # "live" \/ \E i \in same : queue[i] = event /\ \A j \in same : j <= i
                 THEN queue ELSE Append(queue, event)
Updated(p) == Emit([pane |-> p, marked |-> p \in marker])

Change == changes < MaxChanges /\ changes' = changes + 1

OpenPane(p) ==
    /\ Change /\ pane[p] = "new"
    /\ pane' = [pane EXCEPT ![p] = "open"] /\ Emit(Lifecycle)
    /\ UNCHANGED <<marker, shown, overlay, enabled, stream, pc, batch, todo, call, conn, known, local, faults>>

ClosePane(p) ==
    /\ Change /\ pane[p] = "open"
    /\ pane' = [pane EXCEPT ![p] = "closed"] /\ shown' = [shown EXCEPT ![p] = 0]
    /\ marker' = marker \ {p} /\ overlay' = overlay \ {p} /\ Emit(Lifecycle)
    /\ UNCHANGED <<enabled, stream, pc, batch, todo, call, conn, known, local, faults>>

SetMarker(p) ==
    /\ Change /\ pane[p] = "open" /\ p \notin marker
    /\ marker' = marker \cup {p} /\ Emit([pane |-> p, marked |-> TRUE])
    /\ UNCHANGED <<pane, shown, overlay, enabled, stream, pc, batch, todo, call, conn, known, local, faults>>

\* The token is removed, or expires, which need not come with an event.
DropMarker(p) ==
    /\ Change /\ p \in marker
    /\ marker' = marker \ {p} /\ (UNCHANGED queue \/ Emit([pane |-> p, marked |-> FALSE]))
    /\ UNCHANGED <<pane, shown, overlay, enabled, stream, pc, batch, todo, call, conn, known, local, faults>>

\* AGHIST_TTL_MS has passed since the title was written.
OverlayExpires(p) ==
    /\ p \in overlay /\ overlay' = overlay \ {p}
    /\ UNCHANGED <<pane, marker, shown, enabled, events, pc, batch, todo, call, conn, known, local, bounds>>

Fault == faults < MaxFaults /\ faults' = faults + 1

\* Herdr starts again with the panes it had.
Restart ==
    /\ Fault
    /\ shown' = [k \in Keys |-> 0] /\ overlay' = {} /\ marker' = {}
    /\ stream' = (IF stream = "live" THEN "broken" ELSE stream)
    /\ UNCHANGED <<pane, enabled, queue, pc, batch, todo, call, conn, known, local, changes>>

DisablePlugin ==
    /\ Change /\ enabled /\ enabled' = FALSE
    /\ UNCHANGED <<pane, marker, shown, overlay, events, pc, batch, todo, call, conn, known, local, faults>>

----------------------------------------------------------------------------
(* What every request can come to *)

Answered == UNCHANGED faults
Refused == Fault

\* What close leaves behind.
Close ==
    /\ marked' = {} /\ lastSent' = [k \in Keys |-> 0]
    /\ stream' = "none" /\ queue' = <<>> /\ pc' = "closed"
    /\ batch' = <<>> /\ todo' = {} /\ call' = NoCall /\ found' = {} /\ seen' = {} /\ new' = {}
    /\ UNCHANGED <<conn, roots, dirty>>

\* ServerUnavailable: reconnect_snapshot, or its next attempt, or the end; the loop then goes on at next.
Unavailable(next) ==
    \/ /\ attempt < MaxReconnects /\ attempt' = attempt + 1
       /\ after' = (IF attempt = 0 THEN next ELSE after)
       /\ pc' = "connect" /\ stream' = "none" /\ queue' = <<>>
       /\ batch' = <<>> /\ todo' = {} /\ call' = NoCall /\ found' = {} /\ seen' = {} /\ new' = {}
       /\ UNCHANGED known
    \/ attempt = MaxReconnects /\ Close
Lost(next) == Fault /\ Unavailable(next)

----------------------------------------------------------------------------
(* reconnect_snapshot *)

\* Mutant: what was reported before is not forgotten.
ConnectKeepsSent ==
    /\ pc = "connect" /\ Answered
    /\ stream' = "live" /\ queue' = <<>>
    /\ pc' = "snapshot"
    /\ UNCHANGED <<herdr, batch, todo, call, conn, known, local, changes>>

\* Subscribes first, and forgets what it has reported.
Connect ==
    /\ pc = "connect" /\ Answered
    /\ stream' = "live" /\ queue' = <<>>
    /\ lastSent' = [k \in Keys |-> 0]
    /\ pc' = "snapshot"
    /\ UNCHANGED <<herdr, batch, todo, call, conn, roots, marked, dirty, local, changes>>

ConnectFails ==
    /\ pc = "connect" /\ Lost(after)
    /\ UNCHANGED <<herdr, skipped, changes>>

----------------------------------------------------------------------------
(* snapshot *)

TakeSnapshot ==
    /\ pc = "snapshot" /\ Answered
    /\ todo' = Open /\ seen' = marker \cap Open /\ found' = {} /\ skipped' = {}
    /\ pc' = "infos"
    /\ UNCHANGED <<herdr, events, batch, call, conn, known, new, changes>>

SnapshotFails ==
    /\ pc \in {"snapshot", "infos"} /\ Lost("sampling")
    /\ UNCHANGED <<herdr, skipped, changes>>

\* pane.process_info; a pane without an answer is left out until the next snapshot.
AskInfo(p) ==
    /\ pc = "infos" /\ p \in todo
    /\ \/ pane[p] = "open" /\ Answered /\ found' = found \cup {p} /\ UNCHANGED skipped
       \/ (IF pane[p] = "open" THEN Refused ELSE Answered) /\ skipped' = skipped \cup {p} /\ UNCHANGED found
    /\ todo' = todo \ {p}
    /\ UNCHANGED <<herdr, events, pc, batch, call, conn, known, seen, new, changes>>

\* The markers of the snapshot replace those known before; the panes that differ are brought in line.
Marks ==
    /\ pc = "infos" /\ todo = {}
    /\ marked' = seen
    /\ todo' = (marked \ seen) \cap (found \cup skipped) /\ new' = seen \ marked
    /\ pc' = "marks"
    /\ UNCHANGED <<herdr, events, batch, call, conn, roots, lastSent, dirty, found, seen, skipped, bounds>>

Sync(p, was, from) == call' = [pane |-> p, was |-> was, from |-> from] /\ pc' = "sync"

NextMark(p) ==
    /\ pc = "marks"
    /\ \/ p \in todo /\ todo' = todo \ {p} /\ Sync(p, TRUE, "marks") /\ UNCHANGED new
       \/ todo = {} /\ p \in new /\ new' = new \ {p} /\ Sync(p, FALSE, "marks") /\ UNCHANGED todo
    /\ UNCHANGED <<herdr, events, batch, conn, known, found, seen, skipped, bounds>>

\* Only now the panes of the snapshot are those of the worker.
EndSnapshot ==
    /\ pc = "marks" /\ todo = {} /\ new = {}
    /\ roots' = found /\ dirty' = FALSE
    /\ lastSent' = [k \in Keys |-> IF k \in roots \ found THEN 0 ELSE lastSent[k]]
    /\ found' = {} /\ seen' = {}
    /\ pc' = IF attempt = 0 THEN "sampling" ELSE "poll"
    /\ UNCHANGED <<herdr, events, batch, todo, call, conn, marked, new, skipped, bounds>>

----------------------------------------------------------------------------
(* poll_events *)

\* What had arrived before the stream broke is still read.
Poll ==
    /\ pc = "poll" /\ (stream = "live" \/ queue # <<>>)
    /\ batch' = queue /\ queue' = <<>> /\ pc' = "handle"
    /\ UNCHANGED <<herdr, stream, todo, call, conn, known, local, bounds>>

PollFails ==
    /\ pc = "poll" /\ stream = "broken" /\ queue = <<>>
    /\ Unavailable("poll")
    /\ UNCHANGED <<herdr, skipped, bounds>>

\* Mutant: the worker only believes what it sees.
HandleMarkerLooksFirst ==
    /\ pc = "handle" /\ batch # <<>> /\ Head(batch) # Lifecycle
    /\ batch' = Tail(batch)
    /\ LET event == Head(batch)
           was == event.pane \in marked
       IN  IF event.marked = was
           THEN UNCHANGED <<pc, call>>
           ELSE Sync(event.pane, was, "handle")
    /\ UNCHANGED <<herdr, events, todo, conn, known, local, bounds>>

\* A pane.updated that tells nothing new is nothing; else the worker believes it, then looks.
HandleMarker ==
    /\ pc = "handle" /\ batch # <<>> /\ Head(batch) # Lifecycle
    /\ batch' = Tail(batch)
    /\ LET event == Head(batch)
           was == event.pane \in marked
       IN  IF event.marked = was
           THEN UNCHANGED <<pc, call, marked>>
           ELSE /\ marked' = IF event.marked THEN marked \cup {event.pane} ELSE marked \ {event.pane}
                /\ Sync(event.pane, was, "handle")
    /\ UNCHANGED <<herdr, events, todo, conn, roots, lastSent, dirty, local, bounds>>

HandleLifecycle ==
    /\ pc = "handle" /\ batch # <<>> /\ Head(batch) = Lifecycle
    /\ batch' = Tail(batch) /\ dirty' = TRUE
    /\ UNCHANGED <<herdr, events, pc, todo, call, conn, roots, marked, lastSent, local, bounds>>

\* With this reconnect_snapshot has succeeded.
EndPoll ==
    /\ pc = "handle" /\ batch = <<>>
    /\ pc' = (IF attempt = 0 THEN "refresh" ELSE after) /\ attempt' = 0 /\ after' = "poll"
    /\ UNCHANGED <<herdr, events, batch, todo, call, known, local, bounds>>

----------------------------------------------------------------------------
(* sync_aghist_title, called from snapshot, process_events and sample *)

Return == pc' = call.from /\ call' = NoCall

\* Where the caller's ServerUnavailable takes it.
Behind == CASE call.from = "marks" -> "sampling" [] call.from = "handle" -> "poll" [] OTHER -> "plugin"

\* pane.get; what it says counts, not what the caller knew.
SyncMarked ==
    /\ pc = "sync" /\ call.pane \in marker /\ Answered
    /\ marked' = marked \cup {call.pane} /\ pc' = "title"
    /\ UNCHANGED <<herdr, events, batch, todo, call, conn, roots, lastSent, dirty, local, changes>>

SyncUnmarked ==
    /\ pc = "sync" /\ pane[call.pane] = "open" /\ call.pane \notin marker /\ Answered
    /\ IF call.was
       THEN marked' = marked \cup {call.pane} /\ pc' = "clear" /\ UNCHANGED call
       ELSE marked' = marked \ {call.pane} /\ Return
    /\ UNCHANGED <<herdr, events, batch, todo, conn, roots, lastSent, dirty, local, changes>>

\* A pane that is gone, or that Herdr does not tell of, stays as it was.
SyncUnknown ==
    /\ pc = "sync" /\ (IF pane[call.pane] = "open" THEN Refused ELSE Answered) /\ Return
    /\ UNCHANGED <<herdr, events, batch, todo, conn, known, local, changes>>

\* A request to Herdr about p: done, refused, or done or not with the answer lost.
Done(p) == pane[p] = "open" /\ Answered
NotDone(p) == IF pane[p] = "open" THEN Refused ELSE Answered

ReportTitle ==
    /\ pc = "title" /\ Return
    /\ \/ Done(call.pane) /\ overlay' = overlay \cup {call.pane} /\ Updated(call.pane)
       \/ NotDone(call.pane) /\ UNCHANGED <<overlay, queue>>
    /\ UNCHANGED <<pane, marker, shown, enabled, stream, batch, todo, conn, known, local, changes>>

ClearTitle ==
    /\ pc = "clear" /\ Return
    /\ \/ /\ Done(call.pane) /\ overlay' = overlay \ {call.pane} /\ Updated(call.pane)
          /\ marked' = marked \ {call.pane}
       \/ NotDone(call.pane) /\ UNCHANGED <<overlay, queue, marked>>
    /\ UNCHANGED <<pane, marker, shown, enabled, stream, batch, todo, conn, roots, lastSent, dirty, local, changes>>

SyncLost ==
    /\ \/ pc = "sync" /\ UNCHANGED overlay
       \/ pc = "title" /\ (UNCHANGED overlay \/ overlay' = (overlay \cup {call.pane}) \cap Open)
       \/ pc = "clear" /\ (UNCHANGED overlay \/ overlay' = overlay \ {call.pane})
    /\ Lost(Behind)
    /\ UNCHANGED <<pane, marker, shown, enabled, skipped, changes>>

----------------------------------------------------------------------------
(* The rest of the loop *)

BeginSnapshot ==
    /\ pc = "refresh" /\ dirty /\ pc' = "snapshot"
    /\ UNCHANGED <<herdr, events, batch, todo, call, conn, known, local, bounds>>

BeginSample ==
    /\ pc = "sampling" /\ pc' = "sample" /\ todo' = roots \cup Workspaces
    /\ UNCHANGED <<herdr, events, batch, call, conn, known, local, bounds>>

\* The next snapshot, sample or look at the plugin is not due, or the plugin is there.
NotDue ==
    /\ \/ pc = "refresh" /\ pc' = "sampling"
       \/ pc = "sampling" /\ pc' = "plugin"
       \/ pc = "plugin" /\ pc' = "poll"
    /\ UNCHANGED <<herdr, events, batch, todo, call, conn, known, local, bounds>>

AndSync(p) ==
    IF p \in marked THEN Sync(p, TRUE, "sample") ELSE UNCHANGED <<pc, call>>

\* The shell of the pane is not running, or another process has its number.
SampleGone(p) ==
    /\ pc = "sample" /\ p \in todo /\ todo' = todo \ {p}
    /\ lastSent' = [lastSent EXCEPT ![p] = 0] /\ AndSync(p)
    /\ UNCHANGED <<herdr, events, batch, conn, roots, marked, dirty, local, bounds>>

\* Mutant: a pane whose usage is as before needs nothing.
SampleSameNoSync(p) ==
    /\ pc = "sample" /\ p \in todo /\ todo' = todo \ {p}
    /\ lastSent[p] # 0
    /\ UNCHANGED <<herdr, events, pc, batch, call, conn, known, local, bounds>>

\* What was reported less than HEARTBEAT_SECONDS ago is not reported again.
SampleSame(p) ==
    /\ pc = "sample" /\ p \in todo /\ todo' = todo \ {p}
    /\ lastSent[p] # 0 /\ AndSync(p)
    /\ UNCHANGED <<herdr, events, batch, conn, known, local, bounds>>

\* A report that Herdr has taken is remembered.
Report(k, usage) ==
    /\ shown' = [shown EXCEPT ![k] = usage]
    /\ lastSent' = [lastSent EXCEPT ![k] = usage]

SampleReport(p, usage) ==
    /\ pc = "sample" /\ p \in todo /\ todo' = todo \ {p} /\ AndSync(p)
    /\ \/ Done(p) /\ Report(p, usage) /\ Updated(p)
       \/ NotDone(p) /\ UNCHANGED <<shown, lastSent, queue>>
    /\ UNCHANGED <<pane, marker, overlay, enabled, stream, batch, conn, roots, marked, dirty, local, changes>>

\* report_workspace, after the panes.
SampleWorkspace(w, usage) ==
    /\ pc = "sample" /\ todo \subseteq Workspaces /\ w \in todo /\ todo' = todo \ {w}
    /\ \/ usage = lastSent[w] /\ Answered /\ UNCHANGED <<shown, lastSent>>
       \/ Answered /\ Report(w, usage)
       \/ Refused /\ UNCHANGED <<shown, lastSent>>
    /\ UNCHANGED <<pane, marker, overlay, enabled, events, pc, batch, call, conn, roots, marked, dirty, local, changes>>

SampleLost ==
    /\ pc = "sample"
    /\ \E k \in todo, usage \in Usages :
          shown' = shown \/ (k \in Open \cup Workspaces /\ shown' = [shown EXCEPT ![k] = usage])
    /\ Lost("plugin")
    /\ UNCHANGED <<pane, marker, overlay, enabled, skipped, changes>>

EndSample ==
    /\ pc = "sample" /\ todo = {} /\ pc' = "plugin"
    /\ UNCHANGED <<herdr, events, batch, todo, call, conn, known, local, bounds>>

\* plugin_enabled
PluginGone ==
    /\ pc = "plugin" /\ ~enabled /\ Close
    /\ UNCHANGED <<herdr, skipped, bounds>>

PluginLost ==
    /\ pc = "plugin" /\ Lost("poll")
    /\ UNCHANGED <<herdr, skipped, changes>>

----------------------------------------------------------------------------
Herdr ==
    \/ \E p \in Panes : OpenPane(p) \/ ClosePane(p) \/ SetMarker(p) \/ DropMarker(p) \/ OverlayExpires(p)
    \/ Restart \/ DisablePlugin

Sample ==
    \/ \E p \in Panes : SampleGone(p) \/ SampleSame(p) \/ \E usage \in Usages : SampleReport(p, usage)
    \/ \E w \in Workspaces, usage \in Usages : SampleWorkspace(w, usage)
    \/ SampleLost \/ EndSample

Worker ==
    \/ Connect \/ ConnectFails \/ TakeSnapshot \/ SnapshotFails \/ Marks \/ EndSnapshot
    \/ \E p \in Panes : AskInfo(p) \/ NextMark(p)
    \/ Poll \/ PollFails \/ HandleMarker \/ HandleLifecycle \/ EndPoll
    \/ SyncMarked \/ SyncUnmarked \/ SyncUnknown \/ ReportTitle \/ ClearTitle \/ SyncLost
    \/ BeginSnapshot \/ BeginSample \/ NotDue \/ Sample
    \/ PluginGone \/ PluginLost

Next == Herdr \/ Worker

\* The worker goes on, and time passes: what is not due becomes due.
Fairness == WF_vars(Worker) /\ SF_vars(BeginSnapshot) /\ SF_vars(BeginSample)

Spec == Init /\ [][Next]_vars /\ Fairness

----------------------------------------------------------------------------
(* Properties *)

\* The worker has handled all it was told, and its stream still tells it more.
Settled ==
    /\ pc = "poll" /\ attempt = 0 /\ stream = "live" /\ ~dirty
    /\ \A i \in DOMAIN queue : queue[i] # Lifecycle

\* A worker that has handled its events knows every pane Herdr has, but those whose shell Herdr would not
\* tell; and of every pane with the marker it knows, or the event that says so is still to be read.
ViewTrue ==
    Settled =>
        /\ roots = Open \ skipped
        /\ \A p \in marker : p \in marked \/ [pane |-> p, marked |-> TRUE] \in {queue[i] : i \in DOMAIN queue}

\* What the worker takes for reported, and so does not report again, is what Herdr shows, whatever
\* request failed and even if Herdr started again.
CacheTrue ==
    stream = "live" => \A k \in Open \cup Workspaces : lastSent[k] # 0 => shown[k] = lastSent[k]

\* A pane that keeps the marker, and whose shell is known, has the title of it again and again, though
\* the title expires, and whether or not its usage changes.
MarkShown ==
    \A p \in Panes :
        <>[](p \in marker /\ p \in roots /\ pc # "closed") => []<>(p \in overlay)
=============================================================================
