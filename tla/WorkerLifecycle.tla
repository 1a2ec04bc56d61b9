-------------------------- MODULE WorkerLifecycle --------------------------
(***************************************************************************)
(* The resident worker of pane-load: how any number of `start`, `stop` and *)
(* `worker` processes of one Herdr server meet at a lock file, a status    *)
(* file and a control socket (main.rs).                                    *)
(*                                                                         *)
(* A starter is one call of `start`; it spawns at most one worker, which   *)
(* is named by its starter and has a process id that may be one a dead     *)
(* worker had.  A stopper is one call of `stop`.  A process is where its   *)
(* pc is; the label names what it does next.                               *)
(*                                                                         *)
(* flock belongs to the open file description.  A starter opens its own    *)
(* and the worker inherits it, so the lock is free only when neither of    *)
(* them has it open: who holds the lock is a matter of the pcs.            *)
(***************************************************************************)
EXTENDS Naturals

CONSTANTS
  Starters,       \* the calls of start, and the workers they spawn
  Stoppers,       \* the calls of stop
  Pids,           \* the process ids workers get
  None,           \* no process, no file
  Tries,          \* how often stop tries to be heard: 3
  MaxReconnects,  \* MAX_RECONNECTS
  LongStates,     \* what a lock holder may be at for longer than start waits
  MaxOutages,     \* bound: how often Herdr's server stops
  MaxKills,       \* bound: processes killed
  MaxErrors       \* bound: calls that fail though nothing is wrong

ASSUME LifecycleAssumption ==
  /\ None \notin Starters /\ None \notin Pids
  /\ Tries \in Nat \ {0} /\ MaxReconnects \in Nat
  /\ MaxOutages \in Nat /\ MaxKills \in Nat /\ MaxErrors \in Nat

VARIABLES
  status,    \* status.json: the worker that wrote it, or None
  control,   \* the socket file: the worker that bound it, or None
  startPc,
  workerPc,
  stopPc,
  pid,       \* the process id of each worker
  asked,     \* the workers with stop_requested or STOP_REQUESTED set
  attempts,  \* reconnect_snapshot's failed attempts
  conn,      \* the connections each stopper made, one per try
  try,       \* the stopper's present try
  target,    \* stopped_pid, as the worker that wrote it
  herdr,     \* is Herdr's server up?
  hook,      \* the starter its last startup called
  served,    \* history: the workers that wrote their status
  outages, kills, errors

files   == <<status, control>>
pcs     == <<startPc, workerPc, stopPc>>
workers == <<pid, asked, attempts, served>>
clients == <<conn, try, target>>
server  == <<herdr, hook, outages>>
faults  == <<kills, errors>>
vars    == <<files, pcs, workers, clients, server, faults>>

NoConn == [peer |-> None, sent |-> FALSE, state |-> "none"]

Init ==
  /\ status = None /\ control = None
  /\ startPc = [s \in Starters |-> "idle"]
  /\ workerPc = [s \in Starters |-> "none"]
  /\ stopPc = [j \in Stoppers |-> "idle"]
  /\ pid = [s \in Starters |-> None]
  /\ asked = {} /\ served = {}
  /\ attempts = [s \in Starters |-> 0]
  /\ conn = [j \in Stoppers |-> [n \in 1..Tries |-> NoConn]]
  /\ try = [j \in Stoppers |-> 1]
  /\ target = [j \in Stoppers |-> None]
  /\ herdr = FALSE /\ hook = None
  /\ outages = 0 /\ kills = 0 /\ errors = 0

-----------------------------------------------------------------------------
(* The lock.                                                               *)

StarterHolds(s) ==
  startPc[s] \in {"removeStatus", "removeControl", "spawn", "poll", "pollControl",
                  "reap", "undoStatus", "undoControl"}

Alive(s) == workerPc[s] \notin {"none", "gone"}

\* The worker inherits its starter's descriptor and keeps it until it exits.
WorkerHolds(s) == Alive(s)

StopperHolds(j) == stopPc[j] \in {"clearStatus", "clearControl"}

LockFree ==
  /\ \A s \in Starters : ~StarterHolds(s) /\ ~WorkerHolds(s)
  /\ \A j \in Stoppers : ~StopperHolds(j)

HeldForLong ==
  \/ \E s \in Starters : StarterHolds(s) /\ startPc[s] \in LongStates
  \/ \E s \in Starters : WorkerHolds(s) /\ workerPc[s] \in LongStates
  \/ \E j \in Stoppers : StopperHolds(j) /\ stopPc[j] \in LongStates

\* The starter has not waited for its dead child: kill(pid, 0) still succeeds.
Zombie(s) == workerPc[s] = "gone" /\ startPc[s] \in {"poll", "pollControl", "reap"}

PidInUse(p) == \E s \in Starters : pid[s] = p /\ (Alive(s) \/ Zombie(s))

StartAt(s, from, to)  == startPc[s] = from /\ startPc' = [startPc EXCEPT ![s] = to]
WorkerAt(s, from, to) == workerPc[s] = from /\ workerPc' = [workerPc EXCEPT ![s] = to]
StopAt(j, from, to)   == stopPc[j] = from /\ stopPc' = [stopPc EXCEPT ![j] = to]

-----------------------------------------------------------------------------
(* Herdr: its startup hook and its actions call start, its actions stop.   *)

HerdrStarts(s) ==
  /\ ~herdr
  /\ StartAt(s, "idle", "lock")
  /\ herdr' = TRUE
  /\ hook' = s
  /\ UNCHANGED <<files, workerPc, stopPc, workers, clients, outages, faults>>

StartAction(s) ==
  /\ herdr
  /\ StartAt(s, "idle", "lock")
  /\ UNCHANGED <<files, workerPc, stopPc, workers, clients, server, faults>>

HerdrStops ==
  /\ herdr /\ outages < MaxOutages
  /\ herdr' = FALSE
  /\ outages' = outages + 1
  /\ UNCHANGED <<files, pcs, workers, clients, hook, faults>>

-----------------------------------------------------------------------------
(* start.                                                                  *)

TakeLock(s) ==
  /\ StartAt(s, "lock", "removeStatus")
  /\ LockFree
  /\ UNCHANGED <<files, workerPc, stopPc, workers, clients, server, faults>>

\* wait_for_lock gave up: another start or worker is there, return 0.
LockBusy(s) ==
  /\ StartAt(s, "lock", "busy")
  /\ HeldForLong
  /\ UNCHANGED <<files, workerPc, stopPc, workers, clients, server, faults>>

\* Mutant: start leaves a dead worker's status in place.
StartKeepsStatus(s) ==
  /\ StartAt(s, "removeStatus", "removeControl")
  /\ UNCHANGED <<files, workerPc, stopPc, workers, clients, server, faults>>

StartRemovesStatus(s) ==
  /\ StartAt(s, "removeStatus", "removeControl")
  /\ status' = None
  /\ UNCHANGED <<control, workerPc, stopPc, workers, clients, server, faults>>

StartRemovesControl(s) ==
  /\ StartAt(s, "removeControl", "spawn")
  /\ control' = None
  /\ UNCHANGED <<status, workerPc, stopPc, workers, clients, server, faults>>

Spawn(s) ==
  /\ StartAt(s, "spawn", "poll")
  /\ workerPc' = [workerPc EXCEPT ![s] = "boot"]
  /\ \E p \in Pids :
       /\ ~PidInUse(p)
       /\ pid' = [pid EXCEPT ![s] = p]
  /\ UNCHANGED <<files, stopPc, asked, attempts, served, clients, server, faults>>

\* status_is_ready: the status, then the socket.
PollStatus(s) ==
  /\ StartAt(s, "poll", "pollControl")
  /\ status # None /\ pid[status] = pid[s]
  /\ UNCHANGED <<files, workerPc, stopPc, workers, clients, server, faults>>

PollControl(s) ==
  /\ StartAt(s, "pollControl", IF control # None THEN "started" ELSE "poll")
  /\ UNCHANGED <<files, workerPc, stopPc, workers, clients, server, faults>>

\* Not ready in time: SIGTERM, which kills a worker without a handler.
GiveUpOnWorker(s) ==
  /\ StartAt(s, "poll", "reap")
  /\ IF workerPc[s] = "boot"
     THEN workerPc' = [workerPc EXCEPT ![s] = "gone"] /\ UNCHANGED asked
     ELSE asked' = asked \cup {s} /\ UNCHANGED workerPc
  /\ UNCHANGED <<files, stopPc, pid, attempts, served, clients, server, faults>>

Reap(s) ==
  /\ StartAt(s, "reap", "undoStatus")
  /\ workerPc[s] = "gone"
  /\ UNCHANGED <<files, workerPc, stopPc, workers, clients, server, faults>>

StartUndoesStatus(s) ==
  /\ StartAt(s, "undoStatus", "undoControl")
  /\ status' = None
  /\ UNCHANGED <<control, workerPc, stopPc, workers, clients, server, faults>>

StartUndoesControl(s) ==
  /\ StartAt(s, "undoControl", "failed")
  /\ control' = None
  /\ UNCHANGED <<status, workerPc, stopPc, workers, clients, server, faults>>

StartStep(s) ==
  \/ TakeLock(s) \/ LockBusy(s)
  \/ StartRemovesStatus(s) \/ StartRemovesControl(s)
  \/ Spawn(s) \/ PollStatus(s) \/ PollControl(s) \/ GiveUpOnWorker(s)
  \/ Reap(s) \/ StartUndoesStatus(s) \/ StartUndoesControl(s)

-----------------------------------------------------------------------------
(* worker.                                                                 *)

\* install_signal_handler and Worker::new.
Boot(s) ==
  /\ WorkerAt(s, "boot", "setupStatus")
  /\ UNCHANGED <<files, startPc, stopPc, workers, clients, server, faults>>

SetupRemovesStatus(s) ==
  /\ WorkerAt(s, "setupStatus", "setupControl")
  /\ status' = None
  /\ UNCHANGED <<control, startPc, stopPc, workers, clients, server, faults>>

SetupRemovesControl(s) ==
  /\ WorkerAt(s, "setupControl", "bind")
  /\ control' = None
  /\ UNCHANGED <<status, startPc, stopPc, workers, clients, server, faults>>

Bind(s) ==
  /\ WorkerAt(s, "bind", "publish")
  /\ control = None
  /\ control' = s
  /\ UNCHANGED <<status, startPc, stopPc, workers, clients, server, faults>>

\* write_status.
PublishStatus(s) ==
  /\ WorkerAt(s, "publish", "connect")
  /\ status' = s
  /\ served' = served \cup {s}
  /\ UNCHANGED <<control, startPc, stopPc, pid, asked, attempts, clients, server, faults>>

\* One pass of reconnect_snapshot's loop.
Connect(s) ==
  /\ s \notin asked /\ attempts[s] < MaxReconnects
  /\ herdr
  /\ WorkerAt(s, "connect", "run")
  /\ attempts' = [attempts EXCEPT ![s] = 0]
  /\ UNCHANGED <<files, startPc, stopPc, pid, asked, served, clients, server, faults>>

\* Mutant: one attempt too many.
AttemptOneMore(s) ==
  /\ s \notin asked /\ attempts[s] <= MaxReconnects
  /\ ~herdr
  /\ WorkerAt(s, "connect", "backoff")
  /\ attempts' = [attempts EXCEPT ![s] = @ + 1]
  /\ UNCHANGED <<files, startPc, stopPc, pid, asked, served, clients, server, faults>>

\* Mutant: a failed attempt is not counted.
AttemptUncounted(s) ==
  /\ s \notin asked /\ attempts[s] < MaxReconnects
  /\ ~herdr
  /\ WorkerAt(s, "connect", "backoff")
  /\ UNCHANGED <<files, startPc, stopPc, workers, clients, server, faults>>

AttemptFails(s) ==
  /\ s \notin asked /\ attempts[s] < MaxReconnects
  /\ ~herdr
  /\ WorkerAt(s, "connect", "backoff")
  /\ attempts' = [attempts EXCEPT ![s] = @ + 1]
  /\ UNCHANGED <<files, startPc, stopPc, pid, asked, served, clients, server, faults>>

\* The sleep after a failed attempt, the last one included.
Wake(s) ==
  /\ WorkerAt(s, "backoff", "connect")
  /\ UNCHANGED <<files, startPc, stopPc, workers, clients, server, faults>>

GiveUpOnHerdr(s) ==
  /\ s \in asked \/ attempts[s] = MaxReconnects
  /\ WorkerAt(s, "connect", "close")
  /\ UNCHANGED <<files, startPc, stopPc, workers, clients, server, faults>>

\* An event poll, a snapshot, a report or a plugin check failed.
LoseHerdr(s) ==
  /\ s \notin asked
  /\ ~herdr
  /\ WorkerAt(s, "run", "connect")
  /\ UNCHANGED <<files, startPc, stopPc, workers, clients, server, faults>>

\* Mutant: the loop does not look at the stop flags.
LeaveLoopNever(s) == FALSE /\ UNCHANGED vars

LeaveLoop(s) ==
  /\ s \in asked
  /\ WorkerAt(s, "run", "close")
  /\ UNCHANGED <<files, startPc, stopPc, workers, clients, server, faults>>

\* handle_control: accept a connection, read from it, answer, drop it.
Accept(s) ==
  /\ s \notin asked
  /\ WorkerAt(s, "run", "control")
  /\ \E j \in Stoppers, n \in 1..Tries :
       /\ conn[j][n].peer = s /\ conn[j][n].state = "queued"
       /\ conn' = [conn EXCEPT ![j][n].state = "accepted"]
  /\ UNCHANGED <<files, startPc, stopPc, workers, try, target, server, faults>>

Accepted(s, j, n) == conn[j][n].peer = s /\ conn[j][n].state = "accepted"

ReadStop(s) ==
  /\ WorkerAt(s, "control", "run")
  /\ \E j \in Stoppers, n \in 1..Tries :
       /\ Accepted(s, j, n) /\ conn[j][n].sent
       /\ conn' = [conn EXCEPT ![j][n].state = "answered"]
  /\ asked' = asked \cup {s}
  /\ UNCHANGED <<files, startPc, stopPc, pid, attempts, served, try, target, server, faults>>

\* The message is not there yet, or never will be.
ReadNothing(s) ==
  /\ WorkerAt(s, "control", "drop")
  /\ \E j \in Stoppers, n \in 1..Tries : Accepted(s, j, n) /\ ~conn[j][n].sent
  /\ UNCHANGED <<files, startPc, stopPc, workers, clients, server, faults>>

DropConn(s) ==
  /\ WorkerAt(s, "drop", "run")
  /\ \E j \in Stoppers, n \in 1..Tries :
       /\ Accepted(s, j, n)
       /\ conn' = [conn EXCEPT ![j][n].state = "closed"]
  /\ UNCHANGED <<files, startPc, stopPc, workers, try, target, server, faults>>

\* Every connection to s that has no answer sees its end.
CloseConns(s) ==
  conn' = [j \in Stoppers |-> [n \in 1..Tries |->
             IF conn[j][n].peer = s /\ conn[j][n].state \in {"queued", "accepted"}
             THEN [conn[j][n] EXCEPT !.state = "closed"]
             ELSE conn[j][n]]]

\* close.
CloseListener(s) ==
  /\ WorkerAt(s, "close", "unlinkStatus")
  /\ CloseConns(s)
  /\ UNCHANGED <<files, startPc, stopPc, workers, try, target, server, faults>>

CloseRemovesStatus(s) ==
  /\ WorkerAt(s, "unlinkStatus", "unlinkControl")
  /\ status' = None
  /\ UNCHANGED <<control, startPc, stopPc, workers, clients, server, faults>>

\* Mutant: close leaves the socket file behind.
CloseKeepsControl(s) ==
  /\ WorkerAt(s, "unlinkControl", "gone")
  /\ UNCHANGED <<files, startPc, stopPc, workers, clients, server, faults>>

CloseRemovesControl(s) ==
  /\ WorkerAt(s, "unlinkControl", "gone")
  /\ control' = None
  /\ UNCHANGED <<status, startPc, stopPc, workers, clients, server, faults>>

WorkerStep(s) ==
  \/ Boot(s) \/ SetupRemovesStatus(s) \/ SetupRemovesControl(s) \/ Bind(s) \/ PublishStatus(s)
  \/ Connect(s) \/ AttemptFails(s) \/ Wake(s) \/ GiveUpOnHerdr(s)
  \/ LoseHerdr(s) \/ LeaveLoop(s)
  \/ Accept(s) \/ ReadStop(s) \/ ReadNothing(s) \/ DropConn(s)
  \/ CloseListener(s) \/ CloseRemovesStatus(s) \/ CloseRemovesControl(s)

-----------------------------------------------------------------------------
(* stop.                                                                   *)

\* Mutant: stop removes the files whether it has the lock or not.
StopTakesAnyLock(j) ==
  /\ StopAt(j, "idle", "clearStatus")
  /\ UNCHANGED <<files, startPc, workerPc, workers, clients, server, faults>>

StopTakesLock(j) ==
  /\ StopAt(j, "idle", "clearStatus")
  /\ LockFree
  /\ UNCHANGED <<files, startPc, workerPc, workers, clients, server, faults>>

StopFindsWorker(j) ==
  /\ StopAt(j, "idle", "readStatus")
  /\ ~LockFree
  /\ UNCHANGED <<files, startPc, workerPc, workers, clients, server, faults>>

StopClearsStatus(j) ==
  /\ StopAt(j, "clearStatus", "clearControl")
  /\ status' = None
  /\ UNCHANGED <<control, startPc, workerPc, workers, clients, server, faults>>

StopClearsControl(j) ==
  /\ StopAt(j, "clearControl", "cleared")
  /\ control' = None
  /\ UNCHANGED <<status, startPc, workerPc, workers, clients, server, faults>>

ReadStatus(j) ==
  /\ StopAt(j, "readStatus", "connect")
  /\ target' = [target EXCEPT ![j] = status]
  /\ UNCHANGED <<files, startPc, workerPc, workers, conn, try, server, faults>>

Listening ==
  /\ control # None
  /\ workerPc[control] \notin {"gone", "unlinkStatus", "unlinkControl"}

ConnectControl(j) ==
  /\ StopAt(j, "connect", "write")
  /\ Listening
  /\ conn' = [conn EXCEPT ![j][try[j]] = [peer |-> control, sent |-> FALSE, state |-> "queued"]]
  /\ UNCHANGED <<files, startPc, workerPc, workers, try, target, server, faults>>

\* The next try, or "its control socket is unavailable".
TryAgain(j, from) ==
  /\ StopAt(j, from, IF try[j] < Tries THEN "connect" ELSE "failed")
  /\ try' = [try EXCEPT ![j] = IF @ < Tries THEN @ + 1 ELSE @]
  /\ UNCHANGED <<files, startPc, workerPc, workers, conn, target, server, faults>>

Present(j) == conn[j][try[j]].state

ConnectRefused(j) == ~Listening /\ TryAgain(j, "connect")

SendStop(j) ==
  /\ StopAt(j, "write", "read")
  /\ Present(j) # "closed"
  /\ conn' = [conn EXCEPT ![j][try[j]].sent = TRUE]
  /\ UNCHANGED <<files, startPc, workerPc, workers, try, target, server, faults>>

SendFails(j) == Present(j) = "closed" /\ TryAgain(j, "write")

\* An answer, or the end of the connection, which the code takes for one.
ReadAnswer(j) ==
  /\ StopAt(j, "read", "wait")
  /\ Present(j) \in {"answered", "closed"}
  /\ UNCHANGED <<files, startPc, workerPc, workers, clients, server, faults>>

\* A time-out or a reset connection.
ReadFails(j) == Present(j) # "answered" /\ TryAgain(j, "read")

\* Mutant: a missing status counts as the end of the process.
ExitedOrUnknown(t) == status = None \/ pid[status] # pid[t] \/ ~PidInUse(pid[t])

\* wait_for_pid_exit's two reasons to believe the process gone.
Exited(t) ==
  \/ status # None /\ pid[status] # pid[t]
  \/ ~PidInUse(pid[t])

SeeExit(j) ==
  /\ StopAt(j, "wait", "stopped")
  /\ \A t \in Starters : target[j] = t => Exited(t)
  /\ UNCHANGED <<files, startPc, workerPc, workers, clients, server, faults>>

\* "did not stop before timeout"; a stranger with the same id looks alive too.
WaitTimesOut(j) ==
  /\ StopAt(j, "wait", "failed")
  /\ target[j] # None
  /\ UNCHANGED <<files, startPc, workerPc, workers, clients, server, faults>>

StopStep(j) ==
  \/ StopClearsStatus(j) \/ StopClearsControl(j)
  \/ ReadStatus(j) \/ ConnectControl(j) \/ ConnectRefused(j)
  \/ SendStop(j) \/ SendFails(j) \/ ReadAnswer(j) \/ ReadFails(j)
  \/ SeeExit(j) \/ WaitTimesOut(j)

-----------------------------------------------------------------------------
(* Errors and kills.                                                       *)

Err == errors < MaxErrors /\ errors' = errors + 1 /\ UNCHANGED kills

\* A call of start fails before there is a child.
StartFails(s) ==
  /\ Err
  /\ startPc[s] \in {"removeStatus", "removeControl", "spawn"}
  /\ startPc' = [startPc EXCEPT ![s] = "failed"]
  /\ UNCHANGED <<files, workerPc, stopPc, workers, clients, server>>

\* worker returns before it has a Worker to close.
BootFails(s) ==
  /\ Err
  /\ WorkerAt(s, "boot", "gone")
  /\ UNCHANGED <<files, startPc, stopPc, workers, clients, server>>

\* setup_control fails, reconnect_snapshot meets an error it does not retry,
\* sampling fails or the plugin is disabled.
WorkerGivesUp(s) ==
  /\ Err
  /\ workerPc[s] \in {"setupStatus", "setupControl", "bind", "publish", "connect", "run"}
  /\ workerPc' = [workerPc EXCEPT ![s] = "close"]
  /\ UNCHANGED <<files, startPc, stopPc, workers, clients, server>>

\* A server that is up fails a request.
RequestFails(s) ==
  /\ Err
  /\ s \notin asked /\ herdr
  /\ \/ WorkerAt(s, "run", "connect") /\ UNCHANGED attempts
     \/ /\ attempts[s] < MaxReconnects
        /\ WorkerAt(s, "connect", "backoff")
        /\ attempts' = [attempts EXCEPT ![s] = @ + 1]
  /\ UNCHANGED <<files, startPc, stopPc, pid, asked, served, clients, server>>

Error(s) == StartFails(s) \/ BootFails(s) \/ WorkerGivesUp(s) \/ RequestFails(s)

KillOne == kills < MaxKills /\ kills' = kills + 1 /\ UNCHANGED errors

KillStarter(s) ==
  /\ KillOne
  /\ startPc[s] = "lock" \/ StarterHolds(s)
  /\ startPc' = [startPc EXCEPT ![s] = "dead"]
  /\ UNCHANGED <<files, workerPc, stopPc, workers, clients, server>>

KillWorker(s) ==
  /\ KillOne
  /\ Alive(s)
  /\ workerPc' = [workerPc EXCEPT ![s] = "gone"]
  /\ CloseConns(s)
  /\ UNCHANGED <<files, startPc, stopPc, workers, try, target, server>>

KillStopper(j) ==
  /\ KillOne
  /\ stopPc[j] \notin {"idle", "cleared", "stopped", "failed", "dead"}
  /\ stopPc' = [stopPc EXCEPT ![j] = "dead"]
  /\ UNCHANGED <<files, startPc, workerPc, workers, clients, server>>

-----------------------------------------------------------------------------

Next ==
  \/ HerdrStops
  \/ \E s \in Starters :
       \/ HerdrStarts(s) \/ StartAction(s)
       \/ StartStep(s) \/ WorkerStep(s) \/ Error(s)
       \/ KillStarter(s) \/ KillWorker(s)
  \/ \E j \in Stoppers :
       \/ StopTakesLock(j) \/ StopFindsWorker(j)
       \/ StopStep(j) \/ KillStopper(j)

\* A process that runs goes on: every request and every wait has a time limit.
\* Herdr owes nobody a start, and errors and kills need not happen.
Fairness ==
  /\ \A s \in Starters : WF_vars(StartStep(s)) /\ WF_vars(WorkerStep(s))
  /\ \A j \in Stoppers : WF_vars(StopStep(j))

Spec == Init /\ [][Next]_vars /\ Fairness

-----------------------------------------------------------------------------
(* Properties.                                                             *)

StartLabels ==
  {"idle", "lock", "removeStatus", "removeControl", "spawn", "poll", "pollControl", "reap",
   "undoStatus", "undoControl", "started", "busy", "failed", "dead"}

WorkerLabels ==
  {"none", "boot", "setupStatus", "setupControl", "bind", "publish", "connect", "backoff",
   "run", "control", "drop", "close", "unlinkStatus", "unlinkControl", "gone"}

StopLabels ==
  {"idle", "clearStatus", "clearControl", "cleared", "readStatus", "connect", "write", "read",
   "wait", "stopped", "failed", "dead"}

Conn == [peer : Starters \cup {None}, sent : BOOLEAN,
         state : {"none", "queued", "accepted", "answered", "closed"}]

\* The types, and: a worker's failed attempts to reach Herdr are bounded by
\* MAX_RECONNECTS.
TypeOK ==
  /\ status \in Starters \cup {None}
  /\ control \in Starters \cup {None}
  /\ startPc \in [Starters -> StartLabels]
  /\ workerPc \in [Starters -> WorkerLabels]
  /\ stopPc \in [Stoppers -> StopLabels]
  /\ pid \in [Starters -> Pids \cup {None}]
  /\ asked \subseteq Starters /\ served \subseteq Starters
  /\ attempts \in [Starters -> 0..MaxReconnects]
  /\ conn \in [Stoppers -> [1..Tries -> Conn]]
  /\ try \in [Stoppers -> 1..Tries]
  /\ target \in [Stoppers -> Starters \cup {None}]
  /\ herdr \in BOOLEAN /\ hook \in Starters \cup {None}
  /\ outages \in Nat /\ kills \in Nat /\ errors \in Nat

Serving(s) ==
  /\ s \in served
  /\ workerPc[s] \in {"connect", "backoff", "run", "control", "drop", "close"}

\* As long as a worker serves, the status file names it and the socket is its
\* own: no start, stop, dying worker or second worker takes them from it, so
\* stop can always find it, and there is only one.
ServingOwnsFiles == \A s \in Starters : Serving(s) => status = s /\ control = s

\* When the lock is free nobody's files are left, unless a process was killed.
NothingLeftBehind == kills = 0 /\ LockFree => status = None /\ control = None

\* stop that returns 0 after it was answered: the worker whose status it read
\* is gone, even if another process has its id or another worker took over.
StoppedIsGone ==
  \A j \in Stoppers :
    stopPc[j] = "stopped" /\ target[j] # None => workerPc[target[j]] = "gone"

\* start that says its worker is ready: that very worker has published its
\* status, whatever a dead worker of the same process id left.
StartedHasServed == \A s \in Starters : startPc[s] = "started" => s \in served

\* A worker that was asked to stop, by message or by signal, exits.
AskedExits == \A s \in Starters : s \in asked ~> workerPc[s] = "gone"

\* start returns in the end, though it waits for its child without a limit.
StartReturns ==
  \A s \in Starters :
    startPc[s] = "lock" ~> startPc[s] \in {"started", "busy", "failed", "dead"}

\* Once Herdr's server is down for good, no worker stays.
ExitsWithoutHerdr == <>[]~herdr => <>[](\A s \in Starters : ~Alive(s))

\* Nobody waits for ever: whoever holds the lock, stop request or server there is.
EverybodyReturns == AskedExits /\ StartReturns /\ ExitsWithoutHerdr

\* README.md: after a worker gave up on a broken server connection, "a
\* subsequent server startup launches a new worker".  So when the startup hook
\* has returned success and nobody was asked to stop, there is a worker.
StartupLaunchesWorker ==
  herdr /\ hook # None /\ asked = {} /\ startPc[hook] \in {"started", "busy"}
    => \E s \in Starters : Alive(s)

=============================================================================
