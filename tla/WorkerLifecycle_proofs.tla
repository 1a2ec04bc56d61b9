----------------------- MODULE WorkerLifecycle_proofs -----------------------
(***************************************************************************)
(* Proofs about WorkerLifecycle, for any number of starts, stops, process  *)
(* ids, tries, outages, kills and errors.                                  *)
(*                                                                         *)
(* The argument: the descriptors that lock the file are all copies of one  *)
(* (OneDescriptor), so whoever changes a file while a worker lives is that *)
(* worker; hence the files say how far it has come (WorkerFiles).          *)
(***************************************************************************)
EXTENDS WorkerLifecycle, TLAPS

\* The lock is held through one descriptor: by a starter, its worker or both,
\* or by one stopper.
Holds(s) == StarterHolds(s) \/ WorkerHolds(s)

OneDescriptor ==
  /\ \A s, t \in Starters : Holds(s) /\ Holds(t) => s = t
  /\ \A s \in Starters, j \in Stoppers : ~(Holds(s) /\ StopperHolds(j))
  /\ \A i, j \in Stoppers : StopperHolds(i) /\ StopperHolds(j) => i = j

\* A starter that has not spawned has no worker, one that cleans up after its
\* worker has reaped it.
Family ==
  \A s \in Starters :
    /\ startPc[s] \in {"idle", "lock", "removeStatus", "removeControl", "spawn", "busy"}
         => workerPc[s] = "none"
    /\ startPc[s] \in {"undoStatus", "undoControl"} => workerPc[s] = "gone"

\* What a starter has removed before it spawns is not there.
StarterFiles ==
  \A s \in Starters :
    /\ startPc[s] \in {"removeControl", "spawn"} => status = None
    /\ startPc[s] = "spawn" => control = None
    /\ startPc[s] \in {"poll", "pollControl", "reap"} => status \in {None, s}

\* The files of a living worker tell how far it is.
WorkerFiles ==
  \A s \in Starters :
    /\ workerPc[s] \in {"boot", "setupStatus", "setupControl", "bind"}
         => status = None /\ control = None /\ s \notin served
    /\ workerPc[s] = "publish" => status = None /\ control = s /\ s \notin served
    /\ workerPc[s] \in {"connect", "backoff", "run", "control", "drop"}
         => status = s /\ control = s /\ s \in served
    /\ workerPc[s] = "close" /\ s \in served => status = s /\ control = s
    /\ workerPc[s] \in {"close", "unlinkStatus"} => status \in {None, s}
    /\ workerPc[s] = "unlinkControl" => status = None

\* The status was written by the last worker that served.
ServedHistory ==
  /\ \A s \in served : workerPc[s] # "none"
  /\ status # None => status \in served
  /\ status # None => \A s \in served : s = status \/ workerPc[s] = "gone"
  /\ \A s \in Starters : startPc[s] \in {"pollControl", "started"} => s \in served

\* Without kills the files exist only while a worker lives.
Tidy == kills = 0 /\ (\A s \in Starters : ~Alive(s)) => status = None /\ control = None

\* What a stopper read was the status of a worker that served.
StopKnows ==
  \A j \in Stoppers :
    /\ target[j] # None => target[j] \in served
    /\ stopPc[j] = "stopped" /\ target[j] # None => workerPc[target[j]] = "gone"

IInv ==
  /\ TypeOK /\ OneDescriptor /\ Family /\ StarterFiles /\ WorkerFiles
  /\ ServedHistory /\ Tidy /\ StopKnows

-----------------------------------------------------------------------------
(* Types.                                                                  *)

\* The initial state has the types.
LEMMA InitTypes == ASSUME Init PROVE TypeOK
<1>1. /\ 1 \in 1..Tries /\ 0 \in 0..MaxReconnects
  BY LifecycleAssumption
<1>2. NoConn \in Conn
  BY DEF NoConn, Conn
<1>3. conn \in [Stoppers -> [1..Tries -> Conn]]
  BY <1>2 DEF Init
<1>4. /\ startPc \in [Starters -> StartLabels]
      /\ workerPc \in [Starters -> WorkerLabels]
      /\ stopPc \in [Stoppers -> StopLabels]
  BY DEF Init, StartLabels, WorkerLabels, StopLabels
<1> QED
  BY <1>1, <1>3, <1>4 DEF Init, TypeOK

\* The labels and the connection records, for the provers.
LEMMA ConnTypes ==
  ASSUME TypeOK, NEW j \in Stoppers, NEW n \in 1..Tries
  PROVE  /\ conn[j][n] \in Conn
         /\ conn[j] \in [1..Tries -> Conn]
  BY DEF TypeOK

\* Ending a worker's connections keeps their type.
LEMMA CloseConnsType ==
  ASSUME TypeOK, NEW s \in Starters, CloseConns(s)
  PROVE  conn' \in [Stoppers -> [1..Tries -> Conn]]
<1>1. ASSUME NEW j \in Stoppers, NEW n \in 1..Tries
      PROVE  /\ conn[j][n] \in Conn
             /\ [conn[j][n] EXCEPT !.state = "closed"] \in Conn
  <2>1. conn[j][n] \in Conn
    BY DEF TypeOK
  <2> QED
    BY <2>1 DEF Conn
<1> QED
  BY <1>1 DEF CloseConns

\* So does changing the state of one connection, and marking its message sent.
LEMMA ConnUpdate ==
  ASSUME TypeOK, NEW j \in Stoppers, NEW n \in 1..Tries,
         NEW x \in {"none", "queued", "accepted", "answered", "closed"}
  PROVE  /\ [conn EXCEPT ![j][n].state = x] \in [Stoppers -> [1..Tries -> Conn]]
         /\ [conn EXCEPT ![j][n].sent = TRUE] \in [Stoppers -> [1..Tries -> Conn]]
<1>1. conn[j][n] \in Conn /\ conn[j] \in [1..Tries -> Conn]
  BY DEF TypeOK
<1>2. [conn[j][n] EXCEPT !.state = x] \in Conn
  BY <1>1 DEF Conn
<1>3. [conn[j][n] EXCEPT !.sent = TRUE] \in Conn
  BY <1>1 DEF Conn
<1>4. /\ [conn[j] EXCEPT ![n] = [conn[j][n] EXCEPT !.state = x]] \in [1..Tries -> Conn]
      /\ [conn[j] EXCEPT ![n] = [conn[j][n] EXCEPT !.sent = TRUE]] \in [1..Tries -> Conn]
  BY <1>1, <1>2, <1>3
<1> QED
  BY <1>4 DEF TypeOK

\* Every step keeps the types.
LEMMA StepTypes == ASSUME TypeOK, Next PROVE TypeOK'
<1> USE DEF StartAt, WorkerAt, StopAt, files, pcs, workers, clients, server, faults
<1>1. CASE HerdrStops
  <2>1. herdr' \in BOOLEAN
    BY <1>1 DEF HerdrStops
  <2>2. outages' = outages + 1
    BY <1>1 DEF HerdrStops
  <2> QED
    BY <1>1, <2>1, <2>2 DEF TypeOK, HerdrStops
<1>2. ASSUME NEW s \in Starters, HerdrStarts(s) PROVE TypeOK'
  BY <1>2 DEF TypeOK, HerdrStarts, StartLabels
<1>3. ASSUME NEW s \in Starters, StartAction(s) PROVE TypeOK'
  BY <1>3 DEF TypeOK, StartAction, StartLabels
<1>4. ASSUME NEW s \in Starters, TakeLock(s) PROVE TypeOK'
  BY <1>4 DEF TypeOK, TakeLock, StartLabels
<1>5. ASSUME NEW s \in Starters, LockBusy(s) PROVE TypeOK'
  BY <1>5 DEF TypeOK, LockBusy, StartLabels
<1>6. ASSUME NEW s \in Starters, StartRemovesStatus(s) PROVE TypeOK'
  BY <1>6 DEF TypeOK, StartRemovesStatus, StartLabels
<1>7. ASSUME NEW s \in Starters, StartRemovesControl(s) PROVE TypeOK'
  BY <1>7 DEF TypeOK, StartRemovesControl, StartLabels
<1>8. ASSUME NEW s \in Starters, Spawn(s) PROVE TypeOK'
  BY <1>8 DEF TypeOK, Spawn, StartLabels, WorkerLabels
<1>9. ASSUME NEW s \in Starters, PollStatus(s) PROVE TypeOK'
  BY <1>9 DEF TypeOK, PollStatus, StartLabels
<1>10. ASSUME NEW s \in Starters, PollControl(s) PROVE TypeOK'
  BY <1>10 DEF TypeOK, PollControl, StartLabels
<1>11. ASSUME NEW s \in Starters, GiveUpOnWorker(s) PROVE TypeOK'
  BY <1>11 DEF TypeOK, GiveUpOnWorker, StartLabels, WorkerLabels
<1>12. ASSUME NEW s \in Starters, Reap(s) PROVE TypeOK'
  BY <1>12 DEF TypeOK, Reap, StartLabels
<1>13. ASSUME NEW s \in Starters, StartUndoesStatus(s) PROVE TypeOK'
  BY <1>13 DEF TypeOK, StartUndoesStatus, StartLabels
<1>14. ASSUME NEW s \in Starters, StartUndoesControl(s) PROVE TypeOK'
  BY <1>14 DEF TypeOK, StartUndoesControl, StartLabels
<1>15. ASSUME NEW s \in Starters, Boot(s) PROVE TypeOK'
  BY <1>15 DEF TypeOK, Boot, WorkerLabels
<1>16. ASSUME NEW s \in Starters, SetupRemovesStatus(s) PROVE TypeOK'
  BY <1>16 DEF TypeOK, SetupRemovesStatus, WorkerLabels
<1>17. ASSUME NEW s \in Starters, SetupRemovesControl(s) PROVE TypeOK'
  BY <1>17 DEF TypeOK, SetupRemovesControl, WorkerLabels
<1>18. ASSUME NEW s \in Starters, Bind(s) PROVE TypeOK'
  BY <1>18 DEF TypeOK, Bind, WorkerLabels
<1>19. ASSUME NEW s \in Starters, PublishStatus(s) PROVE TypeOK'
  BY <1>19 DEF TypeOK, PublishStatus, WorkerLabels
<1>20. ASSUME NEW s \in Starters, Connect(s) PROVE TypeOK'
  <2>1. herdr' \in BOOLEAN
    BY <1>20 DEF TypeOK, Connect
  <2> QED
    BY LifecycleAssumption, <1>20, <2>1 DEF TypeOK, Connect, WorkerLabels
<1>21. ASSUME NEW s \in Starters, AttemptFails(s) PROVE TypeOK'
  <2>1. herdr' \in BOOLEAN
    BY <1>21 DEF TypeOK, AttemptFails
  <2> QED
    BY LifecycleAssumption, <1>21, <2>1 DEF TypeOK, AttemptFails, WorkerLabels
<1>22. ASSUME NEW s \in Starters, Wake(s) PROVE TypeOK'
  BY <1>22 DEF TypeOK, Wake, WorkerLabels
<1>23. ASSUME NEW s \in Starters, GiveUpOnHerdr(s) PROVE TypeOK'
  BY <1>23 DEF TypeOK, GiveUpOnHerdr, WorkerLabels
<1>24. ASSUME NEW s \in Starters, LoseHerdr(s) PROVE TypeOK'
  BY <1>24 DEF TypeOK, LoseHerdr, WorkerLabels
<1>25. ASSUME NEW s \in Starters, LeaveLoop(s) PROVE TypeOK'
  BY <1>25 DEF TypeOK, LeaveLoop, WorkerLabels
<1>26. ASSUME NEW s \in Starters, Accept(s) PROVE TypeOK'
  <2>1. PICK j \in Stoppers, n \in 1..Tries : conn' = [conn EXCEPT ![j][n].state = "accepted"]
    BY <1>26 DEF Accept
  <2>2. conn' \in [Stoppers -> [1..Tries -> Conn]]
    BY <2>1, ConnUpdate
  <2> QED
    BY <1>26, <2>2 DEF TypeOK, Accept, WorkerLabels
<1>27. ASSUME NEW s \in Starters, ReadStop(s) PROVE TypeOK'
  <2>1. PICK j \in Stoppers, n \in 1..Tries : conn' = [conn EXCEPT ![j][n].state = "answered"]
    BY <1>27 DEF ReadStop
  <2>2. conn' \in [Stoppers -> [1..Tries -> Conn]]
    BY <2>1, ConnUpdate
  <2> QED
    BY <1>27, <2>2 DEF TypeOK, ReadStop, WorkerLabels
<1>28. ASSUME NEW s \in Starters, ReadNothing(s) PROVE TypeOK'
  BY <1>28 DEF TypeOK, ReadNothing, WorkerLabels, Accepted
<1>29. ASSUME NEW s \in Starters, DropConn(s) PROVE TypeOK'
  <2>1. PICK j \in Stoppers, n \in 1..Tries : conn' = [conn EXCEPT ![j][n].state = "closed"]
    BY <1>29 DEF DropConn
  <2>2. conn' \in [Stoppers -> [1..Tries -> Conn]]
    BY <2>1, ConnUpdate
  <2> QED
    BY <1>29, <2>2 DEF TypeOK, DropConn, WorkerLabels
<1>30. ASSUME NEW s \in Starters, CloseListener(s) PROVE TypeOK'
  BY <1>30, CloseConnsType DEF TypeOK, CloseListener, WorkerLabels
<1>31. ASSUME NEW s \in Starters, CloseRemovesStatus(s) PROVE TypeOK'
  BY <1>31 DEF TypeOK, CloseRemovesStatus, WorkerLabels
<1>32. ASSUME NEW s \in Starters, CloseRemovesControl(s) PROVE TypeOK'
  BY <1>32 DEF TypeOK, CloseRemovesControl, WorkerLabels
<1>33. ASSUME NEW s \in Starters, StartFails(s) PROVE TypeOK'
  BY <1>33 DEF TypeOK, StartFails, Err, StartLabels
<1>34. ASSUME NEW s \in Starters, BootFails(s) PROVE TypeOK'
  BY <1>34 DEF TypeOK, BootFails, Err, WorkerLabels
<1>35. ASSUME NEW s \in Starters, WorkerGivesUp(s) PROVE TypeOK'
  BY <1>35 DEF TypeOK, WorkerGivesUp, Err, WorkerLabels
<1>36. ASSUME NEW s \in Starters, RequestFails(s) PROVE TypeOK'
  <2>1. herdr' \in BOOLEAN
    BY <1>36 DEF TypeOK, RequestFails
  <2>2. attempts' \in [Starters -> 0..MaxReconnects]
    <3>1. \/ UNCHANGED attempts
          \/ /\ attempts[s] < MaxReconnects
             /\ attempts' = [attempts EXCEPT ![s] = @ + 1]
      BY <1>36 DEF RequestFails
    <3>2. attempts \in [Starters -> 0..MaxReconnects]
      BY DEF TypeOK
    <3> QED
      BY <3>1, <3>2, LifecycleAssumption
  <2>3. workerPc' \in [Starters -> WorkerLabels]
    BY <1>36 DEF TypeOK, RequestFails, WorkerLabels
  <2>4. errors' \in Nat /\ kills' \in Nat
    BY <1>36 DEF TypeOK, RequestFails, Err
  <2> QED
    BY <1>36, <2>1, <2>2, <2>3, <2>4 DEF TypeOK, RequestFails
<1>37. ASSUME NEW s \in Starters, KillStarter(s) PROVE TypeOK'
  BY <1>37 DEF TypeOK, KillStarter, KillOne, StartLabels
<1>38. ASSUME NEW s \in Starters, KillWorker(s) PROVE TypeOK'
  BY <1>38, CloseConnsType DEF TypeOK, KillWorker, KillOne, WorkerLabels
<1>39. ASSUME NEW j \in Stoppers, StopTakesLock(j) PROVE TypeOK'
  BY <1>39 DEF TypeOK, StopTakesLock, StopLabels
<1>40. ASSUME NEW j \in Stoppers, StopFindsWorker(j) PROVE TypeOK'
  BY <1>40 DEF TypeOK, StopFindsWorker, StopLabels
<1>41. ASSUME NEW j \in Stoppers, StopClearsStatus(j) PROVE TypeOK'
  BY <1>41 DEF TypeOK, StopClearsStatus, StopLabels
<1>42. ASSUME NEW j \in Stoppers, StopClearsControl(j) PROVE TypeOK'
  BY <1>42 DEF TypeOK, StopClearsControl, StopLabels
<1>43. ASSUME NEW j \in Stoppers, ReadStatus(j) PROVE TypeOK'
  BY <1>43 DEF TypeOK, ReadStatus, StopLabels
<1>44. ASSUME NEW j \in Stoppers, ConnectControl(j) PROVE TypeOK'
  BY <1>44, ConnTypes DEF TypeOK, ConnectControl, StopLabels, Conn, Listening
<1>45. ASSUME NEW j \in Stoppers, ConnectRefused(j) PROVE TypeOK'
  BY <1>45, LifecycleAssumption DEF TypeOK, ConnectRefused, StopLabels, TryAgain
<1>46. ASSUME NEW j \in Stoppers, SendStop(j) PROVE TypeOK'
  <2>1. conn' \in [Stoppers -> [1..Tries -> Conn]]
    BY <1>46, ConnUpdate DEF TypeOK, SendStop
  <2> QED
    BY <1>46, <2>1 DEF TypeOK, SendStop, StopLabels
<1>47. ASSUME NEW j \in Stoppers, SendFails(j) PROVE TypeOK'
  BY <1>47, LifecycleAssumption DEF TypeOK, SendFails, StopLabels, TryAgain
<1>48. ASSUME NEW j \in Stoppers, ReadAnswer(j) PROVE TypeOK'
  BY <1>48 DEF TypeOK, ReadAnswer, StopLabels
<1>49. ASSUME NEW j \in Stoppers, ReadFails(j) PROVE TypeOK'
  BY <1>49, LifecycleAssumption DEF TypeOK, ReadFails, StopLabels, TryAgain
<1>50. ASSUME NEW j \in Stoppers, SeeExit(j) PROVE TypeOK'
  BY <1>50 DEF TypeOK, SeeExit, StopLabels
<1>51. ASSUME NEW j \in Stoppers, WaitTimesOut(j) PROVE TypeOK'
  BY <1>51 DEF TypeOK, WaitTimesOut, StopLabels
<1>52. ASSUME NEW j \in Stoppers, KillStopper(j) PROVE TypeOK'
  BY <1>52 DEF TypeOK, KillStopper, StopLabels, KillOne
<1> QED
  BY <1>1, <1>2, <1>3, <1>4, <1>5, <1>6, <1>7, <1>8, <1>9, <1>10, <1>11, <1>12, <1>13, <1>14, <1>15, <1>16, <1>17, <1>18, <1>19, <1>20, <1>21, <1>22, <1>23, <1>24, <1>25, <1>26, <1>27, <1>28, <1>29, <1>30, <1>31, <1>32, <1>33, <1>34, <1>35, <1>36, <1>37, <1>38, <1>39, <1>40, <1>41, <1>42, <1>43, <1>44, <1>45, <1>46, <1>47, <1>48, <1>49, <1>50, <1>51, <1>52
  DEF Next, StartStep, WorkerStep, StopStep, Error

-----------------------------------------------------------------------------
(* The invariant, one conjunct at a time.                                  *)

\* Only a free lock is taken, and a worker inherits the lock of its starter.
LEMMA StepDescriptor ==
  ASSUME TypeOK, OneDescriptor, Next
  PROVE  OneDescriptor'
<1> USE DEF TypeOK, OneDescriptor, Holds, StarterHolds, WorkerHolds, StopperHolds, Alive, StartAt, WorkerAt, StopAt, files, pcs, workers, clients, server, faults
<1>1. CASE HerdrStops
  BY <1>1 DEF HerdrStops
<1>2. ASSUME NEW s \in Starters,
            TakeLock(s)
      PROVE  OneDescriptor'
  BY <1>2 DEF TakeLock, LockFree
<1>3. ASSUME NEW s \in Starters,
            Spawn(s)
      PROVE  OneDescriptor'
  BY <1>3 DEF Spawn
<1>4. ASSUME NEW s \in Starters,
            HerdrStarts(s) \/ StartAction(s) \/ LockBusy(s) \/ StartRemovesStatus(s)
              \/ StartRemovesControl(s) \/ PollStatus(s)
      PROVE  OneDescriptor'
  <2>1. CASE HerdrStarts(s)
    BY <2>1 DEF HerdrStarts
  <2>2. CASE StartAction(s)
    BY <2>2 DEF StartAction
  <2>3. CASE LockBusy(s)
    BY <2>3 DEF LockBusy
  <2>4. CASE StartRemovesStatus(s)
    BY <2>4 DEF StartRemovesStatus
  <2>5. CASE StartRemovesControl(s)
    BY <2>5 DEF StartRemovesControl
  <2>6. CASE PollStatus(s)
    BY <2>6 DEF PollStatus
  <2> QED
    BY <1>4, <2>1, <2>2, <2>3, <2>4, <2>5, <2>6
<1>5. ASSUME NEW s \in Starters,
            PollControl(s) \/ GiveUpOnWorker(s) \/ Reap(s) \/ StartUndoesStatus(s)
              \/ StartUndoesControl(s) \/ Boot(s)
      PROVE  OneDescriptor'
  BY <1>5 DEF PollControl, GiveUpOnWorker, Reap, StartUndoesStatus,
    StartUndoesControl, Boot
<1>6. ASSUME NEW s \in Starters,
            SetupRemovesStatus(s) \/ SetupRemovesControl(s) \/ Bind(s)
              \/ PublishStatus(s) \/ Connect(s) \/ AttemptFails(s)
      PROVE  OneDescriptor'
  BY <1>6 DEF SetupRemovesStatus, SetupRemovesControl, Bind, PublishStatus,
    Connect, AttemptFails
<1>7. ASSUME NEW s \in Starters,
            Wake(s) \/ GiveUpOnHerdr(s) \/ LoseHerdr(s) \/ LeaveLoop(s) \/ Accept(s)
              \/ ReadStop(s)
      PROVE  OneDescriptor'
  BY <1>7 DEF Wake, GiveUpOnHerdr, LoseHerdr, LeaveLoop, Accept, ReadStop, Accepted
<1>8. ASSUME NEW s \in Starters,
            ReadNothing(s) \/ DropConn(s) \/ CloseListener(s)
              \/ CloseRemovesStatus(s) \/ CloseRemovesControl(s) \/ StartFails(s)
      PROVE  OneDescriptor'
  BY <1>8 DEF ReadNothing, DropConn, CloseListener, CloseRemovesStatus,
    CloseRemovesControl, StartFails, Accepted, Err
<1>9. ASSUME NEW s \in Starters,
            BootFails(s) \/ WorkerGivesUp(s) \/ RequestFails(s) \/ KillStarter(s)
              \/ KillWorker(s)
      PROVE  OneDescriptor'
  BY <1>9 DEF BootFails, WorkerGivesUp, RequestFails, KillStarter, KillWorker, Err,
    KillOne
<1>10. ASSUME NEW j \in Stoppers,
            StopTakesLock(j)
      PROVE  OneDescriptor'
  BY <1>10 DEF StopTakesLock, LockFree
<1>11. ASSUME NEW j \in Stoppers,
            StopFindsWorker(j) \/ StopClearsStatus(j) \/ StopClearsControl(j)
              \/ ReadStatus(j) \/ ConnectControl(j) \/ ConnectRefused(j)
              \/ SendStop(j)
      PROVE  OneDescriptor'
  <2>1. CASE StopFindsWorker(j)
    BY <2>1 DEF StopFindsWorker
  <2>2. CASE StopClearsStatus(j)
    BY <2>2 DEF StopClearsStatus
  <2>3. CASE StopClearsControl(j)
    BY <2>3 DEF StopClearsControl
  <2>4. CASE ReadStatus(j)
    BY <2>4 DEF ReadStatus
  <2>5. CASE ConnectControl(j)
    BY <2>5 DEF ConnectControl
  <2>6. CASE ConnectRefused(j)
    BY <2>6 DEF ConnectRefused, TryAgain
  <2>7. CASE SendStop(j)
    BY <2>7 DEF SendStop
  <2> QED
    BY <1>11, <2>1, <2>2, <2>3, <2>4, <2>5, <2>6, <2>7
<1>12. ASSUME NEW j \in Stoppers,
            SendFails(j) \/ ReadAnswer(j) \/ ReadFails(j) \/ SeeExit(j)
              \/ WaitTimesOut(j) \/ KillStopper(j)
      PROVE  OneDescriptor'
  <2>1. CASE SendFails(j)
    BY <2>1 DEF SendFails, TryAgain
  <2>2. CASE ReadAnswer(j)
    BY <2>2 DEF ReadAnswer
  <2>3. CASE ReadFails(j)
    BY <2>3 DEF ReadFails, TryAgain
  <2>4. CASE SeeExit(j)
    BY <2>4 DEF SeeExit
  <2>5. CASE WaitTimesOut(j)
    BY <2>5 DEF WaitTimesOut
  <2>6. CASE KillStopper(j)
    BY <2>6 DEF KillStopper, KillOne
  <2> QED
    BY <1>12, <2>1, <2>2, <2>3, <2>4, <2>5, <2>6
<1> QED
  BY <1>1, <1>2, <1>3, <1>4, <1>5, <1>6, <1>7, <1>8, <1>9, <1>10, <1>11, <1>12 DEF Next, StartStep, WorkerStep, StopStep, Error

\* Workers are born by Spawn, and Reap waits for their end.
LEMMA StepFamily ==
  ASSUME TypeOK, Family, Next
  PROVE  Family'
<1> USE DEF TypeOK, Family, Alive, StartAt, WorkerAt, StopAt, files, pcs, workers, clients, server, faults
<1>1. CASE HerdrStops
  BY <1>1 DEF HerdrStops
<1>2. ASSUME NEW s \in Starters,
            HerdrStarts(s) \/ StartAction(s) \/ TakeLock(s) \/ LockBusy(s)
              \/ StartRemovesStatus(s) \/ StartRemovesControl(s)
      PROVE  Family'
  BY <1>2 DEF HerdrStarts, StartAction, TakeLock, LockBusy, StartRemovesStatus,
    StartRemovesControl
<1>3. ASSUME NEW s \in Starters,
            Spawn(s) \/ PollStatus(s) \/ PollControl(s) \/ GiveUpOnWorker(s)
              \/ Reap(s) \/ StartUndoesStatus(s)
      PROVE  Family'
  BY <1>3 DEF Spawn, PollStatus, PollControl, GiveUpOnWorker, Reap,
    StartUndoesStatus
<1>4. ASSUME NEW s \in Starters,
            StartUndoesControl(s) \/ Boot(s) \/ SetupRemovesStatus(s)
              \/ SetupRemovesControl(s) \/ Bind(s) \/ PublishStatus(s)
      PROVE  Family'
  BY <1>4 DEF StartUndoesControl, Boot, SetupRemovesStatus, SetupRemovesControl,
    Bind, PublishStatus
<1>5. ASSUME NEW s \in Starters,
            Connect(s) \/ AttemptFails(s) \/ Wake(s) \/ GiveUpOnHerdr(s)
              \/ LoseHerdr(s) \/ LeaveLoop(s)
      PROVE  Family'
  BY <1>5 DEF Connect, AttemptFails, Wake, GiveUpOnHerdr, LoseHerdr, LeaveLoop
<1>6. ASSUME NEW s \in Starters,
            Accept(s) \/ ReadStop(s) \/ ReadNothing(s) \/ DropConn(s)
              \/ CloseListener(s) \/ CloseRemovesStatus(s)
      PROVE  Family'
  BY <1>6 DEF Accept, ReadStop, ReadNothing, DropConn, CloseListener,
    CloseRemovesStatus, Accepted
<1>7. ASSUME NEW s \in Starters,
            CloseRemovesControl(s) \/ StartFails(s) \/ BootFails(s)
              \/ WorkerGivesUp(s) \/ RequestFails(s) \/ KillStarter(s)
      PROVE  Family'
  BY <1>7 DEF CloseRemovesControl, StartFails, BootFails, WorkerGivesUp,
    RequestFails, KillStarter, Err, KillOne
<1>8. ASSUME NEW s \in Starters,
            KillWorker(s)
      PROVE  Family'
  BY <1>8 DEF KillWorker, KillOne
<1>9. ASSUME NEW j \in Stoppers,
            StopTakesLock(j) \/ StopFindsWorker(j) \/ StopClearsStatus(j)
              \/ StopClearsControl(j) \/ ReadStatus(j) \/ ConnectControl(j)
              \/ ConnectRefused(j)
      PROVE  Family'
  BY <1>9 DEF StopTakesLock, StopFindsWorker, StopClearsStatus, StopClearsControl,
    ReadStatus, ConnectControl, ConnectRefused, TryAgain
<1>10. ASSUME NEW j \in Stoppers,
            SendStop(j) \/ SendFails(j) \/ ReadAnswer(j) \/ ReadFails(j)
              \/ SeeExit(j) \/ WaitTimesOut(j) \/ KillStopper(j)
      PROVE  Family'
  BY <1>10 DEF SendStop, SendFails, ReadAnswer, ReadFails, SeeExit, WaitTimesOut,
    KillStopper, TryAgain, KillOne
<1> QED
  BY <1>1, <1>2, <1>3, <1>4, <1>5, <1>6, <1>7, <1>8, <1>9, <1>10 DEF Next, StartStep, WorkerStep, StopStep, Error

\* While a starter holds the lock nobody but its worker writes the status.
LEMMA StepStarterFiles ==
  ASSUME TypeOK, OneDescriptor, Family, StarterFiles, Next
  PROVE  StarterFiles'
<1> USE DEF TypeOK, OneDescriptor, Family, Holds, StarterHolds, WorkerHolds, StopperHolds, Alive, StarterFiles, StartAt, WorkerAt, StopAt, files, pcs, workers, clients, server, faults
<1>1. CASE HerdrStops
  BY <1>1 DEF HerdrStops
<1>2. ASSUME NEW s \in Starters,
            HerdrStarts(s) \/ StartAction(s) \/ TakeLock(s) \/ LockBusy(s)
      PROVE  StarterFiles'
  BY <1>2 DEF HerdrStarts, StartAction, TakeLock, LockBusy
<1>3. ASSUME NEW s \in Starters,
            StartRemovesStatus(s) \/ StartRemovesControl(s) \/ Spawn(s)
              \/ PollStatus(s)
      PROVE  StarterFiles'
  BY <1>3 DEF StartRemovesStatus, StartRemovesControl, Spawn, PollStatus
<1>4. ASSUME NEW s \in Starters,
            PollControl(s) \/ GiveUpOnWorker(s) \/ Reap(s) \/ StartUndoesStatus(s)
      PROVE  StarterFiles'
  BY <1>4 DEF PollControl, GiveUpOnWorker, Reap, StartUndoesStatus
<1>5. ASSUME NEW s \in Starters,
            StartUndoesControl(s) \/ Boot(s) \/ SetupRemovesStatus(s)
              \/ SetupRemovesControl(s)
      PROVE  StarterFiles'
  BY <1>5 DEF StartUndoesControl, Boot, SetupRemovesStatus, SetupRemovesControl
<1>6. ASSUME NEW s \in Starters,
            Bind(s) \/ PublishStatus(s) \/ Connect(s) \/ AttemptFails(s)
      PROVE  StarterFiles'
  BY <1>6 DEF Bind, PublishStatus, Connect, AttemptFails
<1>7. ASSUME NEW s \in Starters,
            Wake(s) \/ GiveUpOnHerdr(s) \/ LoseHerdr(s) \/ LeaveLoop(s)
      PROVE  StarterFiles'
  BY <1>7 DEF Wake, GiveUpOnHerdr, LoseHerdr, LeaveLoop
<1>8. ASSUME NEW s \in Starters,
            Accept(s) \/ ReadStop(s) \/ ReadNothing(s) \/ DropConn(s)
      PROVE  StarterFiles'
  BY <1>8 DEF Accept, ReadStop, ReadNothing, DropConn, Accepted
<1>9. ASSUME NEW s \in Starters,
            CloseListener(s) \/ CloseRemovesStatus(s) \/ CloseRemovesControl(s)
              \/ StartFails(s)
      PROVE  StarterFiles'
  BY <1>9 DEF CloseListener, CloseRemovesStatus, CloseRemovesControl, StartFails,
    Err
<1>10. ASSUME NEW s \in Starters,
            BootFails(s) \/ WorkerGivesUp(s) \/ RequestFails(s) \/ KillStarter(s)
      PROVE  StarterFiles'
  BY <1>10 DEF BootFails, WorkerGivesUp, RequestFails, KillStarter, Err, KillOne
<1>11. ASSUME NEW s \in Starters,
            KillWorker(s)
      PROVE  StarterFiles'
  BY <1>11 DEF KillWorker, KillOne
<1>12. ASSUME NEW j \in Stoppers,
            StopTakesLock(j) \/ StopFindsWorker(j) \/ StopClearsStatus(j)
              \/ StopClearsControl(j) \/ ReadStatus(j) \/ ConnectControl(j)
              \/ ConnectRefused(j)
      PROVE  StarterFiles'
  BY <1>12 DEF StopTakesLock, StopFindsWorker, StopClearsStatus, StopClearsControl,
    ReadStatus, ConnectControl, ConnectRefused, TryAgain
<1>13. ASSUME NEW j \in Stoppers,
            SendStop(j) \/ SendFails(j) \/ ReadAnswer(j) \/ ReadFails(j)
              \/ SeeExit(j) \/ WaitTimesOut(j) \/ KillStopper(j)
      PROVE  StarterFiles'
  BY <1>13 DEF SendStop, SendFails, ReadAnswer, ReadFails, SeeExit, WaitTimesOut,
    KillStopper, TryAgain, KillOne
<1> QED
  BY <1>1, <1>2, <1>3, <1>4, <1>5, <1>6, <1>7, <1>8, <1>9, <1>10, <1>11, <1>12, <1>13 DEF Next, StartStep, WorkerStep, StopStep, Error

\* While a worker lives nobody else changes the files.
LEMMA StepWorkerFiles ==
  ASSUME TypeOK, OneDescriptor, Family, StarterFiles, WorkerFiles, ServedHistory, Next
  PROVE  WorkerFiles'
<1> USE DEF TypeOK, OneDescriptor, Family, Holds, StarterHolds, WorkerHolds, StopperHolds, Alive, StarterFiles, WorkerFiles, ServedHistory, StartAt, WorkerAt, StopAt, files, pcs, workers, clients, server, faults
<1>1. CASE HerdrStops
  BY <1>1 DEF HerdrStops
<1>2. ASSUME NEW s \in Starters,
            HerdrStarts(s) \/ StartAction(s) \/ TakeLock(s) \/ LockBusy(s)
      PROVE  WorkerFiles'
  BY <1>2 DEF HerdrStarts, StartAction, TakeLock, LockBusy
<1>3. ASSUME NEW s \in Starters,
            StartRemovesStatus(s) \/ StartRemovesControl(s) \/ Spawn(s)
              \/ PollStatus(s)
      PROVE  WorkerFiles'
  BY <1>3 DEF StartRemovesStatus, StartRemovesControl, Spawn, PollStatus
<1>4. ASSUME NEW s \in Starters,
            PollControl(s) \/ GiveUpOnWorker(s) \/ Reap(s) \/ StartUndoesStatus(s)
      PROVE  WorkerFiles'
  BY <1>4 DEF PollControl, GiveUpOnWorker, Reap, StartUndoesStatus
<1>5. ASSUME NEW s \in Starters,
            StartUndoesControl(s) \/ Boot(s) \/ SetupRemovesStatus(s)
              \/ SetupRemovesControl(s)
      PROVE  WorkerFiles'
  BY <1>5 DEF StartUndoesControl, Boot, SetupRemovesStatus, SetupRemovesControl
<1>6. ASSUME NEW s \in Starters,
            Bind(s) \/ PublishStatus(s) \/ Connect(s) \/ AttemptFails(s)
      PROVE  WorkerFiles'
  <2>1. CASE Bind(s)
    BY <2>1 DEF Bind
  <2>2. CASE PublishStatus(s)
    BY <2>2 DEF PublishStatus
  <2>3. CASE Connect(s)
    BY <2>3 DEF Connect
  <2>4. CASE AttemptFails(s)
    BY <2>4 DEF AttemptFails
  <2> QED
    BY <1>6, <2>1, <2>2, <2>3, <2>4
<1>7. ASSUME NEW s \in Starters,
            Wake(s) \/ GiveUpOnHerdr(s) \/ LoseHerdr(s) \/ LeaveLoop(s)
      PROVE  WorkerFiles'
  BY <1>7 DEF Wake, GiveUpOnHerdr, LoseHerdr, LeaveLoop
<1>8. ASSUME NEW s \in Starters,
            Accept(s) \/ ReadStop(s) \/ ReadNothing(s) \/ DropConn(s)
      PROVE  WorkerFiles'
  BY <1>8 DEF Accept, ReadStop, ReadNothing, DropConn, Accepted
<1>9. ASSUME NEW s \in Starters,
            CloseListener(s) \/ CloseRemovesStatus(s) \/ CloseRemovesControl(s)
              \/ StartFails(s)
      PROVE  WorkerFiles'
  BY <1>9 DEF CloseListener, CloseRemovesStatus, CloseRemovesControl, StartFails,
    Err
<1>10. ASSUME NEW s \in Starters,
            BootFails(s) \/ WorkerGivesUp(s) \/ RequestFails(s) \/ KillStarter(s)
      PROVE  WorkerFiles'
  BY <1>10 DEF BootFails, WorkerGivesUp, RequestFails, KillStarter, Err, KillOne
<1>11. ASSUME NEW s \in Starters,
            KillWorker(s)
      PROVE  WorkerFiles'
  BY <1>11 DEF KillWorker, KillOne
<1>12. ASSUME NEW j \in Stoppers,
            StopTakesLock(j) \/ StopFindsWorker(j) \/ StopClearsStatus(j)
              \/ StopClearsControl(j) \/ ReadStatus(j) \/ ConnectControl(j)
              \/ ConnectRefused(j)
      PROVE  WorkerFiles'
  BY <1>12 DEF StopTakesLock, StopFindsWorker, StopClearsStatus, StopClearsControl,
    ReadStatus, ConnectControl, ConnectRefused, TryAgain
<1>13. ASSUME NEW j \in Stoppers,
            SendStop(j) \/ SendFails(j) \/ ReadAnswer(j) \/ ReadFails(j)
              \/ SeeExit(j) \/ WaitTimesOut(j) \/ KillStopper(j)
      PROVE  WorkerFiles'
  BY <1>13 DEF SendStop, SendFails, ReadAnswer, ReadFails, SeeExit, WaitTimesOut,
    KillStopper, TryAgain, KillOne
<1> QED
  BY <1>1, <1>2, <1>3, <1>4, <1>5, <1>6, <1>7, <1>8, <1>9, <1>10, <1>11, <1>12, <1>13 DEF Next, StartStep, WorkerStep, StopStep, Error

\* A worker that publishes its status is the only one alive.
LEMMA StepHistory ==
  ASSUME TypeOK, OneDescriptor, Family, StarterFiles, WorkerFiles, ServedHistory, Next
  PROVE  ServedHistory'
<1> USE DEF TypeOK, OneDescriptor, Family, Holds, StarterHolds, WorkerHolds, StopperHolds, Alive, StarterFiles, WorkerFiles, ServedHistory, StartAt, WorkerAt, StopAt, files, pcs, workers, clients, server, faults
<1>1. CASE HerdrStops
  BY <1>1 DEF HerdrStops
<1>2. ASSUME NEW s \in Starters,
            HerdrStarts(s) \/ StartAction(s) \/ TakeLock(s) \/ LockBusy(s)
      PROVE  ServedHistory'
  BY <1>2 DEF HerdrStarts, StartAction, TakeLock, LockBusy
<1>3. ASSUME NEW s \in Starters,
            StartRemovesStatus(s) \/ StartRemovesControl(s) \/ Spawn(s)
              \/ PollStatus(s)
      PROVE  ServedHistory'
  BY <1>3 DEF StartRemovesStatus, StartRemovesControl, Spawn, PollStatus
<1>4. ASSUME NEW s \in Starters,
            PollControl(s) \/ GiveUpOnWorker(s) \/ Reap(s) \/ StartUndoesStatus(s)
      PROVE  ServedHistory'
  BY <1>4 DEF PollControl, GiveUpOnWorker, Reap, StartUndoesStatus
<1>5. ASSUME NEW s \in Starters,
            StartUndoesControl(s) \/ Boot(s) \/ SetupRemovesStatus(s)
              \/ SetupRemovesControl(s)
      PROVE  ServedHistory'
  BY <1>5 DEF StartUndoesControl, Boot, SetupRemovesStatus, SetupRemovesControl
<1>6. ASSUME NEW s \in Starters,
            Bind(s) \/ PublishStatus(s) \/ Connect(s) \/ AttemptFails(s)
      PROVE  ServedHistory'
  BY <1>6 DEF Bind, PublishStatus, Connect, AttemptFails
<1>7. ASSUME NEW s \in Starters,
            Wake(s) \/ GiveUpOnHerdr(s) \/ LoseHerdr(s) \/ LeaveLoop(s)
      PROVE  ServedHistory'
  BY <1>7 DEF Wake, GiveUpOnHerdr, LoseHerdr, LeaveLoop
<1>8. ASSUME NEW s \in Starters,
            Accept(s) \/ ReadStop(s) \/ ReadNothing(s) \/ DropConn(s)
      PROVE  ServedHistory'
  BY <1>8 DEF Accept, ReadStop, ReadNothing, DropConn, Accepted
<1>9. ASSUME NEW s \in Starters,
            CloseListener(s) \/ CloseRemovesStatus(s) \/ CloseRemovesControl(s)
              \/ StartFails(s)
      PROVE  ServedHistory'
  BY <1>9 DEF CloseListener, CloseRemovesStatus, CloseRemovesControl, StartFails,
    Err
<1>10. ASSUME NEW s \in Starters,
            BootFails(s) \/ WorkerGivesUp(s) \/ RequestFails(s) \/ KillStarter(s)
      PROVE  ServedHistory'
  BY <1>10 DEF BootFails, WorkerGivesUp, RequestFails, KillStarter, Err, KillOne
<1>11. ASSUME NEW s \in Starters,
            KillWorker(s)
      PROVE  ServedHistory'
  BY <1>11 DEF KillWorker, KillOne
<1>12. ASSUME NEW j \in Stoppers,
            StopTakesLock(j) \/ StopFindsWorker(j) \/ StopClearsStatus(j)
              \/ StopClearsControl(j) \/ ReadStatus(j) \/ ConnectControl(j)
              \/ ConnectRefused(j)
      PROVE  ServedHistory'
  BY <1>12 DEF StopTakesLock, StopFindsWorker, StopClearsStatus, StopClearsControl,
    ReadStatus, ConnectControl, ConnectRefused, TryAgain
<1>13. ASSUME NEW j \in Stoppers,
            SendStop(j) \/ SendFails(j) \/ ReadAnswer(j) \/ ReadFails(j)
              \/ SeeExit(j) \/ WaitTimesOut(j) \/ KillStopper(j)
      PROVE  ServedHistory'
  BY <1>13 DEF SendStop, SendFails, ReadAnswer, ReadFails, SeeExit, WaitTimesOut,
    KillStopper, TryAgain, KillOne
<1> QED
  BY <1>1, <1>2, <1>3, <1>4, <1>5, <1>6, <1>7, <1>8, <1>9, <1>10, <1>11, <1>12, <1>13 DEF Next, StartStep, WorkerStep, StopStep, Error

\* A worker that is not killed removes its files before it is gone.
LEMMA StepTidy ==
  ASSUME TypeOK, OneDescriptor, Family, WorkerFiles, Tidy, Next
  PROVE  Tidy'
<1> USE DEF TypeOK, OneDescriptor, Family, Holds, StarterHolds, WorkerHolds, StopperHolds, Alive, WorkerFiles, Tidy, StartAt, WorkerAt, StopAt, files, pcs, workers, clients, server, faults
<1>1. CASE HerdrStops
  BY <1>1 DEF HerdrStops
<1>2. ASSUME NEW s \in Starters,
            HerdrStarts(s) \/ StartAction(s) \/ TakeLock(s) \/ LockBusy(s)
      PROVE  Tidy'
  BY <1>2 DEF HerdrStarts, StartAction, TakeLock, LockBusy
<1>3. ASSUME NEW s \in Starters,
            StartRemovesStatus(s) \/ StartRemovesControl(s) \/ Spawn(s)
              \/ PollStatus(s)
      PROVE  Tidy'
  BY <1>3 DEF StartRemovesStatus, StartRemovesControl, Spawn, PollStatus
<1>4. ASSUME NEW s \in Starters,
            PollControl(s) \/ GiveUpOnWorker(s) \/ Reap(s) \/ StartUndoesStatus(s)
      PROVE  Tidy'
  BY <1>4 DEF PollControl, GiveUpOnWorker, Reap, StartUndoesStatus
<1>5. ASSUME NEW s \in Starters,
            StartUndoesControl(s) \/ Boot(s) \/ SetupRemovesStatus(s)
              \/ SetupRemovesControl(s)
      PROVE  Tidy'
  BY <1>5 DEF StartUndoesControl, Boot, SetupRemovesStatus, SetupRemovesControl
<1>6. ASSUME NEW s \in Starters,
            Bind(s) \/ PublishStatus(s) \/ Connect(s) \/ AttemptFails(s)
      PROVE  Tidy'
  BY <1>6 DEF Bind, PublishStatus, Connect, AttemptFails
<1>7. ASSUME NEW s \in Starters,
            Wake(s) \/ GiveUpOnHerdr(s) \/ LoseHerdr(s) \/ LeaveLoop(s)
      PROVE  Tidy'
  BY <1>7 DEF Wake, GiveUpOnHerdr, LoseHerdr, LeaveLoop
<1>8. ASSUME NEW s \in Starters,
            Accept(s) \/ ReadStop(s) \/ ReadNothing(s) \/ DropConn(s)
      PROVE  Tidy'
  BY <1>8 DEF Accept, ReadStop, ReadNothing, DropConn, Accepted
<1>9. ASSUME NEW s \in Starters,
            CloseListener(s) \/ CloseRemovesStatus(s) \/ CloseRemovesControl(s)
              \/ StartFails(s)
      PROVE  Tidy'
  BY <1>9 DEF CloseListener, CloseRemovesStatus, CloseRemovesControl, StartFails,
    Err
<1>10. ASSUME NEW s \in Starters,
            BootFails(s) \/ WorkerGivesUp(s) \/ RequestFails(s) \/ KillStarter(s)
      PROVE  Tidy'
  BY <1>10 DEF BootFails, WorkerGivesUp, RequestFails, KillStarter, Err, KillOne
<1>11. ASSUME NEW s \in Starters,
            KillWorker(s)
      PROVE  Tidy'
  BY <1>11 DEF KillWorker, KillOne
<1>12. ASSUME NEW j \in Stoppers,
            StopTakesLock(j) \/ StopFindsWorker(j) \/ StopClearsStatus(j)
              \/ StopClearsControl(j) \/ ReadStatus(j) \/ ConnectControl(j)
              \/ ConnectRefused(j)
      PROVE  Tidy'
  BY <1>12 DEF StopTakesLock, StopFindsWorker, StopClearsStatus, StopClearsControl,
    ReadStatus, ConnectControl, ConnectRefused, TryAgain
<1>13. ASSUME NEW j \in Stoppers,
            SendStop(j) \/ SendFails(j) \/ ReadAnswer(j) \/ ReadFails(j)
              \/ SeeExit(j) \/ WaitTimesOut(j) \/ KillStopper(j)
      PROVE  Tidy'
  BY <1>13 DEF SendStop, SendFails, ReadAnswer, ReadFails, SeeExit, WaitTimesOut,
    KillStopper, TryAgain, KillOne
<1> QED
  BY <1>1, <1>2, <1>3, <1>4, <1>5, <1>6, <1>7, <1>8, <1>9, <1>10, <1>11, <1>12, <1>13 DEF Next, StartStep, WorkerStep, StopStep, Error

\* What a stopper sees at the end is the end of the worker it read of.
LEMMA StepStopKnows ==
  ASSUME TypeOK, Family, ServedHistory, StopKnows, Next
  PROVE  StopKnows'
<1> USE DEF TypeOK, ServedHistory, StopKnows, Alive, StartAt, WorkerAt, StopAt, files, pcs, workers, clients, server, faults
<1>1. CASE HerdrStops
  BY <1>1 DEF HerdrStops
<1>2. ASSUME NEW s \in Starters,
            HerdrStarts(s) \/ StartAction(s) \/ TakeLock(s) \/ LockBusy(s)
              \/ StartRemovesStatus(s) \/ StartRemovesControl(s)
      PROVE  StopKnows'
  BY <1>2 DEF HerdrStarts, StartAction, TakeLock, LockBusy, StartRemovesStatus,
    StartRemovesControl
<1>3. ASSUME NEW s \in Starters,
            Spawn(s) \/ PollStatus(s) \/ PollControl(s) \/ GiveUpOnWorker(s)
              \/ Reap(s) \/ StartUndoesStatus(s)
      PROVE  StopKnows'
  <2>1. CASE Spawn(s)
    BY <2>1 DEF Spawn, Family
  <2>2. CASE PollStatus(s)
    BY <2>2 DEF PollStatus
  <2>3. CASE PollControl(s)
    BY <2>3 DEF PollControl
  <2>4. CASE GiveUpOnWorker(s)
    BY <2>4 DEF GiveUpOnWorker
  <2>5. CASE Reap(s)
    BY <2>5 DEF Reap
  <2>6. CASE StartUndoesStatus(s)
    BY <2>6 DEF StartUndoesStatus
  <2> QED
    BY <1>3, <2>1, <2>2, <2>3, <2>4, <2>5, <2>6
<1>4. ASSUME NEW s \in Starters,
            StartUndoesControl(s) \/ Boot(s) \/ SetupRemovesStatus(s)
              \/ SetupRemovesControl(s) \/ Bind(s) \/ PublishStatus(s)
      PROVE  StopKnows'
  BY <1>4 DEF StartUndoesControl, Boot, SetupRemovesStatus, SetupRemovesControl,
    Bind, PublishStatus
<1>5. ASSUME NEW s \in Starters,
            Connect(s) \/ AttemptFails(s) \/ Wake(s) \/ GiveUpOnHerdr(s)
              \/ LoseHerdr(s) \/ LeaveLoop(s)
      PROVE  StopKnows'
  BY <1>5 DEF Connect, AttemptFails, Wake, GiveUpOnHerdr, LoseHerdr, LeaveLoop
<1>6. ASSUME NEW s \in Starters,
            Accept(s) \/ ReadStop(s) \/ ReadNothing(s) \/ DropConn(s)
              \/ CloseListener(s) \/ CloseRemovesStatus(s)
      PROVE  StopKnows'
  BY <1>6 DEF Accept, ReadStop, ReadNothing, DropConn, CloseListener,
    CloseRemovesStatus, Accepted
<1>7. ASSUME NEW s \in Starters,
            CloseRemovesControl(s) \/ StartFails(s) \/ BootFails(s)
              \/ WorkerGivesUp(s) \/ RequestFails(s) \/ KillStarter(s)
      PROVE  StopKnows'
  BY <1>7 DEF CloseRemovesControl, StartFails, BootFails, WorkerGivesUp,
    RequestFails, KillStarter, Err, KillOne
<1>8. ASSUME NEW s \in Starters,
            KillWorker(s)
      PROVE  StopKnows'
  BY <1>8 DEF KillWorker, KillOne
<1>9. ASSUME NEW j \in Stoppers,
            SeeExit(j)
      PROVE  StopKnows'
  BY <1>9 DEF SeeExit, Exited, PidInUse
<1>10. ASSUME NEW j \in Stoppers,
            StopTakesLock(j) \/ StopFindsWorker(j) \/ StopClearsStatus(j)
              \/ StopClearsControl(j) \/ ReadStatus(j) \/ ConnectControl(j)
              \/ ConnectRefused(j)
      PROVE  StopKnows'
  BY <1>10 DEF StopTakesLock, StopFindsWorker, StopClearsStatus, StopClearsControl,
    ReadStatus, ConnectControl, ConnectRefused, TryAgain
<1>11. ASSUME NEW j \in Stoppers,
            SendStop(j) \/ SendFails(j) \/ ReadAnswer(j) \/ ReadFails(j)
              \/ WaitTimesOut(j) \/ KillStopper(j)
      PROVE  StopKnows'
  BY <1>11 DEF SendStop, SendFails, ReadAnswer, ReadFails, WaitTimesOut,
    KillStopper, TryAgain, KillOne
<1> QED
  BY <1>1, <1>2, <1>3, <1>4, <1>5, <1>6, <1>7, <1>8, <1>9, <1>10, <1>11 DEF Next, StartStep, WorkerStep, StopStep, Error

-----------------------------------------------------------------------------
(* The theorems.                                                           *)

\* Initially nobody runs and there are no files.
LEMMA InitIInv == ASSUME Init PROVE IInv
<1>1. TypeOK
  BY InitTypes
<1>2. OneDescriptor /\ Family
  BY DEF Init, OneDescriptor, Family, Holds, StarterHolds, WorkerHolds, StopperHolds, Alive
<1>3. StarterFiles /\ WorkerFiles /\ ServedHistory
  BY DEF Init, StarterFiles, WorkerFiles, ServedHistory
<1>4. Tidy /\ StopKnows
  BY DEF Init, Tidy, StopKnows
<1> QED
  BY <1>1, <1>2, <1>3, <1>4 DEF IInv

\* A step that changes nothing keeps the invariant.
LEMMA StutterIInv == ASSUME IInv, UNCHANGED vars PROVE IInv'
<1> USE DEF vars, files, pcs, workers, clients, server, faults
<1>1. TypeOK'
  BY DEF IInv, TypeOK
<1>2. OneDescriptor' /\ Family'
  BY DEF IInv, OneDescriptor, Family, Holds, StarterHolds, WorkerHolds, StopperHolds, Alive
<1>3. StarterFiles' /\ WorkerFiles' /\ ServedHistory'
  BY DEF IInv, StarterFiles, WorkerFiles, ServedHistory
<1>4. Tidy' /\ StopKnows'
  BY DEF IInv, Tidy, StopKnows, Alive
<1> QED
  BY <1>1, <1>2, <1>3, <1>4 DEF IInv

\* A step of a process, of Herdr or of the environment keeps it too.
LEMMA StepIInv == ASSUME IInv, Next PROVE IInv'
<1>1. TypeOK /\ OneDescriptor /\ Family /\ StarterFiles /\ WorkerFiles
  BY DEF IInv
<1>2. ServedHistory /\ Tidy /\ StopKnows
  BY DEF IInv
<1>3. TypeOK' /\ OneDescriptor' /\ Family'
  BY <1>1, StepTypes, StepDescriptor, StepFamily
<1>4. StarterFiles' /\ WorkerFiles'
  BY <1>1, <1>2, StepStarterFiles, StepWorkerFiles
<1>5. ServedHistory' /\ Tidy' /\ StopKnows'
  BY <1>1, <1>2, StepHistory, StepTidy, StepStopKnows
<1> QED
  BY <1>3, <1>4, <1>5 DEF IInv

\* The inductive invariant: one descriptor locks the file, so the files tell
\* how far the one living worker has come.
THEOREM LifecycleInvariance == Spec => []IInv
<1>1. Init => IInv
  BY InitIInv
<1>2. IInv /\ [Next]_vars => IInv'
  BY StepIInv, StutterIInv
<1> QED
  BY <1>1, <1>2, PTL DEF Spec

\* The variables have their types; a worker's failed attempts to reach Herdr
\* stay within MAX_RECONNECTS, a stopper's within its three tries.
THEOREM LifecycleTypes == Spec => []TypeOK
<1>1. IInv => TypeOK
  BY DEF IInv
<1> QED
  BY <1>1, LifecycleInvariance, PTL

\* A serving worker keeps its status and its socket, whatever the other starts,
\* stops and workers do and whoever is killed.
THEOREM ServingWorkerOwnsFiles == Spec => []ServingOwnsFiles
<1>1. IInv => ServingOwnsFiles
  BY DEF IInv, WorkerFiles, ServingOwnsFiles, Serving
<1> QED
  BY <1>1, LifecycleInvariance, PTL

\* Two workers never serve at once: the lock survives its first holder.
THEOREM OneWorkerServes ==
  Spec => [](\A s, t \in Starters : Serving(s) /\ Serving(t) => s = t)
<1>1. IInv => (\A s, t \in Starters : Serving(s) /\ Serving(t) => s = t)
  BY DEF IInv, WorkerFiles, Serving
<1> QED
  BY <1>1, LifecycleInvariance, PTL

\* stop reports success only of a worker that is gone.
THEOREM StopReportsTheEnd == Spec => []StoppedIsGone
<1>1. IInv => StoppedIsGone
  BY DEF IInv, StopKnows, StoppedIsGone
<1> QED
  BY <1>1, LifecycleInvariance, PTL

\* start reports ready only a worker that has published its own status.
THEOREM StartReportsItsWorker == Spec => []StartedHasServed
<1>1. IInv => StartedHasServed
  BY DEF IInv, ServedHistory, StartedHasServed
<1> QED
  BY <1>1, LifecycleInvariance, PTL

\* Unless a process was killed, a free lock means that no file is left.
THEOREM FreeLockMeansTidy == Spec => []NothingLeftBehind
<1>1. IInv => NothingLeftBehind
  BY DEF IInv, Tidy, NothingLeftBehind, LockFree, WorkerHolds
<1> QED
  BY <1>1, LifecycleInvariance, PTL

=============================================================================
