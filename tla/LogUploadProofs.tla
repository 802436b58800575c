-------------------------- MODULE LogUploadProofs --------------------------
(***************************************************************************)
(* For any number of threads and processes: the types, the safety of the   *)
(* tracked pid and of the reports, what a single worker adds to it, and    *)
(* that LogUpload implements UploadTracker.                                *)
(***************************************************************************)
EXTENDS LogUpload, TLAPS

\* A thread is where its call can have brought it.
ControlOK ==
  /\ \A w \in Workers :
       /\ pc[w] \in WorkerPC
       /\ pc[w] \in {"upload_check", "upload_fork"} =>
            op[w] \in {"UploadLogsAsync", "LightSleep"}
       /\ pc[w] \in {"abort_lock", "abort_wait"} =>
            op[w] \in {"UploadLogsAsync", "LightSleep", "AbortLogUpload",
                      "DeepSleep"}
       /\ pc[w] = "deep_check" => op[w] = "DeepSleep"
  /\ pc[Bus] \in {"idle", "log_wait"}

\* The holder of the lock is waiting for the tracked process, and only it.
LockOK ==
  \A t \in Threads :
    pc[t] \in {"abort_wait", "log_wait"} <=> mutex = t

\* What was reported: the collected uploads, and the one the bus waits for.
ReportsOK ==
  \A p \in Pids :
    Len(reports[p]) = IF \/ child[p] = "reaped"
                         \/ pc[Bus] = "log_wait" /\ m_uploadLogsPid = p
                        THEN 1 ELSE 0

IInv ==
  /\ TypeOK
  /\ ControlOK
  /\ LockOK
  /\ OneWaiter
  /\ TrackedIsUnreaped
  /\ ReportsOK

-----------------------------------------------------------------------------

\* The initial states satisfy the invariant.
LEMMA InitIInv == Init => IInv
  BY LogUploadAssumption
  DEF Init, IInv, TypeOK, ControlOK, LockOK, OneWaiter, TrackedIsUnreaped,
      ReportsOK, Threads, WorkerPC, ChildState

\* A new call moves one idle worker and touches nothing shared.
LEMMA NewCallIInv ==
  ASSUME IInv, NEW w \in Workers, NEW call \in Calls, Begin(w, call)
  PROVE  IInv'
  BY LogUploadAssumption
  DEF IInv, TypeOK, ControlOK, LockOK, OneWaiter, TrackedIsUnreaped, ReportsOK,
      Begin, Goto, Entry, Calls, Threads, WorkerPC, AfterUpload, AfterAbort

\* Looking at the pid changes nothing but the place of the worker.
LEMMA UploadCheckIInv ==
  ASSUME IInv, NEW w \in Workers, UploadCheck(w)
  PROVE  IInv'
  BY LogUploadAssumption
  DEF IInv, TypeOK, ControlOK, LockOK, OneWaiter, TrackedIsUnreaped, ReportsOK,
      Threads, WorkerPC, UploadCheck, Resume, Goto, Calls, AfterUpload, AfterAbort

\* A fork tracks a process that was never reported, or none.
LEMMA UploadForkIInv ==
  ASSUME IInv, NEW w \in Workers, UploadFork(w)
  PROVE  IInv'
<1>1. PICK p \in Pids \union {NoPid} : logUploadAsync(p) /\ m_uploadLogsPid' = p
  BY DEF UploadFork
<1>2. /\ pc[w] = "upload_fork" /\ mutex = NoThread
      /\ UNCHANGED <<mutex, result, events, reports>>
      /\ pc' = [pc EXCEPT ![w] = AfterUpload[op[w]]]
      /\ op' = [op EXCEPT ![w] = IF AfterUpload[op[w]] = "idle" THEN "none" ELSE op[w]]
  BY DEF UploadFork, Resume, Goto
<1>3. AfterUpload[op[w]] \in {"idle", "announce"}
  BY <1>2 DEF IInv, ControlOK, AfterUpload
<1>4. /\ pc \in [Threads -> WorkerPC \union {"log_wait"}] /\ op \in [Workers -> Calls \union {"none"}]
      /\ child \in [Pids -> ChildState] /\ w \in Threads /\ Bus \in Threads \ {w}
      /\ NoPid \notin Pids /\ \A t \in Threads : t # NoThread
  BY LogUploadAssumption DEF IInv, TypeOK, Threads
<1>5. /\ pc' \in [Threads -> WorkerPC \union {"log_wait"}] /\ pc'[w] \in {"idle", "announce"}
      /\ \A t \in Threads \ {w} : pc'[t] = pc[t]
      /\ op' \in [Workers -> Calls \union {"none"}] /\ \A v \in Workers \ {w} : op'[v] = op[v]
  BY <1>2, <1>3, <1>4 DEF WorkerPC
<1>6. /\ child' \in [Pids -> ChildState]
      /\ p # NoPid => child'[p] = "running"
      /\ \A q \in Pids : child'[q] = "reaped" <=> child[q] = "reaped"
  BY <1>1, <1>4 DEF logUploadAsync, ChildState
<1>7. \A t \in Threads : /\ pc[t] \notin {"abort_wait", "log_wait"}
                         /\ pc'[t] \notin {"abort_wait", "log_wait"}
  <2>1. \A t \in Threads : pc[t] \notin {"abort_wait", "log_wait"}
    BY <1>2, <1>4 DEF IInv, OneWaiter
  <2>2. QED
    BY <1>5, <2>1
<1>8. TypeOK'
  BY <1>1, <1>2, <1>5, <1>6 DEF IInv, TypeOK
<1>9. ControlOK'
  <2>1. pc'[w] \in WorkerPC /\ pc'[w] \notin {"upload_check", "upload_fork", "deep_check"}
    BY <1>5 DEF WorkerPC
  <2>2. QED
    BY <1>4, <1>5, <1>7, <2>1 DEF IInv, ControlOK, Threads
<1>10. LockOK' /\ OneWaiter'
  BY <1>2, <1>4, <1>7 DEF LockOK, OneWaiter
<1>11. TrackedIsUnreaped'
  BY <1>1, <1>6 DEF TrackedIsUnreaped
<1>12. ReportsOK'
  <2>1. pc[Bus] # "log_wait" /\ pc'[Bus] # "log_wait"
    BY <1>4, <1>7
  <2>2. QED
    BY <1>2, <1>6, <2>1 DEF IInv, ReportsOK
<1>13. QED
  BY <1>8, <1>9, <1>10, <1>11, <1>12 DEF IInv

\* The lock is taken with a tracked process, which the kill leaves unreaped.
LEMMA AbortLogUploadIInv ==
  ASSUME IInv, NEW w \in Workers, AbortLogUpload(w)
  PROVE  IInv'
<1>1. CASE m_uploadLogsPid = NoPid
  <2> USE <1>1, LogUploadAssumption DEF IInv, AbortLogUpload, Resume, Goto
  <2>1. /\ AfterAbort[op[w]] \in {"upload_fork", "idle", "announce"}
        /\ AfterAbort[op[w]] = "upload_fork" =>
             op[w] \in {"UploadLogsAsync", "LightSleep"}
    BY DEF ControlOK, AfterAbort
  <2>2. TypeOK'
    <3>1. /\ pc' = [pc EXCEPT ![w] = AfterAbort[op[w]]]
          /\ op' = [op EXCEPT ![w] = IF AfterAbort[op[w]] = "idle" THEN "none" ELSE op[w]]
          /\ UNCHANGED <<m_uploadLogsPid, mutex, child, result, events, reports>>
      OBVIOUS
    <3>2. TypeOK
      OBVIOUS
    <3> HIDE <1>1 DEF IInv, AbortLogUpload, Resume, Goto
    <3>3. pc' \in [Threads -> WorkerPC \union {"log_wait"}]
      BY <2>1, <3>1, <3>2 DEF TypeOK, WorkerPC
    <3>4. op' \in [Workers -> Calls \union {"none"}]
      BY <3>1, <3>2 DEF TypeOK
    <3>5. QED
      BY <3>1, <3>2, <3>3, <3>4 DEF TypeOK
  <2>3. ControlOK'
    <3>1. ControlOK /\ w \in DOMAIN pc /\ w \in DOMAIN op /\ Bus # w
      BY DEF TypeOK, Threads
    <3>2. /\ pc' = [pc EXCEPT ![w] = AfterAbort[op[w]]]
          /\ op' = [op EXCEPT ![w] = IF AfterAbort[op[w]] = "idle" THEN "none" ELSE op[w]]
      OBVIOUS
    <3> HIDE <1>1 DEF IInv, AbortLogUpload, Resume, Goto
    <3>3. /\ pc'[w] = AfterAbort[op[w]]
          /\ AfterAbort[op[w]] # "idle" => op'[w] = op[w]
          /\ \A v \in Workers \ {w} : pc'[v] = pc[v] /\ op'[v] = op[v]
          /\ pc'[Bus] = pc[Bus]
      BY <3>1, <3>2
    <3>4. /\ pc'[w] \in WorkerPC /\ pc'[w] \notin {"upload_check", "abort_lock", "abort_wait"}
          /\ pc'[w] # "deep_check"
          /\ pc'[w] = "upload_fork" => op'[w] \in {"UploadLogsAsync", "LightSleep"}
      BY <2>1, <3>3 DEF WorkerPC
    <3>5. QED
      BY <3>1, <3>3, <3>4 DEF ControlOK
  <2>4. LockOK' /\ OneWaiter'
    BY <2>1 DEF TypeOK, LockOK, OneWaiter, Threads
  <2>5. TrackedIsUnreaped' /\ ReportsOK'
    BY <2>1 DEF TypeOK, TrackedIsUnreaped, ReportsOK, Threads
  <2>6. QED BY <2>2, <2>3, <2>4, <2>5
<1>2. CASE m_uploadLogsPid # NoPid
  <2> USE <1>2, LogUploadAssumption DEF IInv, AbortLogUpload, Resume, Goto
  <2>1. TypeOK'
    BY DEF TypeOK, Threads, WorkerPC, ChildState
  <2>2. ControlOK'
    BY DEF TypeOK, ControlOK, Threads, WorkerPC
  <2>3. LockOK' /\ OneWaiter'
    BY DEF TypeOK, LockOK, OneWaiter, Threads
  <2>4. TrackedIsUnreaped'
    BY DEF TypeOK, TrackedIsUnreaped
  <2>5. ReportsOK'
    BY DEF TypeOK, ReportsOK, TrackedIsUnreaped, Threads
  <2>6. QED BY <2>1, <2>2, <2>3, <2>4, <2>5
<1>3. QED BY <1>1, <1>2

\* The process is collected, reported and forgotten in one critical section.
LEMMA AbortWaitIInv ==
  ASSUME IInv, NEW w \in Workers, AbortWait(w)
  PROVE  IInv'
<1> USE LogUploadAssumption DEF IInv, AbortWait, Waitpid, DispatchLogUpload,
      Resume, Goto
<1>0. m_uploadLogsPid \in Pids /\ mutex = w
  BY DEF TypeOK, OneWaiter, Threads
<1>1. AfterAbort[op[w]] \in {"upload_fork", "idle", "announce"}
  BY DEF ControlOK, AfterAbort
<1>2. AfterAbort[op[w]] = "upload_fork" => op[w] \in {"UploadLogsAsync", "LightSleep"}
  BY DEF ControlOK, AfterAbort
<1>3. TypeOK'
  BY <1>0, <1>1 DEF TypeOK, Threads, WorkerPC, ChildState, Status
<1>4. ControlOK'
  BY <1>1, <1>2 DEF TypeOK, ControlOK, Threads, WorkerPC
<1>5. LockOK' /\ OneWaiter'
  BY <1>0, <1>1 DEF TypeOK, LockOK, OneWaiter, Threads
<1>6. TrackedIsUnreaped'
  BY DEF TrackedIsUnreaped
<1>7. ReportsOK'
  <2>1. pc[Bus] # "log_wait" /\ pc'[Bus] # "log_wait"
    BY <1>0 DEF TypeOK, LockOK, Threads
  <2>2. QED BY <1>0, <2>1 DEF TypeOK, ReportsOK, Status
<1>8. QED BY <1>3, <1>4, <1>5, <1>6, <1>7

\* Looking at the pid changes nothing but the place of the worker.
LEMMA DeepCheckIInv ==
  ASSUME IInv, NEW w \in Workers, DeepCheck(w)
  PROVE  IInv'
  BY LogUploadAssumption
  DEF IInv, TypeOK, ControlOK, LockOK, OneWaiter, TrackedIsUnreaped, ReportsOK,
      Threads, WorkerPC, DeepCheck, Resume, Goto, Calls, AfterUpload, AfterAbort

\* The end of the power handler frees the worker.
LEMMA AnnounceIInv ==
  ASSUME IInv, NEW w \in Workers, AnnouncePowerState(w)
  PROVE  IInv'
  BY LogUploadAssumption
  DEF IInv, TypeOK, ControlOK, LockOK, OneWaiter, TrackedIsUnreaped, ReportsOK,
      Threads, WorkerPC, AnnouncePowerState, Resume, Goto, Calls, AfterUpload, AfterAbort

\* The report is the first for the tracked process; the bus keeps the lock.
LEMMA OnLogUploadIInv ==
  ASSUME IInv, NEW ev \in events, OnLogUpload(ev)
  PROVE  IInv'
<1>1. CASE m_uploadLogsPid = NoPid
  BY <1>1
  DEF IInv, TypeOK, ControlOK, LockOK, OneWaiter, TrackedIsUnreaped, ReportsOK,
      OnLogUpload
<1>2. CASE m_uploadLogsPid # NoPid
  <2> USE <1>2, LogUploadAssumption DEF IInv, OnLogUpload, DispatchLogUpload,
        Goto
  <2>1. StatusOf[ev.state] \in Status
    BY DEF TypeOK, UploadState, StatusOf, Status
  <2>0. /\ m_uploadLogsPid \in Pids
        /\ reports \in [Pids -> Seq(Status)]
        /\ reports' = [reports EXCEPT ![m_uploadLogsPid] =
                                  Append(@, StatusOf[ev.state])]
    BY DEF TypeOK
  <2>2. TypeOK'
    <3>1. reports' \in [Pids -> Seq(Status)]
      BY <2>0, <2>1
    <3>2. QED BY <3>1 DEF TypeOK, Threads
  <2>3. ControlOK'
    BY DEF TypeOK, ControlOK, Threads
  <2>4. LockOK' /\ OneWaiter'
    BY DEF TypeOK, LockOK, OneWaiter, Threads
  <2>5. TrackedIsUnreaped'
    BY DEF TrackedIsUnreaped
  <2>6. ReportsOK'
    <3>1. pc[Bus] = "idle" /\ pc'[Bus] = "log_wait"
      BY DEF TypeOK, Threads
    <3>2. Len(reports[m_uploadLogsPid]) = 0
      BY <2>0, <3>1 DEF ReportsOK, TrackedIsUnreaped
    <3>3. Len(reports'[m_uploadLogsPid]) = 1
      BY <2>0, <2>1, <3>2
    <3>4. \A p \in Pids \ {m_uploadLogsPid} : reports'[p] = reports[p]
      BY <2>0
    <3>5. QED BY <3>1, <3>3, <3>4 DEF ReportsOK
  <2>7. QED BY <2>2, <2>3, <2>4, <2>5, <2>6
<1>3. QED BY <1>1, <1>2

\* The process reported before is collected and forgotten.
LEMMA OnLogUploadWaitIInv ==
  ASSUME IInv, OnLogUploadWait
  PROVE  IInv'
  BY LogUploadAssumption
  DEF IInv, TypeOK, ControlOK, LockOK, OneWaiter, TrackedIsUnreaped, ReportsOK,
      Threads, WorkerPC, OnLogUploadWait, Waitpid,
      ChildState, Goto

\* A process that runs on or ends is neither reported nor collected by that.
LEMMA ChildIInv ==
  ASSUME IInv, NEW p \in Pids, ChildStep(p)
  PROVE  IInv'
<1> USE DEF IInv
<1>1. \A q \in Pids : child'[q] = "reaped" <=> child[q] = "reaped"
  BY DEF TypeOK, ChildStep, ChildPosts, ChildExits
<1>2. UNCHANGED <<m_uploadLogsPid, mutex, pc, op, reports>>
  BY DEF ChildStep, ChildPosts, ChildExits
<1>3. CASE \E s \in UploadState : ChildPosts(p, s)
  <2> USE <1>3
  <2>1. TypeOK'
    BY DEF TypeOK, ChildPosts, ChildState
  <2>2. TrackedIsUnreaped'
    BY DEF TypeOK, TrackedIsUnreaped, ChildPosts
  <2>3. QED BY <1>1, <1>2, <2>1, <2>2 DEF ControlOK, LockOK, OneWaiter, ReportsOK
<1>4. CASE ChildExits(p)
  <2> USE <1>4
  <2>1. TypeOK'
    BY DEF TypeOK, ChildExits, ChildState
  <2>2. TrackedIsUnreaped'
    BY DEF TypeOK, TrackedIsUnreaped, ChildExits
  <2>3. QED BY <1>1, <1>2, <2>1, <2>2 DEF ControlOK, LockOK, OneWaiter, ReportsOK
<1>5. QED BY <1>3, <1>4 DEF ChildStep

\* Each power transition is one of the calls.
LEMMA PowerCallsAreCalls == PowerCalls \subseteq Calls
  BY DEF PowerCalls, PowerCall, Calls

\* No step of any thread or process breaks the invariant.
LEMMA NextIInv == IInv /\ [Next]_vars => IInv'
<1> SUFFICES ASSUME IInv, [Next]_vars PROVE IInv'
  OBVIOUS
<1>1. ASSUME NEW w \in Workers, NewCall(w) PROVE IInv'
  <2>1. PICK call \in Calls : Begin(w, call)
    BY <1>1, PowerCallsAreCalls
    DEF NewCall, CallUploadLogsAsync, CallAbortLogUpload, OnPowerModeChanged,
        Calls
  <2>2. QED BY <2>1, NewCallIInv
<1>2. ASSUME NEW w \in Workers, WorkerStep(w) PROVE IInv'
  BY <1>2, UploadCheckIInv, UploadForkIInv, AbortLogUploadIInv, AbortWaitIInv,
     DeepCheckIInv, AnnounceIInv
  DEF WorkerStep
<1>3. CASE BusStep
  BY <1>3, OnLogUploadIInv, OnLogUploadWaitIInv DEF BusStep
<1>4. ASSUME NEW p \in Pids, ChildStep(p) PROVE IInv'
  BY <1>4, ChildIInv
<1>5. CASE UNCHANGED vars
  BY <1>5
  DEF IInv, TypeOK, ControlOK, LockOK, OneWaiter, TrackedIsUnreaped, ReportsOK,
      vars
<1>6. QED BY <1>1, <1>2, <1>3, <1>4, <1>5 DEF Next

\* The invariant implies what is promised while the lock is free.
LEMMA IInvReports == IInv => ReapedOnceReportedOnce
  BY LogUploadAssumption
  DEF IInv, LockOK, ReportsOK, ReapedOnceReportedOnce, Threads

\* The strengthened invariant holds in every reachable state.
THEOREM InductiveInvariant == Spec => []IInv
  BY InitIInv, NextIInv, PTL DEF Spec

\* Variables keep their types, for any number of workers and processes.
THEOREM TypeCorrect == Spec => []TypeOK
<1>1. IInv => TypeOK BY DEF IInv
<1>2. QED BY <1>1, InductiveInvariant, PTL

\* What kill and waitpid are given is always an uncollected child.
THEOREM TrackedSafe == Spec => []TrackedIsUnreaped
<1>1. IInv => TrackedIsUnreaped BY DEF IInv
<1>2. QED BY <1>1, InductiveInvariant, PTL

\* At most one thread waits, and it holds the lock.
THEOREM WaiterSafe == Spec => []OneWaiter
<1>1. IInv => OneWaiter BY DEF IInv
<1>2. QED BY <1>1, InductiveInvariant, PTL

\* Every collected upload was reported once, and no other upload was.
THEOREM ReportsSafe == Spec => []ReapedOnceReportedOnce
  BY IInvReports, InductiveInvariant, PTL

-----------------------------------------------------------------------------
(* A collected upload is done with.                                        *)

\* Only the tracked process is reported, and only an unborn one is tracked.
LEMMA NextReportIsFinal ==
  ASSUME IInv, [Next]_vars
  PROVE  ReportIsFinalStep
<1> SUFFICES ASSUME NEW p \in Pids, child[p] = "reaped"
             PROVE  reports'[p] = reports[p] /\ m_uploadLogsPid' # p
  BY DEF ReportIsFinalStep
<1>1. m_uploadLogsPid # p /\ NoPid # p /\ reports \in [Pids -> Seq(Status)]
  BY LogUploadAssumption DEF IInv, TypeOK, TrackedIsUnreaped
<1>2. ASSUME NEW w \in Workers, NewCall(w)
      PROVE  reports'[p] = reports[p] /\ m_uploadLogsPid' # p
  BY <1>1, <1>2
  DEF NewCall, CallUploadLogsAsync, CallAbortLogUpload, OnPowerModeChanged, Begin
<1>3. ASSUME NEW w \in Workers, WorkerStep(w)
      PROVE  reports'[p] = reports[p] /\ m_uploadLogsPid' # p
  BY <1>1, <1>3
  DEF WorkerStep, UploadCheck, UploadFork, logUploadAsync, AbortLogUpload,
      AbortWait, DispatchLogUpload, DeepCheck, AnnouncePowerState
<1>4. CASE BusStep
  BY <1>1, <1>4 DEF BusStep, OnLogUpload, DispatchLogUpload, OnLogUploadWait
<1>5. ASSUME NEW q \in Pids, ChildStep(q)
      PROVE  reports'[p] = reports[p] /\ m_uploadLogsPid' # p
  BY <1>1, <1>5 DEF ChildStep, ChildPosts, ChildExits
<1>6. CASE UNCHANGED vars
  BY <1>1, <1>6 DEF vars
<1>7. QED BY <1>2, <1>3, <1>4, <1>5, <1>6 DEF Next

\* A late completion event never reaches an upload that was collected.
THEOREM ReportFinal == Spec => ReportIsFinal
<1>1. IInv /\ [Next]_vars => [ReportIsFinalStep]_vars
  BY NextReportIsFinal
<1>2. QED BY <1>1, InductiveInvariant, PTL DEF Spec, ReportIsFinal

-----------------------------------------------------------------------------
(* One worker.                                                             *)

SerialInv ==
  /\ \A w \in Workers : pc[w] = "upload_fork" => m_uploadLogsPid = NoPid
  /\ NoOrphan

\* With one worker nobody forks between its look at the pid and its fork.
LEMMA NextSerialInv ==
  ASSUME NEW w, Workers = {w}, IInv, SerialInv, [Next]_vars
  PROVE  SerialInv'
<1> USE LogUploadAssumption DEF IInv, TypeOK, SerialInv, NoOrphan, Orphan, Threads
<1>1. CASE NewCall(w)
  BY <1>1
  DEF NewCall, CallUploadLogsAsync, CallAbortLogUpload, OnPowerModeChanged,
      PowerCalls, PowerCall, Begin, Entry, Goto
<1>2. CASE UploadCheck(w) \/ DeepCheck(w) \/ AnnouncePowerState(w)
  BY <1>2 DEF UploadCheck, DeepCheck, AnnouncePowerState, Resume, Goto
<1>3. CASE UploadFork(w)
  <2>1. AfterUpload[op[w]] # "upload_fork"
    BY <1>3 DEF ControlOK, UploadFork, AfterUpload
  <2>2. QED BY <1>3, <2>1 DEF UploadFork, logUploadAsync, Resume, Goto
<1>4. CASE AbortLogUpload(w)
  BY <1>4 DEF AbortLogUpload, Resume, Goto
<1>5. CASE AbortWait(w)
  BY <1>5 DEF AbortWait, Waitpid, Resume, Goto
<1>6. CASE BusStep
  BY <1>6
  DEF BusStep, OnLogUpload, OnLogUploadWait, Waitpid, Goto
<1>7. ASSUME NEW p \in Pids, ChildStep(p)
      PROVE  SerialInv'
  BY <1>7 DEF ChildStep, ChildPosts, ChildExits
<1>8. CASE UNCHANGED vars
  BY <1>8 DEF vars
<1>9. QED
  BY <1>1, <1>2, <1>3, <1>4, <1>5, <1>6, <1>7, <1>8 DEF Next, WorkerStep

\* A plugin whose calls all arrive on one thread loses track of no upload.
THEOREM OneWorkerNoOrphan ==
  ASSUME NEW w, Workers = {w}
  PROVE  Spec => []NoOrphan
<1>1. Init => SerialInv
  BY DEF Init, SerialInv, NoOrphan, Orphan, Threads
<1>2. IInv /\ SerialInv /\ [Next]_vars => SerialInv'
  BY NextSerialInv
<1>3. SerialInv => NoOrphan
  BY DEF SerialInv
<1>4. QED BY <1>1, <1>2, <1>3, InductiveInvariant, PTL DEF Spec

-----------------------------------------------------------------------------
(* The single slot.                                                        *)

Slot == IF pc[Bus] = "log_wait" THEN NoPid ELSE m_uploadLogsPid

Started == {p \in Pids : child[p] # "unborn"}

\* Each step fills, empties or reports the slot, or leaves it alone.
LEMMA NextTracker ==
  ASSUME IInv, [Next]_vars
  PROVE  [Tracker!TrackerNext]_(Tracker!trackerVars)
<1> USE LogUploadAssumption DEF IInv, TypeOK, Threads
<1> SUFFICES ASSUME ~UNCHANGED <<Slot, Started, reports>>
             PROVE  Tracker!TrackerNext
  BY DEF Tracker!trackerVars, Slot, Started
<1>1. ASSUME NEW w \in Workers, NewCall(w) PROVE FALSE
  BY <1>1
  DEF NewCall, CallUploadLogsAsync, CallAbortLogUpload, OnPowerModeChanged,
      Begin, Goto, Slot, Started
<1>2. ASSUME NEW w \in Workers, UploadCheck(w) \/ DeepCheck(w) \/ AnnouncePowerState(w)
      PROVE  FALSE
  BY <1>2
  DEF UploadCheck, DeepCheck, AnnouncePowerState, Resume, Goto, Slot, Started
<1>3. ASSUME NEW w \in Workers, UploadFork(w) PROVE Tracker!TrackerNext
  <2>1. pc'[Bus] = pc[Bus] /\ pc[Bus] # "log_wait"
    BY <1>3 DEF UploadFork, Resume, Goto, LockOK
  <2>2. PICK p \in Pids \union {NoPid} : logUploadAsync(p) /\ m_uploadLogsPid' = p
    BY <1>3 DEF UploadFork
  <2>3. reports' = reports
    BY <1>3 DEF UploadFork
  <2>4. CASE p \in Pids
    <3>1. Tracker!Start(p)
      BY <2>1, <2>2, <2>3, <2>4 DEF logUploadAsync, Tracker!Start
    <3>2. QED BY <2>4, <3>1 DEF Tracker!TrackerNext
  <2>5. CASE p = NoPid
    <3>1. Tracker!FailToStart
      BY <2>1, <2>2, <2>3, <2>5 DEF logUploadAsync, Tracker!FailToStart
    <3>2. QED BY <3>1 DEF Tracker!TrackerNext
  <2>6. QED BY <2>4, <2>5
<1>4. ASSUME NEW w \in Workers, AbortLogUpload(w) PROVE FALSE
  BY <1>4
  DEF AbortLogUpload, Resume, Goto, Slot, Started, TrackedIsUnreaped
<1>5. ASSUME NEW w \in Workers, AbortWait(w) PROVE Tracker!TrackerNext
  <2>1. pc'[Bus] = pc[Bus] /\ pc[Bus] # "log_wait" /\ m_uploadLogsPid # NoPid
    BY <1>5 DEF AbortWait, Resume, Goto, LockOK, OneWaiter
  <2>2. Started' = Started
    BY <1>5, <2>1 DEF AbortWait, Waitpid, Started
  <2>3. Tracker!Report("UPLOAD_ABORTED")
    BY <1>5, <2>1, <2>2
    DEF AbortWait, DispatchLogUpload, Tracker!Report, Started
  <2>4. QED BY <2>3 DEF Tracker!TrackerNext, Status
<1>6. ASSUME NEW ev \in events, OnLogUpload(ev) PROVE Tracker!TrackerNext
  <2>1. m_uploadLogsPid # NoPid
    BY <1>6 DEF OnLogUpload, Slot, Started
  <2>2. pc[Bus] = "idle" /\ pc'[Bus] = "log_wait"
    BY <1>6, <2>1 DEF OnLogUpload, Goto
  <2>3. StatusOf[ev.state] \in Status
    BY DEF UploadState, StatusOf, Status
  <2>4. Tracker!Report(StatusOf[ev.state])
    BY <1>6, <2>1, <2>2
    DEF OnLogUpload, DispatchLogUpload, Tracker!Report
  <2>5. QED BY <2>3, <2>4 DEF Tracker!TrackerNext
<1>7. CASE OnLogUploadWait
  <2>1. pc[Bus] = "log_wait" /\ pc'[Bus] = "idle" /\ m_uploadLogsPid # NoPid
    BY <1>7 DEF OnLogUploadWait, Goto, OneWaiter
  <2>2. QED BY <1>7, <2>1 DEF OnLogUploadWait, Waitpid, Slot, Started
<1>8. ASSUME NEW p \in Pids, ChildStep(p) PROVE FALSE
  BY <1>8 DEF ChildStep, ChildPosts, ChildExits, Slot, Started
<1>9. CASE UNCHANGED vars
  BY <1>9 DEF vars, Slot, Started
<1>10. QED
  BY <1>1, <1>2, <1>3, <1>4, <1>5, <1>6, <1>7, <1>8, <1>9
  DEF Next, WorkerStep, BusStep

\* Threads, lock and processes implement the slot of UploadTracker.
THEOREM Refinement == Spec => ImplementsTracker
<1>1. Init => Tracker!TrackerInit
  BY LogUploadAssumption DEF Init, Tracker!TrackerInit, Threads
<1>2. IInv /\ [Next]_vars => [Tracker!TrackerNext]_(Tracker!trackerVars)
  BY NextTracker
<1>3. QED
  BY <1>1, <1>2, InductiveInvariant, PTL
  DEF Spec, ImplementsTracker, Tracker!TrackerSpec

=============================================================================
