----------------------------- MODULE LogUpload -----------------------------
(***************************************************************************)
(* Log upload: UploadLogsAsync, AbortLogUpload, OnLogUpload and the power  *)
(* handler that calls them, running on threads that share m_uploadLogsPid  *)
(* under m_uploadLogsMutex, and the forked process each upload runs in.    *)
(*                                                                         *)
(* Workers are the threads on which requests and PowerManager callbacks    *)
(* arrive, Bus is the thread on which IARM delivers events.  A step is     *)
(* what a thread does between two points where another may be observed: a  *)
(* whole critical section when it only reads or writes the pid, and two    *)
(* steps, around waitpid, when it waits for the process under the lock.    *)
(***************************************************************************)
EXTENDS Naturals, Sequences

CONSTANTS
  Workers,    \* threads of the request and callback pool
  Bus,        \* the thread that delivers IARM events
  Pids,       \* processes that fork() may return, each at most once
  NoPid,      \* m_uploadLogsPid = -1
  NoThread,   \* the mutex is free
  logUploadBeforeDeepSleepEnabled  \* m_logUploadBeforeDeepSleepEnabled

ASSUME LogUploadAssumption ==
  /\ Bus \notin Workers
  /\ NoThread \notin Workers \union {Bus}
  /\ NoPid \notin Pids
  /\ logUploadBeforeDeepSleepEnabled \in BOOLEAN

VARIABLES
  m_uploadLogsPid,  \* the upload process being tracked, or NoPid
  mutex,            \* the holder of m_uploadLogsMutex, or NoThread
  pc,               \* pc[t] : where thread t is
  op,               \* op[w] : the call worker w is executing, or "none"
  child,            \* child[p] : the life of process p
  result,           \* result[p] : what p told IARM about its own upload
  events,           \* LOG_UPLOAD events in flight on the IARM bus
  reports           \* reports[p] : ONLOGUPLOAD statuses dispatched for p

vars == <<m_uploadLogsPid, mutex, pc, op, child, result, events, reports>>

Threads == Workers \union {Bus}

Calls == {"UploadLogsAsync", "AbortLogUpload", "LightSleep", "DeepSleep",
          "PowerOther"}

WorkerPC == {"idle", "upload_check", "upload_fork", "abort_lock", "abort_wait",
             "deep_check", "announce"}

\* A child is born by fork, runs, posts its result on the bus, ends, and is
\* then a zombie until it is waited for.
ChildState == {"unborn", "running", "finishing", "zombie", "reaped"}

\* The states of a LOG_UPLOAD event and what a client is told for each.
UploadState == {"SUCCESS", "ABORTED", "FAILED"}

\* Mutant: the bus state is passed on as it came.
StatusOfRaw == [SUCCESS |-> "SUCCESS", ABORTED |-> "ABORTED",
                FAILED |-> "FAILED"]

StatusOf == [SUCCESS |-> "UPLOAD_SUCCESS", ABORTED |-> "UPLOAD_ABORTED",
             FAILED |-> "UPLOAD_FAILURE"]

Status == {"UPLOAD_SUCCESS", "UPLOAD_ABORTED", "UPLOAD_FAILURE"}

TypeOK ==
  /\ m_uploadLogsPid \in Pids \union {NoPid}
  /\ mutex \in Threads \union {NoThread}
  /\ pc \in [Threads -> WorkerPC \union {"log_wait"}]
  /\ op \in [Workers -> Calls \union {"none"}]
  /\ child \in [Pids -> ChildState]
  /\ result \in [Pids -> UploadState \union {"NONE"}]
  /\ events \subseteq [from : Pids, state : UploadState]
  /\ reports \in [Pids -> Seq(Status)]

Init ==
  /\ m_uploadLogsPid = NoPid
  /\ mutex = NoThread
  /\ pc = [t \in Threads |-> "idle"]
  /\ op = [w \in Workers |-> "none"]
  /\ child = [p \in Pids |-> "unborn"]
  /\ result = [p \in Pids |-> "NONE"]
  /\ events = {}
  /\ reports = [p \in Pids |-> << >>]

Goto(t, l) == pc' = [pc EXCEPT ![t] = l]

-----------------------------------------------------------------------------
(* The calls that reach a worker.                                          *)

\* Where each call starts.
Entry == [UploadLogsAsync |-> "upload_check", AbortLogUpload |-> "abort_lock",
          LightSleep |-> "upload_check", DeepSleep |-> "deep_check",
          PowerOther |-> "announce"]

Begin(w, call) ==
  /\ pc[w] = "idle"
  /\ op' = [op EXCEPT ![w] = call]
  /\ Goto(w, Entry[call])
  /\ UNCHANGED <<m_uploadLogsPid, mutex, child, result, events, reports>>

CallUploadLogsAsync(w) == Begin(w, "UploadLogsAsync")

CallAbortLogUpload(w) == Begin(w, "AbortLogUpload")

PowerState == {"ON", "OFF", "STANDBY", "STANDBY_LIGHT_SLEEP",
               "STANDBY_DEEP_SLEEP", "UNKNOWN"}

powerModeEnumToString ==
  [ON |-> "ON", OFF |-> "OFF", STANDBY |-> "LIGHT_SLEEP",
   STANDBY_LIGHT_SLEEP |-> "LIGHT_SLEEP", STANDBY_DEEP_SLEEP |-> "DEEP_SLEEP",
   UNKNOWN |-> ""]

\* What OnSystemPowerStateChanged does about log upload for a transition.
PowerCall(currentPowerState, powerState) ==
  CASE powerState \in {"LIGHT_SLEEP", "STANDBY"} /\ currentPowerState = "ON"
         /\ logUploadBeforeDeepSleepEnabled -> "LightSleep"
    [] powerState = "DEEP_SLEEP" -> "DeepSleep"
    [] OTHER -> "PowerOther"

PowerCalls ==
  {PowerCall(powerModeEnumToString[c], powerModeEnumToString[n]) :
     c \in PowerState, n \in PowerState}

\* PowerManager announces a transition from any state to any other.
OnPowerModeChanged(w) == \E call \in PowerCalls : Begin(w, call)

-----------------------------------------------------------------------------
(* The steps of a worker.                                                  *)

\* The worker goes on at l; a call that ends leaves nothing behind.
Resume(w, l) ==
  /\ Goto(w, l)
  /\ op' = [op EXCEPT ![w] = IF l = "idle" THEN "none" ELSE @]

AfterUpload == [UploadLogsAsync |-> "idle", LightSleep |-> "announce"]

AfterAbort == [UploadLogsAsync |-> "upload_fork", LightSleep |-> "upload_fork",
               AbortLogUpload |-> "idle", DeepSleep |-> "announce"]

\* Mutant: a running upload is not aborted first.
UploadCheckOnly(w) ==
  /\ pc[w] = "upload_check"
  /\ mutex = NoThread
  /\ Goto(w, "upload_fork")
  /\ UNCHANGED <<m_uploadLogsPid, mutex, op, child, result, events, reports>>

\* UploadLogsAsync looks at the pid under the lock, and lets the lock go.
UploadCheck(w) ==
  /\ pc[w] = "upload_check"
  /\ mutex = NoThread
  /\ Goto(w, IF m_uploadLogsPid # NoPid THEN "abort_lock" ELSE "upload_fork")
  /\ UNCHANGED <<m_uploadLogsPid, mutex, op, child, result, events, reports>>

\* fork() yields a new process, or nothing: no configuration, or it failed.
logUploadAsync(p) ==
  \/ /\ p \in Pids
     /\ child[p] = "unborn"
     /\ child' = [child EXCEPT ![p] = "running"]
  \/ /\ p = NoPid
     /\ UNCHANGED child

\* Then it takes the lock again, forks, and tracks what it forked.
UploadFork(w) ==
  /\ pc[w] = "upload_fork"
  /\ mutex = NoThread
  /\ \E p \in Pids \union {NoPid} : logUploadAsync(p) /\ m_uploadLogsPid' = p
  /\ Resume(w, AfterUpload[op[w]])
  /\ UNCHANGED <<mutex, result, events, reports>>

\* Mutant: with nothing to abort it tries again instead of returning.
AbortLogUploadRetries(w) ==
  /\ pc[w] = "abort_lock"
  /\ mutex = NoThread
  /\ IF m_uploadLogsPid # NoPid
       THEN /\ mutex' = w
            /\ child' = [child EXCEPT ![m_uploadLogsPid] = "zombie"]
            /\ Resume(w, "abort_wait")
       ELSE UNCHANGED <<mutex, child, pc, op>>
  /\ UNCHANGED <<m_uploadLogsPid, result, events, reports>>

\* AbortLogUpload takes the lock; it kills the tracked upload, or returns.
AbortLogUpload(w) ==
  /\ pc[w] = "abort_lock"
  /\ mutex = NoThread
  /\ IF m_uploadLogsPid # NoPid
       THEN /\ mutex' = w
            /\ child' = [child EXCEPT ![m_uploadLogsPid] = "zombie"]
            /\ Resume(w, "abort_wait")
       ELSE /\ Resume(w, AfterAbort[op[w]])
            /\ UNCHANGED <<mutex, child>>
  /\ UNCHANGED <<m_uploadLogsPid, result, events, reports>>

\* waitpid(m_uploadLogsPid) returns: the process has ended and is collected.
Waitpid ==
  /\ child[m_uploadLogsPid] = "zombie"
  /\ child' = [child EXCEPT ![m_uploadLogsPid] = "reaped"]

DispatchLogUpload(s) ==
  reports' = [reports EXCEPT ![m_uploadLogsPid] = Append(@, s)]

\* Mutant: the pid is not reset.
AbortWaitKeepsPid(w) ==
  /\ pc[w] = "abort_wait"
  /\ Waitpid
  /\ DispatchLogUpload("UPLOAD_ABORTED")
  /\ mutex' = NoThread
  /\ Resume(w, AfterAbort[op[w]])
  /\ UNCHANGED <<m_uploadLogsPid, result, events>>

\* Mutant: the abort is not reported.
AbortWaitSilent(w) ==
  /\ pc[w] = "abort_wait"
  /\ Waitpid
  /\ m_uploadLogsPid' = NoPid
  /\ mutex' = NoThread
  /\ Resume(w, AfterAbort[op[w]])
  /\ UNCHANGED <<reports, result, events>>

\* Still under the lock it waits, forgets the pid, reports and unlocks.
AbortWait(w) ==
  /\ pc[w] = "abort_wait"
  /\ Waitpid
  /\ m_uploadLogsPid' = NoPid
  /\ DispatchLogUpload("UPLOAD_ABORTED")
  /\ mutex' = NoThread
  /\ Resume(w, AfterAbort[op[w]])
  /\ UNCHANGED <<result, events>>

\* The DEEP_SLEEP branch of OnSystemPowerStateChanged aborts what it sees.
DeepCheck(w) ==
  /\ pc[w] = "deep_check"
  /\ mutex = NoThread
  /\ Goto(w, IF m_uploadLogsPid # NoPid THEN "abort_lock" ELSE "announce")
  /\ UNCHANGED <<m_uploadLogsPid, mutex, op, child, result, events, reports>>

\* OnSystemPowerStateChanged ends by dispatching ONSYSTEMPOWERSTATECHANGED.
AnnouncePowerState(w) ==
  /\ pc[w] = "announce"
  /\ Resume(w, "idle")
  /\ UNCHANGED <<m_uploadLogsPid, mutex, child, result, events, reports>>

-----------------------------------------------------------------------------
(* The bus thread.                                                         *)

\* Mutant: only a success ends the upload.
OnLogUploadSuccessOnly(ev) ==
  /\ pc[Bus] = "idle"
  /\ ev \in events
  /\ mutex = NoThread
  /\ events' = events \ {ev}
  /\ IF m_uploadLogsPid # NoPid /\ ev.state = "SUCCESS"
       THEN /\ mutex' = Bus
            /\ DispatchLogUpload(StatusOf[ev.state])
            /\ Goto(Bus, "log_wait")
       ELSE UNCHANGED <<mutex, reports, pc>>
  /\ UNCHANGED <<m_uploadLogsPid, op, child, result>>

\* A LOG_UPLOAD event names no process: it is taken to be about the tracked
\* one, which is reported at once and waited for with the lock held.
OnLogUpload(ev) ==
  /\ pc[Bus] = "idle"
  /\ ev \in events
  /\ mutex = NoThread
  /\ events' = events \ {ev}
  /\ IF m_uploadLogsPid # NoPid
       THEN /\ mutex' = Bus
            /\ DispatchLogUpload(StatusOf[ev.state])
            /\ Goto(Bus, "log_wait")
       ELSE UNCHANGED <<mutex, reports, pc>>
  /\ UNCHANGED <<m_uploadLogsPid, op, child, result>>

\* Mutant: the pid is not reset.
OnLogUploadWaitKeepsPid ==
  /\ pc[Bus] = "log_wait"
  /\ Waitpid
  /\ mutex' = NoThread
  /\ Goto(Bus, "idle")
  /\ UNCHANGED <<m_uploadLogsPid, op, result, events, reports>>

OnLogUploadWait ==
  /\ pc[Bus] = "log_wait"
  /\ Waitpid
  /\ m_uploadLogsPid' = NoPid
  /\ mutex' = NoThread
  /\ Goto(Bus, "idle")
  /\ UNCHANGED <<op, result, events, reports>>

-----------------------------------------------------------------------------
(* The upload process, which runs uploadstblogs_run and ends.              *)

ChildPosts(p, s) ==
  /\ child[p] = "running"
  /\ child' = [child EXCEPT ![p] = "finishing"]
  /\ result' = [result EXCEPT ![p] = s]
  /\ events' = events \union {[from |-> p, state |-> s]}
  /\ UNCHANGED <<m_uploadLogsPid, mutex, pc, op, reports>>

\* It ends after it posted, or without a word (a crash, the OOM killer).
ChildExits(p) ==
  /\ child[p] \in {"running", "finishing"}
  /\ child' = [child EXCEPT ![p] = "zombie"]
  /\ UNCHANGED <<m_uploadLogsPid, mutex, pc, op, result, events, reports>>

-----------------------------------------------------------------------------

NewCall(w) ==
  \/ CallUploadLogsAsync(w)
  \/ CallAbortLogUpload(w)
  \/ OnPowerModeChanged(w)

WorkerStep(w) ==
  \/ UploadCheck(w)
  \/ UploadFork(w)
  \/ AbortLogUpload(w)
  \/ AbortWait(w)
  \/ DeepCheck(w)
  \/ AnnouncePowerState(w)

BusStep == (\E ev \in events : OnLogUpload(ev)) \/ OnLogUploadWait

ChildStep(p) == (\E s \in UploadState : ChildPosts(p, s)) \/ ChildExits(p)

Next ==
  \/ \E w \in Workers : NewCall(w) \/ WorkerStep(w)
  \/ BusStep
  \/ \E p \in Pids : ChildStep(p)

Spec == Init /\ [][Next]_vars

\* Threads are scheduled and blocked calls return when what they wait for
\* is there.  Nothing makes a client call, or a running upload end.
ThreadFairness ==
  /\ \A w \in Workers : WF_vars(WorkerStep(w))
  /\ WF_vars(BusStep)

\* uploadstblogs_run returns: its transfers time out and retries are counted.
UploadEnds == \A p \in Pids : WF_vars(ChildStep(p))

ThreadSpec == Spec /\ ThreadFairness

FairSpec == ThreadSpec /\ UploadEnds
-----------------------------------------------------------------------------
(* Safety.                                                                 *)

\* The pid that is tracked belongs to a process that was not waited for yet:
\* AbortLogUpload kills, and both handlers wait for, a child of this process
\* and never a pid the system may have given to somebody else.
TrackedIsUnreaped ==
  m_uploadLogsPid # NoPid =>
    child[m_uploadLogsPid] \in {"running", "finishing", "zombie"}

\* A thread inside waitpid holds the lock and waits for a real pid, so that
\* an abort and a completion never collect, or report, the same upload.
OneWaiter ==
  \A t \in Threads :
    pc[t] \in {"abort_wait", "log_wait"} => mutex = t /\ m_uploadLogsPid # NoPid

\* Whenever the lock is free, an upload was reported once if its process was
\* collected and not at all if it was not, however aborts, new uploads and
\* completion events interleave: no end is reported twice, or in silence.
ReapedOnceReportedOnce ==
  mutex = NoThread =>
    \A p \in Pids : Len(reports[p]) = IF child[p] = "reaped" THEN 1 ELSE 0

Orphan(p) ==
  child[p] \in {"running", "finishing", "zombie"} /\ m_uploadLogsPid # p

\* Every upload process is the tracked one: none runs on that an abort cannot
\* reach, and none stays a zombie that nobody will wait for.
NoOrphan == \A p \in Pids : ~Orphan(p)

ReportIsFinalStep ==
  \A p \in Pids : child[p] = "reaped" =>
    reports'[p] = reports[p] /\ m_uploadLogsPid' # p

\* Once an upload was collected nothing more is reported about it and the slot
\* never goes back to it: a late event finds another upload or none.
ReportIsFinal == [][ReportIsFinalStep]_vars

-----------------------------------------------------------------------------
(* Liveness.                                                               *)

CallsCease == <>[][\A w \in Workers : ~NewCall(w)]_vars

\* Every call returns and every power transition is announced, provided that
\* the others stop calling: a std::mutex is not fair, so a stream of calls
\* might hold a waiting thread off for ever.
CallsReturn ==
  CallsCease => \A w \in Workers : pc[w] # "idle" ~> pc[w] = "idle"

\* An upload that posted its result is reported, whatever happens to it later.
PostedIsReported ==
  \A p \in Pids : child[p] = "finishing" ~> reports[p] # << >>

-----------------------------------------------------------------------------
(* The promise.                                                            *)

\* The slot is empty as soon as OnLogUpload has reported the upload in it.
Tracker ==
  INSTANCE UploadTracker WITH
    slot <- IF pc[Bus] = "log_wait" THEN NoPid ELSE m_uploadLogsPid,
    started <- {p \in Pids : child[p] # "unborn"}

\* The threads and the lock implement the single slot of UploadTracker.
ImplementsTracker == Tracker!TrackerSpec
=============================================================================
