--------------------------- MODULE OperatingMode ---------------------------
(***************************************************************************)
(* The operating mode: SetMode, the mode timer that ends a timed mode, and *)
(* Configure, which restores the mode when the process was restarted.      *)
(*                                                                         *)
(* SetMode takes no lock.  It runs on the workers that serve requests, on  *)
(* every timer thread whose time is up, and on Main, which activates and   *)
(* deactivates the plugin.  A step reads or writes one of the places they  *)
(* share: the mode, the remaining duration, the timer's flag and thread    *)
(* handle, the file of settings, the warehouse file, the IARM daemon.      *)
(***************************************************************************)
EXTENDS Integers

CONSTANTS
  Workers,    \* threads that serve setMode
  Tids,       \* threads the timer may be running on; bounds those alive at once
  Main,       \* the thread that activates the plugin
  NoTimer,    \* the timer's std::thread is not joinable
  Durations,  \* the durations, in ticks, that clients ask for
  MaxCalls,   \* bound on the calls of setMode
  MaxCrashes, \* bound on the crashes of the process
  MaxCycles,  \* bound on deactivating and activating in the same process
  Serial      \* TRUE where a call or a tick ends before the next one starts

ASSUME OperatingModeAssumption ==
  /\ Main \notin Workers \union Tids
  /\ Workers \intersect Tids = {}
  /\ NoTimer \notin Tids
  /\ Durations \subseteq Int
  /\ MaxCalls \in Nat /\ MaxCrashes \in Nat /\ MaxCycles \in Nat
  /\ Serial \in BOOLEAN

VARIABLES
  m_currentMode,        \* "" until the first SetMode of the process
  m_remainingDuration,  \* ticks left; a plain int
  clear,                \* cTimer::clear, the request to stop
  timerThread,          \* cTimer::timerThread: a joinable thread, or NoTimer
  pc, frame,            \* where each thread is, and the locals of its SetMode
  temp,                 \* the file of settings: mode ("" if absent), duration
  warehouseFile,        \* does WAREHOUSE_MODE_FILE exist
  lastFile,             \* how making or removing it ended the last time
  daemonMode,           \* the mode the IARM daemon was last switched to
  lastIarm,             \* how the last DaemonSysModeChange ended
  promise,              \* the permanent mode last granted to a client, or ""
  terminated,           \* was std::terminate called
  calls, crashes, cycles

memory == <<m_currentMode, m_remainingDuration, clear, timerThread>>
warehouse == <<warehouseFile, lastFile>>
disk == <<temp, warehouse>>
daemon == <<daemonMode, lastIarm>>
bounds == <<calls, crashes, cycles>>
vars == <<memory, pc, frame, disk, daemon, promise, terminated, bounds>>

Threads == Workers \union Tids \union {Main}

Mode == {"NORMAL", "WAREHOUSE", "EAS"}

SetModePC == {"decide", "start_rd", "start_timer", "start_save", "stop_rd",
              "stop_clear", "stop_save", "iarm", "fail_mode", "file_check",
              "file_create", "file_remove", "save_mode", "save_duration"}

TimerPC == {"top", "sleep", "tick", "tick_dec", "tick_detach", "tick_save"}

OtherPC == {"idle", "none", "ended", "down", "configure", "active", "inactive"}

\* The arguments of SetMode, where stopModeTimer returns to, how IARM answered
\* this call, and the value a tick has read.
Frame == [mode : Mode \union {"invalid"}, duration : Int,
          ret : {"iarm", "fail_mode"}, ok : BOOLEAN, load : Int]

TypeOK ==
  /\ m_currentMode \in Mode \union {""}
  /\ m_remainingDuration \in Int
  /\ clear \in BOOLEAN
  /\ timerThread \in Tids \union {NoTimer}
  /\ pc \in [Threads -> SetModePC \union TimerPC \union OtherPC]
  /\ frame \in [Threads -> Frame]
  /\ temp \in [mode : Mode \union {""}, duration : Int]
  /\ warehouseFile \in BOOLEAN
  /\ lastFile \in {"ok", "failed"}
  /\ daemonMode \in Mode
  /\ lastIarm \in {"ok", "failed"}
  /\ promise \in Mode \union {""}
  /\ terminated \in BOOLEAN
  /\ calls \in 0 .. MaxCalls
  /\ crashes \in 0 .. MaxCrashes
  /\ cycles \in 0 .. MaxCycles

Ticking == {"tick", "tick_dec", "tick_detach", "tick_save"}

\* A tick lasts no time next to its interval of a second, and SetMode little:
\* Serial tells what goes wrong in any order from what goes wrong by a race.
Undisturbed ==
  Serial => \A t \in Threads : pc[t] \notin SetModePC \union Ticking

EmptyFrame ==
  [mode |-> "NORMAL", duration |-> 0, ret |-> "iarm", ok |-> FALSE, load |-> 0]

DeadPC(main) ==
  [t \in Threads |-> IF t = Main THEN main
                     ELSE IF t \in Workers THEN "idle" ELSE "none"]

Init ==
  /\ m_currentMode = ""
  /\ m_remainingDuration = 0
  /\ clear = FALSE
  /\ timerThread = NoTimer
  /\ pc = DeadPC("configure")
  /\ frame = [t \in Threads |-> EmptyFrame]
  /\ temp = [mode |-> "", duration |-> 0]
  /\ warehouseFile = FALSE
  /\ lastFile = "ok"
  /\ daemonMode = "NORMAL"
  /\ lastIarm = "ok"
  /\ promise = ""
  /\ terminated = FALSE
  /\ calls = 0 /\ crashes = 0 /\ cycles = 0

At(t, l) == pc[t] = l

Goto(t, l) == pc' = [pc EXCEPT ![t] = l]

\* The process dies: its memory is lost, what is on disk and in the daemon stays.
ProcessDies ==
  /\ m_currentMode' = ""
  /\ m_remainingDuration' = 0
  /\ clear' = FALSE
  /\ timerThread' = NoTimer
  /\ pc' = DeadPC("down")
  /\ frame' = [t \in Threads |-> EmptyFrame]
  /\ UNCHANGED <<disk, daemon, promise, bounds>>

\* std::terminate: a joinable std::thread is assigned to, or one that is not
\* joinable is detached on a thread that catches nothing.
Terminate == ProcessDies /\ terminated' = TRUE

-----------------------------------------------------------------------------
(* SetMode, on thread t.                                                   *)

\* Thread t starts SetMode(mode, duration).
EnterSetMode(t, mode, duration) ==
  /\ Goto(t, "decide")
  /\ frame' = [frame EXCEPT ![t].mode = mode, ![t].duration = duration,
                            ![t].ret = "iarm", ![t].ok = FALSE]

Caller(t) ==
  IF t \in Workers THEN "idle" ELSE IF t \in Tids THEN "tick_save" ELSE "active"

\* A permanent mode that IARM accepted is promised to the client.
Return(t) ==
  /\ Goto(t, Caller(t))
  /\ promise' = IF t \in Workers /\ frame[t].ok /\ frame[t].duration < 0
                     /\ frame[t].mode # "NORMAL"
                  THEN frame[t].mode ELSE promise
  /\ frame' = [frame EXCEPT ![t] = EmptyFrame]

KeepsNormal(t) ==
  /\ m_currentMode = "NORMAL"
  /\ \/ frame[t].duration = 0
     \/ frame[t].duration # 0 /\ frame[t].mode = "NORMAL"

Decide(t) ==
  /\ At(t, "decide")
  /\ \/ /\ frame[t].mode \notin Mode \/ KeepsNormal(t)
        /\ Return(t)
        /\ UNCHANGED m_currentMode
     \/ /\ frame[t].mode \in Mode /\ ~KeepsNormal(t)
        /\ frame[t].mode # "NORMAL" /\ frame[t].duration # 0
        /\ m_currentMode' = frame[t].mode
        /\ Goto(t, IF frame[t].duration < 0 THEN "stop_rd" ELSE "start_rd")
        /\ UNCHANGED <<frame, promise>>
     \/ /\ frame[t].mode \in Mode /\ ~KeepsNormal(t)
        /\ frame[t].mode = "NORMAL" \/ frame[t].duration = 0
        /\ m_currentMode' = "NORMAL"
        /\ Goto(t, "stop_rd")
        /\ UNCHANGED <<frame, promise>>
  /\ UNCHANGED <<m_remainingDuration, clear, timerThread, disk, daemon,
                 terminated, bounds>>

\* startModeTimer: the duration, the timer, the file.
StartDuration(t) ==
  /\ At(t, "start_rd")
  /\ m_remainingDuration' = frame[t].duration
  /\ Goto(t, "start_timer")
  /\ UNCHANGED <<m_currentMode, clear, timerThread, frame, disk, daemon,
                 promise, terminated, bounds>>

Startable(tid) == timerThread # tid /\ pc[tid] \in {"none", "ended"}

\* Mutant: the flag that stopped the last timer also stops the next one.
TimerStartKeepsClear(t) ==
  /\ At(t, "start_timer")
  /\ timerThread = NoTimer
  /\ \E tid \in Tids :
       /\ Startable(tid)
       /\ timerThread' = tid
       /\ pc' = [pc EXCEPT ![t] = "start_save", ![tid] = "top"]
  /\ UNCHANGED <<m_currentMode, m_remainingDuration, clear, frame, disk,
                 daemon, promise, terminated, bounds>>

\* cTimer::start assigns a new std::thread over the old one.
TimerStart(t) ==
  /\ At(t, "start_timer")
  /\ \/ timerThread # NoTimer /\ Terminate
     \/ /\ timerThread = NoTimer
        /\ clear' = FALSE
        /\ \E tid \in Tids :
             /\ Startable(tid)
             /\ timerThread' = tid
             /\ pc' = [pc EXCEPT ![t] = "start_save", ![tid] = "top"]
        /\ UNCHANGED <<m_currentMode, m_remainingDuration, frame, disk, daemon,
                       promise, terminated, bounds>>

SaveDuration(t, from, to) ==
  /\ At(t, from)
  /\ temp' = [temp EXCEPT !.duration = m_remainingDuration]
  /\ Goto(t, to)
  /\ UNCHANGED <<memory, frame, warehouse, daemon, promise, terminated,
                 bounds>>

StartSave(t) == SaveDuration(t, "start_save", "iarm")

\* stopModeTimer: the duration, the timer's flag, the file.
StopDuration(t) ==
  /\ At(t, "stop_rd")
  /\ m_remainingDuration' = 0
  /\ Goto(t, "stop_clear")
  /\ UNCHANGED <<m_currentMode, clear, timerThread, frame, disk, daemon,
                 promise, terminated, bounds>>

TimerStop(t) ==
  /\ At(t, "stop_clear")
  /\ clear' = TRUE
  /\ Goto(t, "stop_save")
  /\ UNCHANGED <<m_currentMode, m_remainingDuration, timerThread, frame, disk,
                 daemon, promise, terminated, bounds>>

StopSave(t) == SaveDuration(t, "stop_save", frame[t].ret)

\* Mutant: the daemon is told the mode of the request, not the one entered.
IarmCallRequested(t) ==
  /\ At(t, "iarm")
  /\ daemonMode' = frame[t].mode
  /\ lastIarm' = "ok"
  /\ frame' = [frame EXCEPT ![t].ok = TRUE]
  /\ Goto(t, "file_check")
  /\ UNCHANGED <<memory, disk, promise, terminated, bounds>>

\* DaemonSysModeChange is told the new mode; the call may fail.
IarmCall(t) ==
  /\ At(t, "iarm")
  /\ \/ /\ daemonMode' = m_currentMode
        /\ lastIarm' = "ok"
        /\ frame' = [frame EXCEPT ![t].ok = TRUE]
        /\ Goto(t, "file_check")
     \/ /\ lastIarm' = "failed"
        /\ frame' = [frame EXCEPT ![t].ret = "fail_mode"]
        /\ Goto(t, "stop_rd")
        /\ UNCHANGED daemonMode
  /\ UNCHANGED <<memory, disk, promise, terminated, bounds>>

\* After a failure the mode is forced to NORMAL; the daemon is not told.
FailMode(t) ==
  /\ At(t, "fail_mode")
  /\ m_currentMode' = "NORMAL"
  /\ Goto(t, "file_check")
  /\ UNCHANGED <<m_remainingDuration, clear, timerThread, frame, disk, daemon,
                 promise, terminated, bounds>>

\* Mutant: the warehouse file follows the request.
FileCheckRequested(t) ==
  /\ At(t, "file_check")
  /\ Goto(t, IF frame[t].mode = "WAREHOUSE" THEN "file_create" ELSE "file_remove")
  /\ UNCHANGED <<memory, frame, disk, daemon, promise, terminated, bounds>>

\* The warehouse file follows the mode as it is found now.
FileCheck(t) ==
  /\ At(t, "file_check")
  /\ Goto(t, IF m_currentMode = "WAREHOUSE" THEN "file_create" ELSE "file_remove")
  /\ UNCHANGED <<memory, frame, disk, daemon, promise, terminated, bounds>>

\* The file is made, or removed if it is found.  fopen and unlink may fail: that
\* is logged, and the call goes on to the settings.
FileWrite(t) ==
  /\ pc[t] \in {"file_create", "file_remove"}
  /\ \/ /\ warehouseFile' = (pc[t] = "file_create")
        /\ lastFile' = "ok"
     \/ /\ At(t, "file_create") \/ warehouseFile
        /\ lastFile' = "failed"
        /\ UNCHANGED warehouseFile
  /\ Goto(t, "save_mode")
  /\ UNCHANGED <<memory, frame, temp, daemon, promise, terminated, bounds>>

SaveMode(t) ==
  /\ At(t, "save_mode")
  /\ temp' = [temp EXCEPT !.mode = m_currentMode]
  /\ Goto(t, "save_duration")
  /\ UNCHANGED <<memory, frame, warehouse, daemon, promise, terminated,
                 bounds>>

SetModeReturns(t) ==
  /\ At(t, "save_duration")
  /\ temp' = [temp EXCEPT !.duration = m_remainingDuration]
  /\ Return(t)
  /\ UNCHANGED <<memory, warehouse, daemon, terminated, bounds>>

SetModeStep(t) ==
  \/ Decide(t)
  \/ StartDuration(t) \/ TimerStart(t) \/ StartSave(t)
  \/ StopDuration(t) \/ TimerStop(t) \/ StopSave(t)
  \/ IarmCall(t) \/ FailMode(t)
  \/ FileCheck(t) \/ FileWrite(t)
  \/ SaveMode(t) \/ SetModeReturns(t)

-----------------------------------------------------------------------------
(* timerFunction, on thread t.                                             *)

\* The flag is looked at before and after the sleep of one interval.
TimerLoop(t) ==
  /\ pc[t] \in {"top", "sleep"}
  /\ At(t, "sleep") => Undisturbed
  /\ Goto(t, IF clear THEN "ended" ELSE IF pc[t] = "top" THEN "sleep" ELSE "tick")
  /\ UNCHANGED <<memory, frame, disk, daemon, promise, terminated, bounds>>

\* updateDuration: one tick less, or the time is up and the timer is stopped.
Tick(t) ==
  /\ At(t, "tick")
  /\ IF m_remainingDuration > 0
       THEN /\ frame' = [frame EXCEPT ![t].load = m_remainingDuration]
            /\ Goto(t, "tick_dec")
            /\ UNCHANGED clear
       ELSE /\ clear' = TRUE
            /\ Goto(t, "tick_detach")
            /\ UNCHANGED frame
  /\ UNCHANGED <<m_currentMode, m_remainingDuration, timerThread, disk, daemon,
                 promise, terminated, bounds>>

\* m_remainingDuration-- on a plain int, from the value tested or a fresh one.
TickDecrement(t) ==
  /\ At(t, "tick_dec")
  /\ m_remainingDuration' \in {frame[t].load - 1, m_remainingDuration - 1}
  /\ Goto(t, "tick_save")
  /\ frame' = [frame EXCEPT ![t] = EmptyFrame]
  /\ UNCHANGED <<m_currentMode, clear, timerThread, disk, daemon, promise,
                 terminated, bounds>>

\* The timer lets its thread go and ends the mode, if there is an instance.
TickDetach(t) ==
  /\ At(t, "tick_detach")
  /\ \/ timerThread = NoTimer /\ Terminate
     \/ /\ timerThread # NoTimer
        /\ timerThread' = NoTimer
        /\ IF pc[Main] = "inactive"
             THEN Goto(t, "tick_save") /\ UNCHANGED frame
             ELSE EnterSetMode(t, "NORMAL", 0)
        /\ UNCHANGED <<m_currentMode, m_remainingDuration, clear, disk, daemon,
                       promise, terminated, bounds>>

TickSave(t) == SaveDuration(t, "tick_save", "top")

TimerStep(t) ==
  TimerLoop(t) \/ Tick(t) \/ TickDecrement(t) \/ TickDetach(t) \/ TickSave(t)

-----------------------------------------------------------------------------
(* The plugin's life, and its clients.                                     *)

\* Mutants: the first boot restores too; the duration is not restored.
ConfigureAlwaysRestores ==
  /\ At(Main, "configure")
  /\ IF m_currentMode # ""
       THEN Goto(Main, "active") /\ UNCHANGED frame
       ELSE EnterSetMode(Main, temp.mode, temp.duration)
  /\ UNCHANGED <<memory, disk, daemon, promise, terminated, bounds>>

ConfigureForgetsDuration ==
  /\ At(Main, "configure")
  /\ IF m_currentMode # ""
       THEN Goto(Main, "active") /\ UNCHANGED frame
       ELSE EnterSetMode(Main, IF temp.mode = "" THEN "NORMAL" ELSE temp.mode, -1)
  /\ UNCHANGED <<memory, disk, daemon, promise, terminated, bounds>>

\* Configure sets NORMAL on the first boot, restores the saved mode when the
\* process is new, and leaves a mode that survived in memory alone.
Configure ==
  /\ At(Main, "configure")
  /\ IF m_currentMode # ""
       THEN Goto(Main, "active") /\ UNCHANGED frame
       ELSE IF temp.mode = ""
              THEN EnterSetMode(Main, "NORMAL", -1)
              ELSE EnterSetMode(Main, temp.mode, temp.duration)
  /\ UNCHANGED <<memory, disk, daemon, promise, terminated, bounds>>

\* The destructor stops the timer; calls in progress have ended by then.
Deactivate ==
  /\ At(Main, "active")
  /\ \A w \in Workers : At(w, "idle")
  /\ cycles < MaxCycles
  /\ cycles' = cycles + 1
  /\ clear' = TRUE
  /\ Goto(Main, "inactive")
  /\ UNCHANGED <<m_currentMode, m_remainingDuration, timerThread, frame, disk,
                 daemon, promise, terminated, calls, crashes>>

\* Activation constructs a new instance in a running or in a new process.
Activate ==
  /\ pc[Main] \in {"inactive", "down"}
  /\ Goto(Main, "configure")
  /\ UNCHANGED <<memory, frame, disk, daemon, promise, terminated, bounds>>

Crash ==
  /\ pc[Main] # "down"
  /\ crashes < MaxCrashes
  /\ m_currentMode' = ""
  /\ m_remainingDuration' = 0
  /\ clear' = FALSE
  /\ timerThread' = NoTimer
  /\ pc' = DeadPC("down")
  /\ frame' = [t \in Threads |-> EmptyFrame]
  /\ crashes' = crashes + 1
  /\ UNCHANGED <<disk, daemon, promise, terminated, calls, cycles>>

CallSetMode(w, mode, duration) ==
  /\ At(w, "idle") /\ At(Main, "active")
  /\ Undisturbed
  /\ calls < MaxCalls
  /\ calls' = calls + 1
  /\ EnterSetMode(w, mode, duration)
  /\ promise' = IF mode \in Mode THEN "" ELSE promise
  /\ UNCHANGED <<memory, disk, daemon, terminated, crashes, cycles>>

Next ==
  \/ \E t \in Threads : SetModeStep(t)
  \/ \E t \in Tids : TimerStep(t)
  \/ Configure \/ Activate \/ Deactivate \/ Crash
  \/ \E w \in Workers, m \in Mode \union {"invalid"}, d \in Durations :
       CallSetMode(w, m, d)

Spec == Init /\ [][Next]_vars

\* Threads run, IARM calls return, and a plugin that is down is started again.
Fairness ==
  /\ \A t \in Threads : WF_vars(SetModeStep(t))
  /\ \A t \in Tids : WF_vars(TimerStep(t))
  /\ WF_vars(Configure) /\ WF_vars(Activate)

FairSpec == Spec /\ Fairness

-----------------------------------------------------------------------------
(* Properties.                                                             *)

Timing(t) == pc[t] \in {"top", "sleep"}

\* The plugin is active, no SetMode is in progress and no tick either.
Settled ==
  /\ At(Main, "active")
  /\ \A w \in Workers : At(w, "idle")
  /\ \A t \in Tids : Timing(t) \/ pc[t] \in {"none", "ended"}

\* When no call is in progress the file of settings, which the next process
\* restores from, has the mode the plugin is in, whatever IARM or the warehouse
\* file did on the way, and whenever the process died.  The warehouse file, which
\* other programs look at, is there in that mode and in no other, unless making
\* or removing it failed the last time: nothing tries again before the next call.
SettledAgree ==
  Settled => /\ temp.mode = m_currentMode
             /\ lastFile = "ok" => warehouseFile = (m_currentMode = "WAREHOUSE")

\* When no call is in progress and IARM accepted the last change of mode, the
\* daemon runs in the mode the plugin is in.
DaemonFollows == Settled /\ lastIarm = "ok" => daemonMode = m_currentMode

\* A special mode that no client was granted for good.
Temporary == m_currentMode \in {"WAREHOUSE", "EAS"} /\ promise = ""

\* When no call is in progress, a mode that was not granted for good has a
\* timer thread that will end it, and the file has the time that is left, so
\* that the next process can.  (A deactivation stops the timer for good.)
TimedModeIsTimed ==
  Settled /\ Temporary /\ cycles = 0
    => /\ temp.duration = m_remainingDuration
       /\ \E t \in Tids : Timing(t) /\ ~clear

\* A mode that is asked for with a duration comes to an end, or is granted for
\* good by a later call, across crashes and restarts of the process, as long
\* as the plugin is not deactivated in between.
ModeExpires == Temporary ~> (~Temporary \/ cycles > 0 \/ terminated)

\* A mode that was granted until the next call lasts until the next call,
\* crashes and restarts included.
PermanentModeKept == Settled /\ promise # "" => m_currentMode = promise
=============================================================================
