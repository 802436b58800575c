------------------------ MODULE OperatingModeProofs ------------------------
(***************************************************************************)
(* For any number of threads, calls, crashes and reactivations: the types  *)
(* of the operating mode and, where calls and ticks do not overlap, that   *)
(* files and daemon show the mode whenever no call is in progress, and     *)
(* that a mode nobody was granted for good has a timer that will end it.   *)
(***************************************************************************)
EXTENDS OperatingMode, TLAPS

Places == SetModePC \union TimerPC \union OtherPC

\* The places of a call that came past its decision.
Past == SetModePC \ {"decide"}

MemoryType ==
  /\ m_currentMode \in Mode \union {""} /\ m_remainingDuration \in Int
  /\ clear \in BOOLEAN /\ timerThread \in Tids \union {NoTimer}

ThreadsType == pc \in [Threads -> Places] /\ frame \in [Threads -> Frame]

DiskType ==
  /\ temp \in [mode : Mode \union {""}, duration : Int]
  /\ warehouseFile \in BOOLEAN
  /\ lastFile \in {"ok", "failed"}

DaemonType == daemonMode \in Mode /\ lastIarm \in {"ok", "failed"}

PromiseType == promise \in Mode \union {""} /\ terminated \in BOOLEAN

BoundsType ==
  calls \in 0 .. MaxCalls /\ crashes \in 0 .. MaxCrashes /\ cycles \in 0 .. MaxCycles

\* A call that came past its decision, or that IARM accepted, has a real mode.
GrantOK == \A t \in Threads : pc[t] \in Past \/ frame[t].ok => frame[t].mode \in Mode

\* A call that came past its decision has given the process a mode.
EnteredOK == \A t \in Threads : pc[t] \in Past => m_currentMode \in Mode

TypeInv ==
  /\ MemoryType /\ ThreadsType /\ DiskType /\ DaemonType /\ PromiseType /\ BoundsType
  /\ GrantOK /\ EnteredOK

LEMMA TypeInvTypeOK == TypeInv => TypeOK
  BY DEF TypeInv, TypeOK, MemoryType, ThreadsType, DiskType, DaemonType, PromiseType,
         BoundsType, Places

-----------------------------------------------------------------------------
(* Types.                                                                  *)

LEMMA ThreadsOf == Workers \subseteq Threads /\ Tids \subseteq Threads /\ Main \in Threads
  BY DEF Threads

LEMMA EmptyFrameType == EmptyFrame \in Frame /\ ~EmptyFrame.ok /\ EmptyFrame.mode \in Mode
  BY DEF EmptyFrame, Frame, Mode

LEMMA DeadPCType ==
  ASSUME NEW main \in {"configure", "down"}
  PROVE  /\ DeadPC(main) \in [Threads -> Places]
         /\ \A t \in Threads : DeadPC(main)[t] \notin Past
<1>1. DeadPC(main) \in [Threads -> Places]
  BY DEF DeadPC, OtherPC, Places
<1>2. \A t \in Threads : DeadPC(main)[t] \notin Past
  BY DEF DeadPC, Past, SetModePC
<1>3. QED
  BY <1>1, <1>2

\* A process whose threads are in their first places, with empty frames.
LEMMA FreshThreads ==
  ASSUME NEW main \in {"configure", "down"},
         pc = DeadPC(main), frame = [t \in Threads |-> EmptyFrame]
  PROVE  ThreadsType /\ GrantOK /\ EnteredOK
  BY DeadPCType, EmptyFrameType DEF ThreadsType, GrantOK, EnteredOK

LEMMA FreshThreadsNext ==
  ASSUME pc' = DeadPC("down"), frame' = [t \in Threads |-> EmptyFrame]
  PROVE  ThreadsType' /\ GrantOK' /\ EnteredOK'
  BY DeadPCType, EmptyFrameType DEF ThreadsType, GrantOK, EnteredOK

LEMMA InitTypeInv == Init => TypeInv
<1> SUFFICES ASSUME Init PROVE TypeInv
  OBVIOUS
<1>1. ThreadsType /\ GrantOK /\ EnteredOK
  BY FreshThreads DEF Init
<1>2. MemoryType
  <2>1. m_currentMode = "" /\ m_remainingDuration = 0 /\ clear = FALSE /\ timerThread = NoTimer
    BY DEF Init
  <2>2. "" \in Mode \union {""} /\ 0 \in Int /\ FALSE \in BOOLEAN
    OBVIOUS
  <2>3. m_currentMode \in Mode \union {""} /\ m_remainingDuration \in Int
    BY <2>1, <2>2
  <2>4. clear \in BOOLEAN /\ timerThread \in Tids \union {NoTimer}
    BY <2>1, <2>2, Zenon
  <2>5. QED
    BY <2>2, <2>3, <2>4 DEF MemoryType
<1>3. temp \in [mode : Mode \union {""}, duration : Int]
  <2>1. temp = [mode |-> "", duration |-> 0]
    BY DEF Init
  <2>2. "" \in Mode \union {""} /\ 0 \in Int
    OBVIOUS
  <2>3. [mode |-> "", duration |-> 0] \in [mode : Mode \union {""}, duration : Int]
    BY <2>2
  <2>4. QED
    BY <2>1, <2>3
<1>4. DiskType
  BY <1>3 DEF Init, DiskType
<1>5. DaemonType /\ PromiseType
  BY DEF Init, DaemonType, PromiseType, Mode
<1>6. BoundsType
  <2>1. calls = 0 /\ crashes = 0 /\ cycles = 0
    BY DEF Init
  <2>2. QED
    BY <2>1, OperatingModeAssumption DEF BoundsType
<1>7. QED
  BY <1>1, <1>2, <1>4, <1>5, <1>6 DEF TypeInv

\* What a step leaves alone keeps its type.
LEMMA Unchanged ==
  ASSUME TypeInv
  PROVE  /\ UNCHANGED memory => MemoryType'
         /\ UNCHANGED disk => DiskType'
         /\ UNCHANGED daemon => DaemonType'
         /\ UNCHANGED <<promise, terminated>> => PromiseType'
         /\ UNCHANGED bounds => BoundsType'
<1>1. UNCHANGED memory => MemoryType'
  BY DEF TypeInv, memory, MemoryType
<1>2. UNCHANGED disk => DiskType'
  BY DEF TypeInv, disk, DiskType, warehouse
<1>3. UNCHANGED daemon => DaemonType'
  BY DEF TypeInv, daemon, DaemonType
<1>4. UNCHANGED <<promise, terminated>> => PromiseType'
  BY DEF TypeInv, PromiseType
<1>5. UNCHANGED bounds => BoundsType'
  BY DEF TypeInv, bounds, BoundsType
<1>6. QED
  BY <1>1, <1>2, <1>3, <1>4, <1>5

\* The file of settings takes the remaining duration.
LEMMA SavedType ==
  ASSUME TypeInv, temp' = [temp EXCEPT !.duration = m_remainingDuration],
         UNCHANGED warehouse
  PROVE  DiskType'
  BY DEF TypeInv, DiskType, MemoryType, warehouse

\* A call past its decision has a real mode, and so has the process.
LEMMA PastFacts ==
  ASSUME TypeInv, NEW t \in Threads, pc[t] \in Past
  PROVE  frame[t].mode \in Mode /\ m_currentMode \in Mode
  BY DEF TypeInv, GrantOK, EnteredOK

\* A thread goes on in its call, or outside of every call.
LEMMA GotoType ==
  ASSUME TypeInv, NEW t \in Threads, NEW l \in Places, Goto(t, l), UNCHANGED frame,
         l \in Past => frame[t].mode \in Mode
  PROVE  ThreadsType' /\ GrantOK'
<1>1. pc' = [pc EXCEPT ![t] = l] /\ pc \in [Threads -> Places]
  BY DEF Goto, TypeInv, ThreadsType
<1>2. ThreadsType'
  BY <1>1 DEF ThreadsType, TypeInv
<1>3. GrantOK'
  BY <1>1 DEF GrantOK, TypeInv
<1>4. QED
  BY <1>2, <1>3

\* The process has a mode, or no further call comes past its decision.
LEMMA EnteredStep ==
  ASSUME TypeInv, NEW t \in Threads, NEW l \in Places, Goto(t, l),
         l \notin Past, UNCHANGED m_currentMode
  PROVE  EnteredOK'
  BY DEF EnteredOK, TypeInv, ThreadsType, Goto

LEMMA EnteredMode == ASSUME m_currentMode' \in Mode PROVE EnteredOK'
  BY DEF EnteredOK

\* A call that is past its decision takes a step.
LEMMA PastStep ==
  ASSUME TypeInv, NEW t \in Threads, NEW l \in Places, Goto(t, l), UNCHANGED frame,
         pc[t] \in Past, m_currentMode' \in Mode,
         MemoryType', DiskType', DaemonType', PromiseType', BoundsType'
  PROVE  TypeInv'
<1>1. frame[t].mode \in Mode
  BY PastFacts
<1>2. ThreadsType' /\ GrantOK'
  BY <1>1, GotoType
<1>3. EnteredOK'
  BY EnteredMode
<1>4. QED
  BY <1>2, <1>3 DEF TypeInv

\* A thread outside of every call stays there.
LEMMA OutsideStep ==
  ASSUME TypeInv, NEW t \in Threads, NEW l \in Places, Goto(t, l), UNCHANGED frame,
         l \notin Past, UNCHANGED m_currentMode,
         MemoryType', DiskType', DaemonType', PromiseType', BoundsType'
  PROVE  TypeInv'
<1>1. ThreadsType' /\ GrantOK'
  BY GotoType
<1>2. EnteredOK'
  BY EnteredStep
<1>3. QED
  BY <1>1, <1>2 DEF TypeInv

LEMMA StartDurationType == ASSUME TypeInv, NEW t \in Threads, StartDuration(t) PROVE TypeInv'
<1>1. PICK l \in Places : l = "start_timer"
  BY DEF Places, SetModePC
<1>2. Goto(t, l) /\ UNCHANGED frame /\ pc[t] \in Past
  BY <1>1 DEF StartDuration, At, Past, SetModePC
<1>3. m_currentMode' \in Mode
  BY <1>2, PastFacts DEF StartDuration
<1>4. frame[t].duration \in Int
  BY DEF TypeInv, ThreadsType, Frame
<1>5. MemoryType'
  BY <1>4 DEF StartDuration, TypeInv, MemoryType
<1>6. DiskType' /\ DaemonType' /\ PromiseType' /\ BoundsType'
  BY Unchanged DEF StartDuration
<1>7. QED
  BY <1>2, <1>3, <1>5, <1>6, PastStep

LEMMA StopDurationType == ASSUME TypeInv, NEW t \in Threads, StopDuration(t) PROVE TypeInv'
<1>1. PICK l \in Places : l = "stop_clear"
  BY DEF Places, SetModePC
<1>2. Goto(t, l) /\ UNCHANGED frame /\ pc[t] \in Past
  BY <1>1 DEF StopDuration, At, Past, SetModePC
<1>3. m_currentMode' \in Mode
  BY <1>2, PastFacts DEF StopDuration
<1>4. 0 \in Int
  OBVIOUS
<1>5. MemoryType'
  BY <1>4 DEF StopDuration, TypeInv, MemoryType
<1>6. DiskType' /\ DaemonType' /\ PromiseType' /\ BoundsType'
  BY Unchanged DEF StopDuration
<1>7. QED
  BY <1>2, <1>3, <1>5, <1>6, PastStep

LEMMA TimerStopType == ASSUME TypeInv, NEW t \in Threads, TimerStop(t) PROVE TypeInv'
<1>1. PICK l \in Places : l = "stop_save"
  BY DEF Places, SetModePC
<1>2. Goto(t, l) /\ UNCHANGED frame /\ pc[t] \in Past
  BY <1>1 DEF TimerStop, At, Past, SetModePC
<1>3. m_currentMode' \in Mode
  BY <1>2, PastFacts DEF TimerStop
<1>4. MemoryType'
  BY DEF TimerStop, TypeInv, MemoryType
<1>5. DiskType' /\ DaemonType' /\ PromiseType' /\ BoundsType'
  BY Unchanged DEF TimerStop
<1>6. QED
  BY <1>2, <1>3, <1>4, <1>5, PastStep

LEMMA FailModeType == ASSUME TypeInv, NEW t \in Threads, FailMode(t) PROVE TypeInv'
<1>1. PICK l \in Places : l = "file_check"
  BY DEF Places, SetModePC
<1>2. Goto(t, l) /\ UNCHANGED frame /\ pc[t] \in Past
  BY <1>1 DEF FailMode, At, Past, SetModePC
<1>3. m_currentMode' \in Mode
  BY DEF FailMode, Mode
<1>4. MemoryType'
  BY <1>3 DEF FailMode, TypeInv, MemoryType
<1>5. DiskType' /\ DaemonType' /\ PromiseType' /\ BoundsType'
  BY Unchanged DEF FailMode
<1>6. QED
  BY <1>2, <1>3, <1>4, <1>5, PastStep

LEMMA FileCheckType == ASSUME TypeInv, NEW t \in Threads, FileCheck(t) PROVE TypeInv'
<1>1. PICK l \in Places : l = IF m_currentMode = "WAREHOUSE" THEN "file_create" ELSE "file_remove"
  BY DEF Places, SetModePC
<1>2. Goto(t, l) /\ UNCHANGED frame /\ pc[t] \in Past
  BY <1>1 DEF FileCheck, At, Past, SetModePC
<1>3. m_currentMode' \in Mode
  BY <1>2, PastFacts DEF FileCheck, memory
<1>4. MemoryType' /\ DiskType' /\ DaemonType' /\ PromiseType' /\ BoundsType'
  BY Unchanged DEF FileCheck
<1>5. QED
  BY <1>2, <1>3, <1>4, PastStep

LEMMA FileWriteType == ASSUME TypeInv, NEW t \in Threads, FileWrite(t) PROVE TypeInv'
<1>1. PICK l \in Places : l = "save_mode"
  BY DEF Places, SetModePC
<1>2. Goto(t, l) /\ UNCHANGED frame /\ pc[t] \in Past
  BY <1>1 DEF FileWrite, At, Past, SetModePC
<1>3. m_currentMode' \in Mode
  BY <1>2, PastFacts DEF FileWrite, memory
<1>4. DiskType'
  BY DEF FileWrite, TypeInv, DiskType
<1>5. MemoryType' /\ DaemonType' /\ PromiseType' /\ BoundsType'
  BY Unchanged DEF FileWrite
<1>6. QED
  BY <1>2, <1>3, <1>4, <1>5, PastStep

LEMMA SaveModeType == ASSUME TypeInv, NEW t \in Threads, SaveMode(t) PROVE TypeInv'
<1>1. PICK l \in Places : l = "save_duration"
  BY DEF Places, SetModePC
<1>2. Goto(t, l) /\ UNCHANGED frame /\ pc[t] \in Past
  BY <1>1 DEF SaveMode, At, Past, SetModePC
<1>3. m_currentMode' \in Mode
  BY <1>2, PastFacts DEF SaveMode, memory
<1>4. DiskType'
  BY DEF SaveMode, TypeInv, DiskType, MemoryType, warehouse
<1>5. MemoryType' /\ DaemonType' /\ PromiseType' /\ BoundsType'
  BY Unchanged DEF SaveMode
<1>6. QED
  BY <1>2, <1>3, <1>4, <1>5, PastStep

\* The save at the end of startModeTimer and of stopModeTimer.
LEMMA PastSaveType ==
  ASSUME TypeInv, NEW t \in Threads, NEW from \in Past, NEW l \in Places,
         SaveDuration(t, from, l)
  PROVE  TypeInv'
<1>1. Goto(t, l) /\ UNCHANGED frame /\ pc[t] \in Past
  BY DEF SaveDuration, At
<1>2. m_currentMode' \in Mode
  BY <1>1, PastFacts DEF SaveDuration, memory
<1>3. DiskType'
  BY SavedType DEF SaveDuration
<1>4. MemoryType' /\ DaemonType' /\ PromiseType' /\ BoundsType'
  BY Unchanged DEF SaveDuration
<1>5. QED
  BY <1>1, <1>2, <1>3, <1>4, PastStep

LEMMA StartSaveType == ASSUME TypeInv, NEW t \in Threads, StartSave(t) PROVE TypeInv'
<1>1. PICK l \in Places : l = "iarm"
  BY DEF Places, SetModePC
<1>2. PICK from \in Past : from = "start_save"
  BY DEF Past, SetModePC
<1>3. SaveDuration(t, from, l)
  BY <1>1, <1>2 DEF StartSave
<1>4. QED
  BY <1>3, PastSaveType

LEMMA StopSaveType == ASSUME TypeInv, NEW t \in Threads, StopSave(t) PROVE TypeInv'
<1>1. frame[t].ret \in Places
  BY DEF TypeInv, ThreadsType, Frame, Places, SetModePC
<1>2. PICK from \in Past : from = "stop_save"
  BY DEF Past, SetModePC
<1>3. SaveDuration(t, from, frame[t].ret)
  BY <1>2 DEF StopSave
<1>4. QED
  BY <1>1, <1>3, PastSaveType

\* A call starts, on a worker, a timer thread or Main.
LEMMA EnterType ==
  ASSUME TypeInv, NEW t \in Threads, NEW mode \in Mode \union {"invalid"}, NEW d \in Int,
         EnterSetMode(t, mode, d), UNCHANGED m_currentMode
  PROVE  ThreadsType' /\ GrantOK' /\ EnteredOK'
<1>1. pc' = [pc EXCEPT ![t] = "decide"] /\ pc \in [Threads -> Places]
  BY DEF EnterSetMode, Goto, TypeInv, ThreadsType
<1>2. "decide" \in Places /\ "decide" \notin Past
  BY DEF Places, Past, SetModePC
<1>3. pc' \in [Threads -> Places]
  BY <1>1, <1>2
<1> DEFINE new == [frame[t] EXCEPT !.mode = mode, !.duration = d, !.ret = "iarm", !.ok = FALSE]
<1>4. frame \in [Threads -> Frame] /\ frame' = [frame EXCEPT ![t] = new]
  BY DEF EnterSetMode, TypeInv, ThreadsType, Frame
<1>5. new \in Frame /\ ~new.ok
  BY <1>4 DEF Frame
<1> HIDE DEF new
<1>6. ThreadsType'
  BY <1>3, <1>4, <1>5 DEF ThreadsType
<1>7. GrantOK'
  BY <1>1, <1>2, <1>4, <1>5 DEF GrantOK, TypeInv
<1>8. EnteredOK'
  BY <1>1, <1>2 DEF EnteredOK, TypeInv
<1>9. QED
  BY <1>6, <1>7, <1>8

LEMMA CallerType == ASSUME NEW t PROVE Caller(t) \in Places /\ Caller(t) \notin SetModePC
  BY DEF Caller, Places, OtherPC, TimerPC, SetModePC

\* A call returns to where its thread came from.
LEMMA ReturnType ==
  ASSUME TypeInv, NEW t \in Threads, Return(t), UNCHANGED <<m_currentMode, terminated>>
  PROVE  ThreadsType' /\ GrantOK' /\ EnteredOK' /\ PromiseType'
<1>1. Caller(t) \in Places /\ Caller(t) \notin Past
  BY CallerType DEF Past
<1>2. pc' = [pc EXCEPT ![t] = Caller(t)] /\ pc \in [Threads -> Places]
  BY DEF Return, Goto, TypeInv, ThreadsType
<1>3. frame \in [Threads -> Frame] /\ frame' = [frame EXCEPT ![t] = EmptyFrame]
  BY DEF Return, TypeInv, ThreadsType
<1>4. ThreadsType'
  BY <1>1, <1>2, <1>3, EmptyFrameType DEF ThreadsType
<1>5. PromiseType'
  BY DEF Return, TypeInv, PromiseType, GrantOK
<1>6. GrantOK'
  BY <1>1, <1>2, <1>3, EmptyFrameType DEF GrantOK, TypeInv
<1>7. EnteredOK'
  BY <1>1, <1>2 DEF EnteredOK, TypeInv
<1>8. QED
  BY <1>4, <1>5, <1>6, <1>7

LEMMA SetModeReturnsType ==
  ASSUME TypeInv, NEW t \in Threads, SetModeReturns(t) PROVE TypeInv'
<1>1. ThreadsType' /\ GrantOK' /\ EnteredOK' /\ PromiseType'
  BY ReturnType DEF SetModeReturns, memory
<1>2. DiskType'
  BY SavedType DEF SetModeReturns
<1>3. MemoryType' /\ DaemonType' /\ BoundsType'
  BY Unchanged DEF SetModeReturns
<1>4. QED
  BY <1>1, <1>2, <1>3 DEF TypeInv

LEMMA DecideType == ASSUME TypeInv, NEW t \in Threads, Decide(t) PROVE TypeInv'
<1>1. DiskType' /\ DaemonType' /\ BoundsType' /\ UNCHANGED terminated
  BY Unchanged DEF Decide
<1>2. CASE Return(t) /\ UNCHANGED m_currentMode
  <2>1. ThreadsType' /\ GrantOK' /\ EnteredOK' /\ PromiseType'
    BY <1>1, <1>2, ReturnType
  <2>2. MemoryType'
    BY <1>2 DEF Decide, TypeInv, MemoryType
  <2>3. QED
    BY <1>1, <2>1, <2>2 DEF TypeInv
<1>3. ASSUME NEW l \in {"stop_rd", "start_rd"}, Goto(t, l),
             frame[t].mode \in Mode, m_currentMode' \in {frame[t].mode, "NORMAL"},
             UNCHANGED <<frame, promise>>
      PROVE  TypeInv'
  <2>1. l \in Places
    BY DEF Places, SetModePC
  <2>2. m_currentMode' \in Mode
    BY <1>3 DEF Mode
  <2>3. MemoryType'
    BY <2>2 DEF Decide, TypeInv, MemoryType
  <2>4. PromiseType'
    BY <1>1, <1>3, Unchanged
  <2>5. ThreadsType' /\ GrantOK'
    BY <1>3, <2>1, GotoType
  <2>6. EnteredOK'
    BY <2>2, EnteredMode
  <2>7. QED
    BY <1>1, <2>3, <2>4, <2>5, <2>6 DEF TypeInv
<1>4. QED
  BY <1>2, <1>3 DEF Decide

LEMMA DeathType == ASSUME TypeInv, ProcessDies, terminated' \in BOOLEAN PROVE TypeInv'
<1>1. ThreadsType' /\ GrantOK' /\ EnteredOK'
  BY FreshThreadsNext DEF ProcessDies
<1>2. "" \in Mode \union {""} /\ 0 \in Int
  OBVIOUS
<1>3. MemoryType'
  BY <1>2 DEF ProcessDies, MemoryType
<1>4. DiskType' /\ DaemonType' /\ BoundsType'
  BY Unchanged DEF ProcessDies
<1>5. PromiseType'
  BY DEF ProcessDies, TypeInv, PromiseType
<1>6. QED
  BY <1>1, <1>3, <1>4, <1>5 DEF TypeInv

LEMMA TerminateType == ASSUME TypeInv, Terminate PROVE TypeInv'
  BY DeathType DEF Terminate

\* One more, up to a bound.
LEMMA OneMore ==
  ASSUME NEW bound \in Nat, NEW n \in 0 .. bound, n < bound
  PROVE  n + 1 \in 0 .. bound
  OBVIOUS

LEMMA CrashType == ASSUME TypeInv, Crash PROVE TypeInv'
<1>1. ThreadsType' /\ GrantOK' /\ EnteredOK'
  BY FreshThreadsNext DEF Crash
<1>2. "" \in Mode \union {""} /\ 0 \in Int
  OBVIOUS
<1>3. MemoryType'
  BY <1>2 DEF Crash, MemoryType
<1>4. DiskType' /\ DaemonType' /\ PromiseType'
  BY Unchanged DEF Crash
<1>5. BoundsType'
  <2>1. MaxCrashes \in Nat /\ crashes \in 0 .. MaxCrashes
    BY OperatingModeAssumption DEF TypeInv, BoundsType
  <2>2. crashes < MaxCrashes /\ crashes' = crashes + 1
    BY DEF Crash
  <2>3. crashes' \in 0 .. MaxCrashes
    BY <2>1, <2>2, OneMore
  <2>4. QED
    BY <2>3 DEF Crash, TypeInv, BoundsType
<1>6. QED
  BY <1>1, <1>3, <1>4, <1>5 DEF TypeInv

LEMMA TimerStartType == ASSUME TypeInv, NEW t \in Threads, TimerStart(t) PROVE TypeInv'
<1>1. CASE Terminate
  BY <1>1, TerminateType
<1>2. ASSUME NEW tid \in Tids, Startable(tid), timerThread' = tid, clear' = FALSE,
             pc' = [pc EXCEPT ![t] = "start_save", ![tid] = "top"],
             UNCHANGED <<m_currentMode, m_remainingDuration, frame, disk, daemon,
                         promise, terminated, bounds>>
      PROVE  TypeInv'
  <2>1. /\ pc \in [Threads -> Places] /\ tid \in Threads
        /\ "start_save" \in Places /\ "top" \in Places /\ "top" \notin Past
    BY ThreadsOf DEF TypeInv, ThreadsType, Places, Past, SetModePC, TimerPC
  <2>2. ThreadsType'
    BY <1>2, <2>1 DEF TypeInv, ThreadsType
  <2>3. pc[t] \in Past
    BY DEF TimerStart, At, Past, SetModePC
  <2>4. frame[t].mode \in Mode /\ m_currentMode \in Mode
    BY <2>3, PastFacts
  <2>5. GrantOK'
    BY <1>2, <2>1, <2>4 DEF GrantOK, TypeInv
  <2>6. EnteredOK'
    BY <1>2, <2>4, EnteredMode
  <2>7. MemoryType'
    BY <1>2 DEF TypeInv, MemoryType
  <2>8. DiskType' /\ DaemonType' /\ PromiseType' /\ BoundsType'
    BY <1>2, Unchanged
  <2>9. QED
    BY <2>2, <2>5, <2>6, <2>7, <2>8 DEF TypeInv
<1>3. QED
  BY <1>1, <1>2 DEF TimerStart

LEMMA IarmCallType == ASSUME TypeInv, NEW t \in Threads, IarmCall(t) PROVE TypeInv'
<1> DEFINE granted == [frame[t] EXCEPT !.ok = TRUE]
           refused == [frame[t] EXCEPT !.ret = "fail_mode"]
<1>1. frame \in [Threads -> Frame] /\ pc \in [Threads -> Places]
  BY DEF TypeInv, ThreadsType
<1>2. pc[t] \in Past
  BY DEF IarmCall, At, Past, SetModePC
<1>3. frame[t].mode \in Mode /\ m_currentMode \in Mode
  BY <1>2, PastFacts
<1>4. /\ granted \in Frame /\ granted.mode = frame[t].mode
      /\ refused \in Frame /\ refused.mode = frame[t].mode
  BY <1>1 DEF Frame
<1>5. \/ frame' = [frame EXCEPT ![t] = granted] /\ pc' = [pc EXCEPT ![t] = "file_check"]
      \/ frame' = [frame EXCEPT ![t] = refused] /\ pc' = [pc EXCEPT ![t] = "stop_rd"]
  BY <1>1 DEF IarmCall, Goto, Frame
<1> HIDE DEF granted, refused
<1>6. "file_check" \in Places /\ "stop_rd" \in Places
  BY DEF Places, SetModePC
<1>7. ThreadsType'
  BY <1>1, <1>4, <1>5, <1>6 DEF ThreadsType
<1>8. GrantOK'
  BY <1>1, <1>3, <1>4, <1>5 DEF GrantOK, TypeInv
<1>9. m_currentMode' \in Mode
  BY <1>3 DEF IarmCall, memory
<1>10. EnteredOK'
  BY <1>9, EnteredMode
<1>11. DaemonType'
  BY <1>3 DEF IarmCall, TypeInv, DaemonType
<1>12. MemoryType' /\ DiskType' /\ PromiseType' /\ BoundsType'
  BY Unchanged DEF IarmCall
<1>13. QED
  BY <1>7, <1>8, <1>10, <1>11, <1>12 DEF TypeInv

LEMMA SetModeStepType == ASSUME TypeInv, NEW t \in Threads, SetModeStep(t) PROVE TypeInv'
  BY DecideType, StartDurationType, TimerStartType, StartSaveType, StopDurationType,
     TimerStopType, StopSaveType, IarmCallType, FailModeType, FileCheckType, FileWriteType,
     SaveModeType, SetModeReturnsType, Zenon DEF SetModeStep

LEMMA TimerLoopType == ASSUME TypeInv, NEW t \in Threads, TimerLoop(t) PROVE TypeInv'
<1>1. PICK l \in Places : l = IF clear THEN "ended" ELSE IF pc[t] = "top" THEN "sleep" ELSE "tick"
  BY DEF Places, TimerPC, OtherPC
<1>2. Goto(t, l) /\ UNCHANGED frame /\ l \notin Past
  BY <1>1 DEF TimerLoop, Past, SetModePC
<1>3. UNCHANGED m_currentMode
  BY DEF TimerLoop, memory
<1>4. MemoryType' /\ DiskType' /\ DaemonType' /\ PromiseType' /\ BoundsType'
  BY Unchanged DEF TimerLoop
<1>5. QED
  BY <1>2, <1>3, <1>4, OutsideStep

\* A thread outside of every call stays there and changes its frame.
LEMMA FrameStep ==
  ASSUME TypeInv, NEW t \in Threads, NEW l \in Places, NEW f \in Frame,
         Goto(t, l), frame' = [frame EXCEPT ![t] = f], f.ok => f.mode \in Mode,
         l \notin Past, UNCHANGED m_currentMode
  PROVE  ThreadsType' /\ GrantOK' /\ EnteredOK'
<1>1. pc' = [pc EXCEPT ![t] = l] /\ pc \in [Threads -> Places] /\ frame \in [Threads -> Frame]
  BY DEF Goto, TypeInv, ThreadsType
<1>2. ThreadsType'
  BY <1>1 DEF ThreadsType
<1>3. GrantOK'
  BY <1>1 DEF GrantOK, TypeInv
<1>4. EnteredOK'
  BY EnteredStep
<1>5. QED
  BY <1>2, <1>3, <1>4

LEMMA TickType == ASSUME TypeInv, NEW t \in Threads, Tick(t) PROVE TypeInv'
<1>1. DiskType' /\ DaemonType' /\ PromiseType' /\ BoundsType'
  BY Unchanged DEF Tick
<1>2. UNCHANGED m_currentMode
  BY DEF Tick
<1>3. MemoryType'
  BY DEF Tick, TypeInv, MemoryType
<1>4. CASE m_remainingDuration > 0
  <2> DEFINE f == [frame[t] EXCEPT !.load = m_remainingDuration]
  <2>1. frame \in [Threads -> Frame] /\ m_remainingDuration \in Int
    BY DEF TypeInv, ThreadsType, MemoryType
  <2>2. frame' = [frame EXCEPT ![t] = f]
    BY <1>4, <2>1 DEF Tick, Frame
  <2>3. f \in Frame /\ f.ok = frame[t].ok /\ f.mode = frame[t].mode
    BY <2>1 DEF Frame
  <2> HIDE DEF f
  <2>4. f.ok => f.mode \in Mode
    BY <2>3 DEF TypeInv, GrantOK
  <2>5. PICK l \in Places : l = "tick_dec"
    BY DEF Places, TimerPC
  <2>6. Goto(t, l) /\ l \notin Past
    BY <1>4, <2>5 DEF Tick, Past, SetModePC
  <2>7. ThreadsType' /\ GrantOK' /\ EnteredOK'
    BY <1>2, <2>2, <2>3, <2>4, <2>6, FrameStep
  <2>8. QED
    BY <1>1, <1>3, <2>7 DEF TypeInv
<1>5. CASE ~(m_remainingDuration > 0)
  <2>1. PICK l \in Places : l = "tick_detach"
    BY DEF Places, TimerPC
  <2>2. Goto(t, l) /\ UNCHANGED frame /\ l \notin Past
    BY <1>5, <2>1 DEF Tick, Past, SetModePC
  <2>3. QED
    BY <1>1, <1>2, <1>3, <2>2, OutsideStep
<1>6. QED
  BY <1>4, <1>5

LEMMA TickDecrementType == ASSUME TypeInv, NEW t \in Threads, TickDecrement(t) PROVE TypeInv'
<1>1. PICK l \in Places : l = "tick_save"
  BY DEF Places, TimerPC
<1>2. Goto(t, l) /\ l \notin Past
  BY <1>1 DEF TickDecrement, Past, SetModePC
<1>3. frame' = [frame EXCEPT ![t] = EmptyFrame] /\ UNCHANGED m_currentMode
  BY DEF TickDecrement
<1>4. ThreadsType' /\ GrantOK' /\ EnteredOK'
  BY <1>2, <1>3, EmptyFrameType, FrameStep
<1>5. frame[t].load \in Int /\ m_remainingDuration \in Int
  BY DEF TypeInv, ThreadsType, MemoryType, Frame
<1>6. m_remainingDuration' \in Int
  BY <1>5 DEF TickDecrement
<1>7. MemoryType'
  BY <1>6 DEF TickDecrement, TypeInv, MemoryType
<1>8. DiskType' /\ DaemonType' /\ PromiseType' /\ BoundsType'
  BY Unchanged DEF TickDecrement
<1>9. QED
  BY <1>4, <1>7, <1>8 DEF TypeInv

LEMMA TickDetachType == ASSUME TypeInv, NEW t \in Threads, TickDetach(t) PROVE TypeInv'
<1>1. CASE Terminate
  BY <1>1, TerminateType
<1>2. CASE ~Terminate
  <2>1. UNCHANGED m_currentMode /\ timerThread' = NoTimer
    BY <1>2 DEF TickDetach
  <2>2. MemoryType'
    BY <1>2, <2>1 DEF TickDetach, TypeInv, MemoryType
  <2>3. DiskType' /\ DaemonType' /\ PromiseType' /\ BoundsType'
    BY <1>2, Unchanged DEF TickDetach
  <2>4. CASE pc[Main] = "inactive"
    <3>1. PICK l \in Places : l = "tick_save"
      BY DEF Places, TimerPC
    <3>2. Goto(t, l) /\ UNCHANGED frame /\ l \notin Past
      BY <1>2, <2>4, <3>1 DEF TickDetach, Past, SetModePC
    <3>3. QED
      BY <2>1, <2>2, <2>3, <3>2, OutsideStep
  <2>5. CASE pc[Main] # "inactive"
    <3>1. PICK m \in Mode \union {"invalid"} : m = "NORMAL"
      BY DEF Mode
    <3>2. EnterSetMode(t, m, 0)
      BY <1>2, <2>5, <3>1 DEF TickDetach
    <3>3. 0 \in Int
      OBVIOUS
    <3>4. ThreadsType' /\ GrantOK' /\ EnteredOK'
      BY <2>1, <3>2, <3>3, EnterType
    <3>5. QED
      BY <2>2, <2>3, <3>4 DEF TypeInv
  <2>6. QED
    BY <2>4, <2>5
<1>3. QED
  BY <1>1, <1>2

LEMMA TickSaveType == ASSUME TypeInv, NEW t \in Threads, TickSave(t) PROVE TypeInv'
<1>1. PICK l \in Places : l = "top"
  BY DEF Places, TimerPC
<1>2. Goto(t, l) /\ UNCHANGED frame /\ l \notin Past
  BY <1>1 DEF TickSave, SaveDuration, Past, SetModePC
<1>3. UNCHANGED m_currentMode
  BY DEF TickSave, SaveDuration, memory
<1>4. DiskType'
  BY SavedType DEF TickSave, SaveDuration
<1>5. MemoryType' /\ DaemonType' /\ PromiseType' /\ BoundsType'
  BY Unchanged DEF TickSave, SaveDuration
<1>6. QED
  BY <1>2, <1>3, <1>4, <1>5, OutsideStep

LEMMA TimerStepType == ASSUME TypeInv, NEW t \in Threads, TimerStep(t) PROVE TypeInv'
  BY TimerLoopType, TickType, TickDecrementType, TickDetachType, TickSaveType, Zenon
     DEF TimerStep

LEMMA ConfigureType == ASSUME TypeInv, Configure PROVE TypeInv'
<1>1. UNCHANGED m_currentMode /\ Main \in Threads
  BY ThreadsOf DEF Configure, memory
<1>2. MemoryType' /\ DiskType' /\ DaemonType' /\ PromiseType' /\ BoundsType'
  BY Unchanged DEF Configure
<1>3. CASE m_currentMode # ""
  <2>1. PICK l \in Places : l = "active"
    BY DEF Places, OtherPC
  <2>2. Goto(Main, l) /\ UNCHANGED frame /\ l \notin Past
    BY <1>3, <2>1 DEF Configure, Past, SetModePC
  <2>3. QED
    BY <1>1, <1>2, <2>2, OutsideStep
<1>4. ASSUME NEW m \in Mode \union {"invalid"}, NEW d \in Int, EnterSetMode(Main, m, d)
      PROVE  TypeInv'
  <2>1. ThreadsType' /\ GrantOK' /\ EnteredOK'
    BY <1>1, <1>4, EnterType
  <2>2. QED
    BY <1>2, <2>1 DEF TypeInv
<1>5. CASE m_currentMode = "" /\ temp.mode = ""
  <2>1. PICK m \in Mode \union {"invalid"} : m = "NORMAL"
    BY DEF Mode
  <2>2. PICK d \in Int : d = -1
    OBVIOUS
  <2>3. EnterSetMode(Main, m, d)
    BY <1>5, <2>1, <2>2 DEF Configure
  <2>4. QED
    BY <1>4, <2>3
<1>6. CASE m_currentMode = "" /\ temp.mode # ""
  <2>1. temp.mode \in Mode \union {"invalid"} /\ temp.duration \in Int
    BY <1>6 DEF TypeInv, DiskType
  <2>2. EnterSetMode(Main, temp.mode, temp.duration)
    BY <1>6 DEF Configure
  <2>3. QED
    BY <1>4, <2>1, <2>2
<1>7. QED
  BY <1>3, <1>5, <1>6

LEMMA ActivateType == ASSUME TypeInv, Activate PROVE TypeInv'
<1>1. UNCHANGED m_currentMode /\ Main \in Threads
  BY ThreadsOf DEF Activate, memory
<1>2. PICK l \in Places : l = "configure"
  BY DEF Places, OtherPC
<1>3. Goto(Main, l) /\ UNCHANGED frame /\ l \notin Past
  BY <1>2 DEF Activate, Past, SetModePC
<1>4. MemoryType' /\ DiskType' /\ DaemonType' /\ PromiseType' /\ BoundsType'
  BY Unchanged DEF Activate
<1>5. QED
  BY <1>1, <1>3, <1>4, OutsideStep

LEMMA DeactivateType == ASSUME TypeInv, Deactivate PROVE TypeInv'
<1>1. UNCHANGED m_currentMode /\ Main \in Threads
  BY ThreadsOf DEF Deactivate
<1>2. PICK l \in Places : l = "inactive"
  BY DEF Places, OtherPC
<1>3. Goto(Main, l) /\ UNCHANGED frame /\ l \notin Past
  BY <1>2 DEF Deactivate, Past, SetModePC
<1>4. MemoryType'
  BY DEF Deactivate, TypeInv, MemoryType
<1>5. BoundsType'
  <2>1. MaxCycles \in Nat /\ cycles \in 0 .. MaxCycles
    BY OperatingModeAssumption DEF TypeInv, BoundsType
  <2>2. cycles < MaxCycles /\ cycles' = cycles + 1
    BY DEF Deactivate
  <2>3. cycles' \in 0 .. MaxCycles
    BY <2>1, <2>2, OneMore
  <2>4. QED
    BY <2>3 DEF Deactivate, TypeInv, BoundsType
<1>6. DiskType' /\ DaemonType' /\ PromiseType'
  BY Unchanged DEF Deactivate
<1>7. QED
  BY <1>1, <1>3, <1>4, <1>5, <1>6, OutsideStep

LEMMA CallSetModeType ==
  ASSUME TypeInv, NEW w \in Workers, NEW m \in Mode \union {"invalid"}, NEW d \in Durations,
         CallSetMode(w, m, d)
  PROVE  TypeInv'
<1>1. w \in Threads /\ d \in Int
  BY ThreadsOf, OperatingModeAssumption
<1>2. UNCHANGED m_currentMode
  BY DEF CallSetMode, memory
<1>3. ThreadsType' /\ GrantOK' /\ EnteredOK'
  BY <1>1, <1>2, EnterType DEF CallSetMode
<1>4. MemoryType' /\ DiskType' /\ DaemonType'
  BY Unchanged DEF CallSetMode
<1>5. PromiseType'
  BY DEF CallSetMode, TypeInv, PromiseType
<1>6. BoundsType'
  <2>1. MaxCalls \in Nat /\ calls \in 0 .. MaxCalls
    BY OperatingModeAssumption DEF TypeInv, BoundsType
  <2>2. calls < MaxCalls /\ calls' = calls + 1
    BY DEF CallSetMode
  <2>3. calls' \in 0 .. MaxCalls
    BY <2>1, <2>2, OneMore
  <2>4. QED
    BY <2>3 DEF CallSetMode, TypeInv, BoundsType
<1>7. QED
  BY <1>3, <1>4, <1>5, <1>6 DEF TypeInv

LEMMA NextTypeInv == TypeInv /\ [Next]_vars => TypeInv'
<1> SUFFICES ASSUME TypeInv, [Next]_vars PROVE TypeInv'
  OBVIOUS
<1>1. CASE \E t \in Threads : SetModeStep(t)
  BY <1>1, SetModeStepType
<1>2. CASE \E t \in Tids : TimerStep(t)
  BY <1>2, TimerStepType, ThreadsOf
<1>3. CASE Configure \/ Activate \/ Deactivate \/ Crash
  BY <1>3, ConfigureType, ActivateType, DeactivateType, CrashType
<1>4. CASE \E w \in Workers, m \in Mode \union {"invalid"}, d \in Durations : CallSetMode(w, m, d)
  BY <1>4, CallSetModeType
<1>5. CASE UNCHANGED vars
  <2>1. MemoryType' /\ DiskType' /\ DaemonType' /\ PromiseType' /\ BoundsType'
    BY <1>5, Unchanged DEF vars
  <2>2. UNCHANGED <<m_currentMode, pc, frame>>
    BY <1>5 DEF vars, memory
  <2>3. ThreadsType' /\ GrantOK' /\ EnteredOK'
    BY <2>2 DEF TypeInv, ThreadsType, GrantOK, EnteredOK
  <2>4. QED
    BY <2>1, <2>3 DEF TypeInv
<1>6. QED
  BY <1>1, <1>2, <1>3, <1>4, <1>5 DEF Next

\* For any number of threads, calls, crashes and reactivations, the mode, the
\* files, the daemon and the place of every thread stay in their types, on the
\* races of the plain fields too: no call past its decision lacks a real mode,
\* so an invalid mode reaches neither the files nor the daemon.
THEOREM TypeCorrect == Spec => []TypeOK
<1>1. Spec => []TypeInv
  BY InitTypeInv, NextTypeInv, PTL DEF Spec
<1>2. QED
  BY <1>1, TypeInvTypeOK, PTL

-----------------------------------------------------------------------------
(* Where calls and ticks do not overlap.                                   *)

\* Where a thread is in the middle of a SetMode or a tick.
Inside == SetModePC \union Ticking

OneInside == \A s, t \in Threads : pc[s] \in Inside /\ pc[t] \in Inside => s = t

\* A process without a mode runs nothing but Configure, up to its decision.
FreshOK ==
  m_currentMode = "" =>
    /\ \A t \in Threads \ {Main} : pc[t] \in {"idle", "none"}
    /\ pc[Main] \in {"configure", "decide", "down"}

FileFollows == lastFile = "ok" => warehouseFile = (m_currentMode = "WAREHOUSE")

FilesAgree == temp.mode = m_currentMode /\ FileFollows

\* A call that changed the mode and is still to write it to the files.
Lagging(t) == pc[t] \in Past \ {"save_duration"}

Stopping == {"stop_rd", "stop_clear", "stop_save"}

\* A call that changed the mode and is still to tell the daemon.
BeforeIarm(t) ==
  \/ pc[t] \in {"start_rd", "start_timer", "start_save", "iarm"}
  \/ pc[t] \in Stopping /\ frame[t].ret = "iarm"

\* A call whose IARM call failed.
AfterFailure(t) ==
  \/ pc[t] = "fail_mode"
  \/ pc[t] \in Stopping /\ frame[t].ret = "fail_mode"

\* What a call relies on at each place: Configure restores a real mode, the
\* warehouse file is made or removed for the mode the process still has.
Own(t) ==
  /\ pc[t] = "decide" => frame[t].ret = "iarm" /\ (t = Main => frame[t].mode \in Mode)
  /\ pc[t] = "file_create" => m_currentMode = "WAREHOUSE"
  /\ pc[t] = "file_remove" => m_currentMode # "WAREHOUSE"
  /\ pc[t] = "save_mode" => FileFollows
  /\ AfterFailure(t) => lastIarm = "failed"

\* Files and daemon show the mode, or a call is on its way to them.
Followed ==
  m_currentMode # "" =>
    /\ (\E t \in Threads : Lagging(t)) \/ FilesAgree
    /\ lastIarm = "ok" => (\E t \in Threads : BeforeIarm(t)) \/ daemonMode = m_currentMode

SerialInv == OneInside /\ FreshOK /\ (\A t \in Threads : Own(t)) /\ Followed

\* The same for the one thread that is inside.
FollowedBy(t) ==
  m_currentMode # "" =>
    /\ Lagging(t) \/ FilesAgree
    /\ lastIarm = "ok" => BeforeIarm(t) \/ daemonMode = m_currentMode

LEMMA PlacesInside ==
  /\ \A t \in Threads : Lagging(t) \/ BeforeIarm(t) \/ AfterFailure(t) => pc[t] \in Inside
  /\ {"decide", "file_create", "file_remove", "save_mode"} \subseteq Inside
  /\ SetModePC \subseteq Inside /\ Ticking \subseteq Inside
  /\ \A l \in OtherPC \union {"top", "sleep"} : l \notin Inside
  BY DEF Lagging, BeforeIarm, AfterFailure, Stopping, Inside, SetModePC, Ticking, Past, OtherPC

LEMMA OutsideOwns == ASSUME NEW t \in Threads, pc[t] \notin Inside PROVE Own(t)
  BY PlacesInside DEF Own

LEMMA OutsideOwnsNext == ASSUME NEW t \in Threads, pc'[t] \notin Inside PROVE Own(t)'
  BY DEF Own, Inside, SetModePC, AfterFailure, Stopping

LEMMA NobodyInside ==
  ASSUME FreshOK, Followed, \A t \in Threads : pc[t] \notin Inside
  PROVE  m_currentMode # "" =>
           FilesAgree /\ (lastIarm = "ok" => daemonMode = m_currentMode)
  BY PlacesInside DEF Followed

\* The settled states are those the invariant was made for.
LEMMA SettledFollows ==
  ASSUME TypeInv, SerialInv
  PROVE  SettledAgree /\ DaemonFollows
<1> SUFFICES ASSUME Settled
             PROVE  FilesAgree /\ (lastIarm = "ok" => daemonMode = m_currentMode)
  BY DEF SettledAgree, DaemonFollows, FilesAgree, FileFollows
<1>1. \A t \in Threads : pc[t] \notin Inside
  BY DEF Settled, At, Timing, Threads, Inside, SetModePC, Ticking
<1>2. m_currentMode # ""
  BY DEF SerialInv, FreshOK, Settled, At
<1>3. QED
  BY <1>1, <1>2, NobodyInside DEF SerialInv

\* A thread that is inside is alone there.
LEMMA AloneFacts ==
  ASSUME TypeInv, SerialInv, NEW t \in Threads, pc[t] \in Inside
  PROVE  /\ \A s \in Threads \ {t} : pc[s] \notin Inside
         /\ m_currentMode # "" \/ (t = Main /\ pc[t] = "decide")
         /\ Own(t) /\ FollowedBy(t)
<1>1. \A s \in Threads \ {t} : pc[s] \notin Inside
  BY DEF SerialInv, OneInside
<1>2. m_currentMode # "" \/ (t = Main /\ pc[t] = "decide")
  BY DEF SerialInv, FreshOK, Inside, SetModePC, Ticking
<1>3. \A s \in Threads : Lagging(s) \/ BeforeIarm(s) => s = t
  BY <1>1, PlacesInside
<1>4. FollowedBy(t)
  BY <1>3 DEF SerialInv, Followed, FollowedBy
<1>5. QED
  BY <1>1, <1>2, <1>4 DEF SerialInv

\* Where one thread at most is inside, only its own part is to be shown.
LEMMA AloneNext ==
  ASSUME NEW t \in Threads, \A s \in Threads \ {t} : pc'[s] \notin Inside,
         FreshOK', Own(t)', FollowedBy(t)'
  PROVE  SerialInv'
<1>1. OneInside'
  BY DEF OneInside
<1>2. \A s \in Threads : Own(s)'
  BY OutsideOwnsNext
<1>3. Followed'
  BY DEF Followed, FollowedBy
<1>4. QED
  BY <1>1, <1>2, <1>3 DEF SerialInv

\* A process has just started, or died.
LEMMA FreshSerial ==
  ASSUME m_currentMode = "", pc = DeadPC("configure") PROVE SerialInv
<1>1. \A t \in Threads : pc[t] \notin Inside
  BY DEF DeadPC, Inside, SetModePC, Ticking
<1>2. FreshOK
  BY DEF FreshOK, DeadPC, Threads
<1>3. QED
  BY <1>1, <1>2, OutsideOwns DEF SerialInv, OneInside, Followed

LEMMA FreshSerialNext ==
  ASSUME m_currentMode' = "", pc' = DeadPC("down") PROVE SerialInv'
<1>1. \A t \in Threads : pc'[t] \notin Inside
  BY DEF DeadPC, Inside, SetModePC, Ticking
<1>2. FreshOK'
  BY DEF FreshOK, DeadPC, Threads
<1>3. QED
  BY <1>1, <1>2, OutsideOwnsNext DEF SerialInv, OneInside, Followed

\* A thread outside moves outside; another one may be inside.
LEMMA OutsideSerial ==
  ASSUME TypeInv, SerialInv, NEW t \in Threads, NEW l \in Places, Goto(t, l),
         pc[t] \notin Inside, l \notin Inside, FreshOK',
         UNCHANGED <<m_currentMode, frame, disk, daemon>>
  PROVE  SerialInv'
<1>1. pc' = [pc EXCEPT ![t] = l] /\ pc \in [Threads -> Places]
  BY DEF Goto, TypeInv, ThreadsType
<1>2. pc'[t] = l /\ \A s \in Threads \ {t} : pc'[s] = pc[s]
  BY <1>1
<1>3. OneInside'
  BY <1>2 DEF SerialInv, OneInside
<1>4. \A s \in Threads : Own(s)'
  <2>1. TAKE s \in Threads
  <2>2. CASE s = t
    BY <1>2, <2>2, OutsideOwnsNext
  <2>3. CASE s # t
    BY <1>2, <2>3 DEF SerialInv, Own, AfterFailure, disk, daemon, FileFollows, warehouse
  <2>4. QED
    BY <2>2, <2>3
<1>5. Followed'
  <2>1. FilesAgree' = FilesAgree
    BY DEF FilesAgree, disk, FileFollows, warehouse
  <2>2. \A s \in Threads : Lagging(s) \/ BeforeIarm(s) => s # t
    BY PlacesInside
  <2>3. \A s \in Threads : s # t => (Lagging(s) => Lagging(s)') /\ (BeforeIarm(s) => BeforeIarm(s)')
    BY <1>2 DEF Lagging, BeforeIarm
  <2>4. QED
    BY <2>1, <2>2, <2>3 DEF SerialInv, Followed, daemon
<1>6. QED
  BY <1>3, <1>4, <1>5 DEF SerialInv

\* The thread that is inside stays there, or leaves, and keeps all else.
LEMMA InsideSerial ==
  ASSUME TypeInv, SerialInv, NEW t \in Threads, NEW l \in Places, Goto(t, l),
         pc[t] \in Inside, m_currentMode' # "", Own(t)', FollowedBy(t)'
  PROVE  SerialInv'
<1>1. pc' = [pc EXCEPT ![t] = l] /\ pc \in [Threads -> Places]
  BY DEF Goto, TypeInv, ThreadsType
<1>2. \A s \in Threads \ {t} : pc'[s] \notin Inside
  BY <1>1, AloneFacts
<1>3. FreshOK'
  BY DEF FreshOK
<1>4. QED
  BY <1>2, <1>3, AloneNext

LEMMA ModeNotEmpty == \A m \in Mode : m # ""
  BY DEF Mode

LEMMA GotoThere ==
  ASSUME TypeInv, NEW t \in Threads, NEW l, Goto(t, l)
  PROVE  pc'[t] = l
  BY DEF Goto, TypeInv, ThreadsType

LEMMA PastInside ==
  ASSUME TypeInv, NEW t \in Threads, pc[t] \in Past
  PROVE  pc[t] \in Inside /\ m_currentMode # ""
<1>1. pc[t] \in Inside
  BY DEF Past, Inside
<1>2. m_currentMode # ""
  BY PastFacts, ModeNotEmpty
<1>3. QED
  BY <1>1, <1>2

\* startModeTimer.
LEMMA StartSerial ==
  ASSUME TypeInv, SerialInv, NEW t \in Threads, pc[t] \in Past, NEW l \in Places, Goto(t, l),
         l \in {"start_timer", "start_save", "iarm"}, UNCHANGED m_currentMode
  PROVE  SerialInv'
<1>1. pc'[t] = l
  BY GotoThere
<1>2. Own(t)'
  BY <1>1 DEF Own, AfterFailure, Stopping
<1>3. Lagging(t)' /\ BeforeIarm(t)'
  BY <1>1 DEF Lagging, Past, SetModePC, BeforeIarm
<1>4. FollowedBy(t)'
  BY <1>3 DEF FollowedBy
<1>5. QED
  BY <1>2, <1>4, PastInside, InsideSerial

\* stopModeTimer, on the way to IARM and after its failure.
LEMMA StopSerial ==
  ASSUME TypeInv, SerialInv, NEW t \in Threads, pc[t] \in Stopping, NEW l \in Places, Goto(t, l),
         l \in {"stop_clear", "stop_save"} \/ l = frame[t].ret,
         UNCHANGED <<m_currentMode, frame, daemon>>
  PROVE  SerialInv'
<1>1. pc'[t] = l
  BY GotoThere
<1>2. pc[t] \in Past
  BY DEF Stopping, Past, SetModePC
<1>3. frame[t].ret \in {"iarm", "fail_mode"}
  BY DEF TypeInv, ThreadsType, Frame
<1>4. CASE frame[t].ret = "iarm"
  <2>1. Own(t)'
    BY <1>1, <1>4 DEF Own, AfterFailure, Stopping
  <2>2. Lagging(t)' /\ BeforeIarm(t)'
    BY <1>1, <1>4 DEF Lagging, Past, SetModePC, BeforeIarm, Stopping
  <2>3. FollowedBy(t)'
    BY <2>2 DEF FollowedBy
  <2>4. QED
    BY <1>2, <2>1, <2>3, PastInside, InsideSerial
<1>5. CASE frame[t].ret = "fail_mode"
  <2>1. lastIarm' = "failed"
    BY <1>5 DEF SerialInv, Own, AfterFailure, daemon
  <2>2. Own(t)'
    BY <1>1, <1>5, <2>1 DEF Own, Stopping
  <2>3. Lagging(t)'
    BY <1>1, <1>5 DEF Lagging, Past, SetModePC
  <2>4. FollowedBy(t)'
    BY <2>1, <2>3 DEF FollowedBy
  <2>5. QED
    BY <1>2, <2>2, <2>4, PastInside, InsideSerial
<1>6. QED
  BY <1>3, <1>4, <1>5

\* From the answer of IARM on, the daemon has the mode if it accepted it.
LEMMA TailSerial ==
  ASSUME TypeInv, SerialInv, NEW t \in Threads, NEW l \in Places, Goto(t, l),
         pc[t] \in {"file_check", "file_create", "file_remove", "save_mode", "save_duration"},
         Own(t)', Lagging(t)' \/ FilesAgree', UNCHANGED <<m_currentMode, daemon>>
  PROVE  SerialInv'
<1>1. pc[t] \in Past
  BY DEF Past, SetModePC
<1>2. ~BeforeIarm(t)
  BY DEF BeforeIarm, Stopping
<1>3. FollowedBy(t)
  BY <1>1, PastInside, AloneFacts
<1>4. FollowedBy(t)'
  BY <1>2, <1>3 DEF FollowedBy, daemon
<1>5. QED
  BY <1>1, <1>4, PastInside, InsideSerial

\* The timer thread, in a tick: files and daemon have the mode, and keep it.
LEMMA TickingSerial ==
  ASSUME TypeInv, SerialInv, NEW t \in Threads, NEW l \in Places, Goto(t, l),
         pc[t] \in Ticking, l \in TimerPC, temp'.mode = temp.mode,
         UNCHANGED <<m_currentMode, warehouse, daemon>>
  PROVE  SerialInv'
<1>1. pc'[t] = l
  BY GotoThere
<1>2. pc[t] \in Inside /\ pc[t] # "decide"
  BY DEF Inside, Ticking
<1>3. m_currentMode # "" /\ FollowedBy(t)
  BY <1>2, AloneFacts
<1>4. ~BeforeIarm(t) /\ ~Lagging(t)
  BY DEF BeforeIarm, Stopping, Lagging, Past, SetModePC, Ticking
<1>5. FollowedBy(t)'
  BY <1>3, <1>4 DEF FollowedBy, FilesAgree, daemon, FileFollows, warehouse
<1>6. Own(t)'
  BY <1>1 DEF Own, AfterFailure, Stopping, TimerPC
<1>7. QED
  BY <1>2, <1>3, <1>5, <1>6, InsideSerial

\* A call starts where no other thread is inside.
LEMMA EnterSerial ==
  ASSUME TypeInv, SerialInv, NEW t \in Threads, NEW mode, NEW d, EnterSetMode(t, mode, d),
         \A s \in Threads \ {t} : pc[s] \notin Inside, pc[t] \notin SetModePC,
         t = Main => mode \in Mode, FreshOK',
         UNCHANGED <<m_currentMode, disk, daemon>>
  PROVE  SerialInv'
<1>1. pc' = [pc EXCEPT ![t] = "decide"] /\ pc \in [Threads -> Places]
  BY DEF EnterSetMode, Goto, TypeInv, ThreadsType
<1>2. \A s \in Threads \ {t} : pc'[s] \notin Inside
  BY <1>1
<1>3. frame'[t].ret = "iarm" /\ frame'[t].mode = mode
  BY DEF EnterSetMode, TypeInv, ThreadsType, Frame
<1>4. Own(t)'
  BY <1>1, <1>3 DEF Own, AfterFailure, Stopping
<1>5. \A s \in Threads : ~Lagging(s) /\ ~BeforeIarm(s)
  <2>1. ~Lagging(t) /\ ~BeforeIarm(t)
    BY DEF Lagging, BeforeIarm, Past, Stopping, SetModePC
  <2>2. QED
    BY <2>1, PlacesInside
<1>6. FollowedBy(t)'
  BY <1>5 DEF SerialInv, Followed, FollowedBy, FilesAgree, disk, daemon, FileFollows, warehouse
<1>7. QED
  BY <1>2, <1>4, <1>6, AloneNext

LEMMA StartDurationSerial ==
  ASSUME TypeInv, SerialInv, NEW t \in Threads, StartDuration(t) PROVE SerialInv'
<1>1. PICK l \in Places : l = "start_timer"
  BY DEF Places, SetModePC
<1>2. Goto(t, l) /\ pc[t] \in Past
  BY <1>1 DEF StartDuration, At, Past, SetModePC
<1>3. UNCHANGED m_currentMode
  BY DEF StartDuration
<1>4. QED
  BY <1>1, <1>2, <1>3, StartSerial

LEMMA StartSaveSerial ==
  ASSUME TypeInv, SerialInv, NEW t \in Threads, StartSave(t) PROVE SerialInv'
<1>1. PICK l \in Places : l = "iarm"
  BY DEF Places, SetModePC
<1>2. Goto(t, l) /\ pc[t] \in Past
  BY <1>1 DEF StartSave, SaveDuration, At, Past, SetModePC
<1>3. UNCHANGED m_currentMode
  BY DEF StartSave, SaveDuration, memory
<1>4. QED
  BY <1>1, <1>2, <1>3, StartSerial

LEMMA StopDurationSerial ==
  ASSUME TypeInv, SerialInv, NEW t \in Threads, StopDuration(t) PROVE SerialInv'
<1>1. PICK l \in Places : l = "stop_clear"
  BY DEF Places, SetModePC
<1>2. Goto(t, l) /\ pc[t] \in Stopping
  BY <1>1 DEF StopDuration, At, Stopping
<1>3. UNCHANGED <<m_currentMode, frame, daemon>>
  BY DEF StopDuration
<1>4. QED
  BY <1>1, <1>2, <1>3, StopSerial

LEMMA TimerStopSerial ==
  ASSUME TypeInv, SerialInv, NEW t \in Threads, TimerStop(t) PROVE SerialInv'
<1>1. PICK l \in Places : l = "stop_save"
  BY DEF Places, SetModePC
<1>2. Goto(t, l) /\ pc[t] \in Stopping
  BY <1>1 DEF TimerStop, At, Stopping
<1>3. UNCHANGED <<m_currentMode, frame, daemon>>
  BY DEF TimerStop
<1>4. QED
  BY <1>1, <1>2, <1>3, StopSerial

LEMMA StopSaveSerial ==
  ASSUME TypeInv, SerialInv, NEW t \in Threads, StopSave(t) PROVE SerialInv'
<1>1. PICK l \in Places : l = frame[t].ret
  BY DEF TypeInv, ThreadsType, Frame, Places, SetModePC
<1>2. Goto(t, l) /\ pc[t] \in Stopping
  BY <1>1 DEF StopSave, SaveDuration, At, Stopping
<1>3. UNCHANGED <<m_currentMode, frame, daemon>>
  BY DEF StopSave, SaveDuration, memory
<1>4. QED
  BY <1>1, <1>2, <1>3, StopSerial

LEMMA TimerStartSerial ==
  ASSUME TypeInv, SerialInv, NEW t \in Threads, TimerStart(t) PROVE SerialInv'
<1>1. CASE Terminate
  BY <1>1, FreshSerialNext DEF Terminate, ProcessDies
<1>2. ASSUME NEW tid \in Tids, Startable(tid), UNCHANGED m_currentMode,
             pc' = [pc EXCEPT ![t] = "start_save", ![tid] = "top"]
      PROVE  SerialInv'
  <2>1. pc[t] = "start_timer" /\ pc[t] \in Past
    BY DEF TimerStart, At, Past, SetModePC
  <2>2. tid \in Threads /\ tid # t /\ pc \in [Threads -> Places]
    BY <1>2, <2>1, ThreadsOf DEF Startable, TypeInv, ThreadsType
  <2>3. pc'[t] = "start_save" /\ pc'[tid] = "top"
    BY <1>2, <2>2
  <2>4. \A s \in Threads \ {t} : pc'[s] \notin Inside
    <3>1. "top" \notin Inside
      BY DEF Inside, SetModePC, Ticking
    <3>2. \A s \in Threads \ {t} : pc[s] \notin Inside
      BY <2>1, PastInside, AloneFacts
    <3>3. QED
      BY <1>2, <2>2, <3>1, <3>2
  <2>5. FreshOK'
    BY <1>2, <2>1, PastInside DEF FreshOK
  <2>6. Own(t)'
    BY <2>3 DEF Own, AfterFailure, Stopping
  <2>7. Lagging(t)' /\ BeforeIarm(t)'
    BY <2>3 DEF Lagging, Past, SetModePC, BeforeIarm
  <2>8. FollowedBy(t)'
    BY <2>7 DEF FollowedBy
  <2>9. QED
    BY <2>4, <2>5, <2>6, <2>8, AloneNext
<1>3. QED
  BY <1>1, <1>2 DEF TimerStart

LEMMA IarmCallSerial ==
  ASSUME TypeInv, SerialInv, NEW t \in Threads, IarmCall(t) PROVE SerialInv'
<1>1. pc[t] \in Past
  BY DEF IarmCall, At, Past, SetModePC
<1>2. UNCHANGED m_currentMode
  BY DEF IarmCall, memory
<1>3. CASE daemonMode' = m_currentMode /\ Goto(t, "file_check")
  <2>1. PICK l \in Places : l = "file_check"
    BY DEF Places, SetModePC
  <2>2. Goto(t, l) /\ pc'[t] = "file_check"
    BY <1>3, <2>1, GotoThere
  <2>3. Own(t)'
    BY <2>2 DEF Own, AfterFailure, Stopping
  <2>4. Lagging(t)'
    BY <2>2 DEF Lagging, Past, SetModePC
  <2>5. FollowedBy(t)'
    BY <1>2, <1>3, <2>4 DEF FollowedBy
  <2>6. QED
    BY <1>1, <1>2, <2>2, <2>3, <2>5, PastInside, InsideSerial
<1>4. CASE lastIarm' = "failed" /\ Goto(t, "stop_rd")
  <2>1. PICK l \in Places : l = "stop_rd"
    BY DEF Places, SetModePC
  <2>2. Goto(t, l) /\ pc'[t] = "stop_rd"
    BY <1>4, <2>1, GotoThere
  <2>3. Own(t)'
    BY <1>4, <2>2 DEF Own
  <2>4. Lagging(t)'
    BY <2>2 DEF Lagging, Past, SetModePC
  <2>5. FollowedBy(t)'
    BY <1>4, <2>4 DEF FollowedBy
  <2>6. QED
    BY <1>1, <1>2, <2>2, <2>3, <2>5, PastInside, InsideSerial
<1>5. QED
  BY <1>3, <1>4 DEF IarmCall

LEMMA FailModeSerial ==
  ASSUME TypeInv, SerialInv, NEW t \in Threads, FailMode(t) PROVE SerialInv'
<1>1. PICK l \in Places : l = "file_check"
  BY DEF Places, SetModePC
<1>2. Goto(t, l) /\ pc[t] \in Past /\ pc[t] \in Inside
  BY <1>1 DEF FailMode, At, Past, Inside, SetModePC
<1>3. pc'[t] = "file_check"
  BY <1>1, <1>2, GotoThere
<1>4. lastIarm' = "failed"
  BY DEF FailMode, At, SerialInv, Own, AfterFailure, daemon
<1>5. Own(t)'
  BY <1>3 DEF Own, AfterFailure, Stopping
<1>6. Lagging(t)'
  BY <1>3 DEF Lagging, Past, SetModePC
<1>7. FollowedBy(t)'
  BY <1>4, <1>6 DEF FollowedBy
<1>8. m_currentMode' # ""
  BY DEF FailMode
<1>9. QED
  BY <1>2, <1>5, <1>7, <1>8, InsideSerial

LEMMA FileCheckSerial ==
  ASSUME TypeInv, SerialInv, NEW t \in Threads, FileCheck(t) PROVE SerialInv'
<1>1. PICK l \in Places : l = IF m_currentMode = "WAREHOUSE" THEN "file_create" ELSE "file_remove"
  BY DEF Places, SetModePC
<1>2. Goto(t, l) /\ pc'[t] = l
  BY <1>1, GotoThere DEF FileCheck
<1>3. UNCHANGED <<m_currentMode, daemon>> /\ pc[t] = "file_check"
  BY DEF FileCheck, At, memory
<1>4. Own(t)'
  BY <1>1, <1>2, <1>3 DEF Own, AfterFailure, Stopping
<1>5. Lagging(t)'
  BY <1>1, <1>2 DEF Lagging, Past, SetModePC
<1>6. QED
  BY <1>2, <1>3, <1>4, <1>5, TailSerial

LEMMA FileWriteSerial ==
  ASSUME TypeInv, SerialInv, NEW t \in Threads, FileWrite(t) PROVE SerialInv'
<1>1. PICK l \in Places : l = "save_mode"
  BY DEF Places, SetModePC
<1>2. Goto(t, l) /\ pc'[t] = "save_mode"
  BY <1>1, GotoThere DEF FileWrite
<1>3. UNCHANGED <<m_currentMode, daemon>> /\ pc[t] \in {"file_create", "file_remove"}
  BY DEF FileWrite, memory
<1>4. FileFollows'
  BY <1>3 DEF FileWrite, SerialInv, Own, FileFollows
<1>5. Own(t)'
  BY <1>2, <1>4 DEF Own, AfterFailure, Stopping
<1>6. Lagging(t)'
  BY <1>2 DEF Lagging, Past, SetModePC
<1>7. QED
  BY <1>2, <1>3, <1>5, <1>6, TailSerial

LEMMA SaveModeSerial ==
  ASSUME TypeInv, SerialInv, NEW t \in Threads, SaveMode(t) PROVE SerialInv'
<1>1. PICK l \in Places : l = "save_duration"
  BY DEF Places, SetModePC
<1>2. Goto(t, l) /\ pc'[t] = "save_duration"
  BY <1>1, GotoThere DEF SaveMode
<1>3. UNCHANGED <<m_currentMode, warehouse, daemon>> /\ pc[t] = "save_mode"
  BY DEF SaveMode, At, memory
<1>4. temp'.mode = m_currentMode
  BY DEF SaveMode, TypeInv, DiskType
<1>5. FilesAgree'
  BY <1>3, <1>4 DEF FilesAgree, SerialInv, Own, FileFollows, warehouse
<1>6. Own(t)'
  BY <1>2 DEF Own, AfterFailure, Stopping
<1>7. QED
  BY <1>2, <1>3, <1>5, <1>6, TailSerial

LEMMA CallerOutside ==
  ASSUME NEW t
  PROVE  Caller(t) \in Places /\ Caller(t) \in {"idle", "tick_save", "active"}
  BY DEF Caller, Places, OtherPC, TimerPC

LEMMA SetModeReturnsSerial ==
  ASSUME TypeInv, SerialInv, NEW t \in Threads, SetModeReturns(t) PROVE SerialInv'
<1>1. Goto(t, Caller(t)) /\ pc'[t] \in {"idle", "tick_save", "active"}
  BY CallerOutside, GotoThere DEF SetModeReturns, Return
<1>2. UNCHANGED <<m_currentMode, warehouse, daemon>> /\ pc[t] = "save_duration"
  BY DEF SetModeReturns, At, memory
<1>3. temp'.mode = temp.mode
  BY DEF SetModeReturns, TypeInv, DiskType
<1>4. pc[t] \in Past /\ ~Lagging(t)
  BY <1>2 DEF Lagging, Past, SetModePC
<1>5. FilesAgree
  BY <1>4, PastInside, AloneFacts DEF FollowedBy
<1>6. FilesAgree'
  BY <1>2, <1>3, <1>5 DEF FilesAgree, FileFollows, warehouse
<1>7. Own(t)'
  BY <1>1 DEF Own, AfterFailure, Stopping
<1>8. QED
  BY <1>1, <1>2, <1>6, <1>7, CallerOutside, TailSerial

LEMMA DecideSerial ==
  ASSUME TypeInv, SerialInv, NEW t \in Threads, Decide(t) PROVE SerialInv'
<1>1. pc[t] = "decide" /\ pc[t] \in Inside /\ UNCHANGED <<disk, daemon>>
  BY DEF Decide, At, Inside, SetModePC
<1>2. frame[t].ret = "iarm" /\ (t = Main => frame[t].mode \in Mode)
  BY <1>1 DEF SerialInv, Own
<1>3. CASE (frame[t].mode \notin Mode \/ KeepsNormal(t)) /\ Return(t) /\ UNCHANGED m_currentMode
  <2>1. Goto(t, Caller(t)) /\ pc'[t] \in {"idle", "tick_save", "active"}
    BY <1>3, CallerOutside, GotoThere DEF Return
  <2>2. frame[t].mode \notin Mode \/ m_currentMode = "NORMAL"
    BY <1>3 DEF KeepsNormal
  <2>3. m_currentMode # ""
    BY <1>1, <1>2, <2>2, AloneFacts
  <2>4. ~Lagging(t) /\ ~BeforeIarm(t)
    BY <1>1 DEF Lagging, Past, BeforeIarm, Stopping
  <2>5. FollowedBy(t)'
    BY <1>1, <1>3, <2>3, <2>4, AloneFacts DEF FollowedBy, FilesAgree, disk, daemon, FileFollows, warehouse
  <2>6. Own(t)'
    BY <2>1 DEF Own, AfterFailure, Stopping
  <2>7. QED
    BY <1>1, <1>3, <2>1, <2>3, <2>5, <2>6, CallerOutside, InsideSerial
<1>4. ASSUME NEW l \in {"stop_rd", "start_rd"}, Goto(t, l), UNCHANGED frame,
             m_currentMode' \in Mode
      PROVE  SerialInv'
  <2>1. pc'[t] = l /\ l \in Places
    BY <1>4, GotoThere DEF Places, SetModePC
  <2>2. Own(t)'
    BY <1>2, <1>4, <2>1 DEF Own, AfterFailure, Stopping
  <2>3. Lagging(t)' /\ BeforeIarm(t)'
    BY <1>2, <1>4, <2>1 DEF Lagging, Past, SetModePC, BeforeIarm, Stopping
  <2>4. FollowedBy(t)'
    BY <2>3 DEF FollowedBy
  <2>5. m_currentMode' # ""
    BY <1>4, ModeNotEmpty
  <2>6. QED
    BY <1>1, <1>4, <2>1, <2>2, <2>4, <2>5, InsideSerial
<1>5. QED
  BY <1>3, <1>4 DEF Decide, Mode

LEMMA SetModeStepSerial ==
  ASSUME TypeInv, SerialInv, NEW t \in Threads, SetModeStep(t) PROVE SerialInv'
  BY DecideSerial, StartDurationSerial, TimerStartSerial, StartSaveSerial, StopDurationSerial,
     TimerStopSerial, StopSaveSerial, IarmCallSerial, FailModeSerial, FileCheckSerial,
     FileWriteSerial, SaveModeSerial, SetModeReturnsSerial, Zenon DEF SetModeStep

\* The timer's threads run in a process that has a mode.
LEMMA TimerHasMode ==
  ASSUME SerialInv, NEW t \in Tids, pc[t] \in TimerPC
  PROVE  t \in Threads /\ t # Main /\ m_currentMode # ""
<1>1. t \in Threads /\ t # Main
  BY ThreadsOf, OperatingModeAssumption
<1>2. pc[t] \notin {"idle", "none"}
  BY DEF TimerPC
<1>3. QED
  BY <1>1, <1>2 DEF SerialInv, FreshOK

LEMMA TimerLoopSerial ==
  ASSUME Serial, TypeInv, SerialInv, NEW t \in Tids, TimerLoop(t) PROVE SerialInv'
<1>1. pc[t] \in {"top", "sleep"} /\ UNCHANGED <<m_currentMode, frame, disk, daemon>>
  BY DEF TimerLoop, memory
<1>2. t \in Threads /\ m_currentMode # "" /\ pc[t] \notin Inside
  <2>1. pc[t] \in TimerPC /\ pc[t] \notin Inside
    BY <1>1 DEF TimerPC, Inside, SetModePC, Ticking
  <2>2. QED
    BY <2>1, TimerHasMode
<1>3. FreshOK'
  BY <1>1, <1>2 DEF FreshOK
<1>4. ASSUME NEW l \in {"ended", "sleep"}, Goto(t, l)
      PROVE  SerialInv'
  <2>1. l \in Places /\ l \notin Inside
    BY DEF Places, TimerPC, OtherPC, Inside, SetModePC, Ticking
  <2>2. QED
    BY <1>1, <1>2, <1>3, <1>4, <2>1, OutsideSerial
<1>5. CASE Goto(t, "tick") /\ pc[t] = "sleep"
  <2>1. \A s \in Threads : pc[s] \notin Inside
    BY <1>5 DEF TimerLoop, At, Undisturbed, Inside
  <2>2. pc' = [pc EXCEPT ![t] = "tick"] /\ pc \in [Threads -> Places]
    BY <1>5 DEF Goto, TypeInv, ThreadsType
  <2>3. pc'[t] = "tick" /\ \A s \in Threads \ {t} : pc'[s] \notin Inside
    BY <1>2, <2>1, <2>2
  <2>4. Own(t)'
    BY <2>3 DEF Own, AfterFailure, Stopping
  <2>5. FollowedBy(t)'
    BY <1>1, <2>1, NobodyInside DEF SerialInv, FollowedBy, FilesAgree, disk, daemon, FileFollows, warehouse
  <2>6. QED
    BY <1>2, <1>3, <2>3, <2>4, <2>5, AloneNext
<1>6. QED
  BY <1>1, <1>4, <1>5 DEF TimerLoop, At

LEMMA TickSerial ==
  ASSUME TypeInv, SerialInv, NEW t \in Threads, Tick(t) PROVE SerialInv'
<1>1. PICK l \in Places :
        l = IF m_remainingDuration > 0 THEN "tick_dec" ELSE "tick_detach"
  BY DEF Places, TimerPC
<1>2. Goto(t, l) /\ pc[t] \in Ticking /\ l \in TimerPC
  BY <1>1 DEF Tick, At, Ticking, TimerPC
<1>3. temp'.mode = temp.mode /\ UNCHANGED <<m_currentMode, warehouse, daemon>>
  BY DEF Tick, disk
<1>4. QED
  BY <1>2, <1>3, TickingSerial

LEMMA TickDecrementSerial ==
  ASSUME TypeInv, SerialInv, NEW t \in Threads, TickDecrement(t) PROVE SerialInv'
<1>1. PICK l \in Places : l = "tick_save"
  BY DEF Places, TimerPC
<1>2. Goto(t, l) /\ pc[t] \in Ticking /\ l \in TimerPC
  BY <1>1 DEF TickDecrement, At, Ticking, TimerPC
<1>3. temp'.mode = temp.mode /\ UNCHANGED <<m_currentMode, warehouse, daemon>>
  BY DEF TickDecrement, disk
<1>4. QED
  BY <1>2, <1>3, TickingSerial

LEMMA TickSaveSerial ==
  ASSUME TypeInv, SerialInv, NEW t \in Threads, TickSave(t) PROVE SerialInv'
<1>1. PICK l \in Places : l = "top"
  BY DEF Places, TimerPC
<1>2. Goto(t, l) /\ pc[t] \in Ticking /\ l \in TimerPC
  BY <1>1 DEF TickSave, SaveDuration, At, Ticking, TimerPC
<1>3. temp'.mode = temp.mode /\ UNCHANGED <<m_currentMode, warehouse, daemon>>
  BY DEF TickSave, SaveDuration, memory, TypeInv, DiskType
<1>4. QED
  BY <1>2, <1>3, TickingSerial

LEMMA TickDetachSerial ==
  ASSUME TypeInv, SerialInv, NEW t \in Tids, TickDetach(t) PROVE SerialInv'
<1>1. pc[t] = "tick_detach" /\ pc[t] \in Ticking
  BY DEF TickDetach, At, Ticking
<1>2. t \in Threads /\ t # Main /\ m_currentMode # ""
  BY <1>1, TimerHasMode DEF TimerPC
<1>3. CASE Terminate
  BY <1>3, FreshSerialNext DEF Terminate, ProcessDies
<1>4. CASE ~Terminate
  <2>1. UNCHANGED <<m_currentMode, disk, daemon>>
    BY <1>4 DEF TickDetach
  <2>2. CASE pc[Main] = "inactive"
    <3>1. PICK l \in Places : l = "tick_save"
      BY DEF Places, TimerPC
    <3>2. Goto(t, l) /\ l \in TimerPC
      BY <1>4, <2>2, <3>1 DEF TickDetach, TimerPC
    <3>3. temp'.mode = temp.mode /\ UNCHANGED warehouse
      BY <2>1 DEF disk
    <3>4. QED
      BY <1>1, <1>2, <2>1, <3>2, <3>3, TickingSerial
  <2>3. CASE EnterSetMode(t, "NORMAL", 0)
    <3>1. \A s \in Threads \ {t} : pc[s] \notin Inside
      BY <1>1, <1>2, AloneFacts DEF Inside
    <3>2. pc[t] \notin SetModePC
      BY <1>1 DEF SetModePC
    <3>3. FreshOK'
      BY <1>2, <2>1 DEF FreshOK
    <3>4. QED
      BY <1>2, <2>1, <2>3, <3>1, <3>2, <3>3, EnterSerial
  <2>4. QED
    BY <1>4, <2>2, <2>3 DEF TickDetach
<1>5. QED
  BY <1>3, <1>4

LEMMA ConfigureSerial == ASSUME TypeInv, SerialInv, Configure PROVE SerialInv'
<1>1. Main \in Threads /\ pc[Main] = "configure" /\ UNCHANGED <<m_currentMode, disk, daemon>>
  BY ThreadsOf DEF Configure, At, memory
<1>2. CASE m_currentMode # ""
  <2>1. PICK l \in Places : l = "active"
    BY DEF Places, OtherPC
  <2>2. Goto(Main, l) /\ UNCHANGED frame
    BY <1>2, <2>1 DEF Configure
  <2>3. pc[Main] \notin Inside /\ l \notin Inside
    BY <1>1, <2>1 DEF Inside, SetModePC, Ticking
  <2>4. FreshOK'
    BY <1>1, <1>2 DEF FreshOK
  <2>5. QED
    BY <1>1, <2>2, <2>3, <2>4, OutsideSerial
<1>3. CASE m_currentMode = ""
  <2>1. \A s \in Threads \ {Main} : pc[s] \in {"idle", "none"} /\ pc[s] \notin Inside
    BY <1>3 DEF SerialInv, FreshOK, Inside, SetModePC, Ticking
  <2>2. pc[Main] \notin SetModePC
    BY <1>1 DEF SetModePC
  <2>3. ASSUME NEW m \in Mode, NEW d, EnterSetMode(Main, m, d)
        PROVE  SerialInv'
    <3>1. pc' = [pc EXCEPT ![Main] = "decide"] /\ pc \in [Threads -> Places]
      BY <2>3 DEF EnterSetMode, Goto, TypeInv, ThreadsType
    <3>2. FreshOK'
      BY <1>1, <2>1, <3>1 DEF FreshOK
    <3>3. QED
      BY <1>1, <2>1, <2>2, <2>3, <3>2, EnterSerial
  <2>4. CASE temp.mode = ""
    <3>1. PICK m \in Mode : m = "NORMAL"
      BY DEF Mode
    <3>2. EnterSetMode(Main, m, -1)
      BY <1>3, <2>4, <3>1 DEF Configure
    <3>3. QED
      BY <2>3, <3>2
  <2>5. CASE temp.mode # ""
    <3>1. temp.mode \in Mode
      BY <2>5 DEF TypeInv, DiskType
    <3>2. EnterSetMode(Main, temp.mode, temp.duration)
      BY <1>3, <2>5 DEF Configure
    <3>3. QED
      BY <2>3, <3>1, <3>2
  <2>6. QED
    BY <2>4, <2>5
<1>4. QED
  BY <1>2, <1>3

LEMMA ActivateSerial == ASSUME TypeInv, SerialInv, Activate PROVE SerialInv'
<1>1. Main \in Threads /\ UNCHANGED <<m_currentMode, frame, disk, daemon>>
  BY ThreadsOf DEF Activate, memory
<1>2. PICK l \in Places : l = "configure"
  BY DEF Places, OtherPC
<1>3. Goto(Main, l)
  BY <1>2 DEF Activate
<1>4. pc[Main] \notin Inside /\ l \notin Inside
  BY <1>2 DEF Activate, Inside, SetModePC, Ticking
<1>5. pc' = [pc EXCEPT ![Main] = "configure"] /\ pc \in [Threads -> Places]
  BY <1>2, <1>3 DEF Goto, TypeInv, ThreadsType
<1>6. FreshOK'
  BY <1>1, <1>5 DEF SerialInv, FreshOK
<1>7. QED
  BY <1>1, <1>3, <1>4, <1>6, OutsideSerial

LEMMA DeactivateSerial == ASSUME TypeInv, SerialInv, Deactivate PROVE SerialInv'
<1>1. Main \in Threads /\ UNCHANGED <<m_currentMode, frame, disk, daemon>>
  BY ThreadsOf DEF Deactivate
<1>2. PICK l \in Places : l = "inactive"
  BY DEF Places, OtherPC
<1>3. Goto(Main, l)
  BY <1>2 DEF Deactivate
<1>4. pc[Main] \notin Inside /\ l \notin Inside
  BY <1>2 DEF Deactivate, At, Inside, SetModePC, Ticking
<1>5. m_currentMode # ""
  BY DEF Deactivate, At, SerialInv, FreshOK
<1>6. FreshOK'
  BY <1>1, <1>5 DEF FreshOK
<1>7. QED
  BY <1>1, <1>3, <1>4, <1>6, OutsideSerial

LEMMA CallSetModeSerial ==
  ASSUME Serial, TypeInv, SerialInv, NEW w \in Workers, NEW m, NEW d, CallSetMode(w, m, d)
  PROVE  SerialInv'
<1>1. w \in Threads /\ w # Main
  BY ThreadsOf, OperatingModeAssumption
<1>2. /\ pc[w] = "idle" /\ pc[Main] = "active" /\ EnterSetMode(w, m, d)
      /\ UNCHANGED <<m_currentMode, disk, daemon>>
  BY DEF CallSetMode, At, memory
<1>3. \A s \in Threads : pc[s] \notin Inside
  BY DEF CallSetMode, Undisturbed, Inside
<1>4. m_currentMode # ""
  BY <1>2 DEF SerialInv, FreshOK
<1>5. FreshOK'
  BY <1>2, <1>4 DEF FreshOK
<1>6. QED
  BY <1>1, <1>2, <1>3, <1>5, EnterSerial DEF Inside

LEMMA NextSerial == ASSUME Serial PROVE TypeInv /\ SerialInv /\ [Next]_vars => SerialInv'
<1> SUFFICES ASSUME TypeInv, SerialInv, [Next]_vars PROVE SerialInv'
  OBVIOUS
<1>1. CASE \E t \in Threads : SetModeStep(t)
  BY <1>1, SetModeStepSerial
<1>2. ASSUME NEW t \in Tids, TimerStep(t)
      PROVE  SerialInv'
  <2>1. t \in Threads
    BY ThreadsOf
  <2>2. QED
    BY <1>2, <2>1, TimerLoopSerial, TickSerial, TickDecrementSerial, TickDetachSerial,
       TickSaveSerial DEF TimerStep
<1>3. CASE Configure \/ Activate \/ Deactivate
  BY <1>3, ConfigureSerial, ActivateSerial, DeactivateSerial
<1>4. CASE Crash
  BY <1>4, FreshSerialNext DEF Crash
<1>5. CASE \E w \in Workers, m \in Mode \union {"invalid"}, d \in Durations : CallSetMode(w, m, d)
  BY <1>5, CallSetModeSerial
<1>6. CASE UNCHANGED vars
  <2>1. UNCHANGED <<memory, pc, frame, disk, daemon>>
    BY <1>6 DEF vars
  <2>2. UNCHANGED m_currentMode
    BY <2>1 DEF memory
  <2>3. OneInside' /\ FreshOK'
    BY <2>1, <2>2 DEF SerialInv, OneInside, FreshOK
  <2>4. \A t \in Threads : Own(t)'
    BY <2>1, <2>2 DEF SerialInv, Own, AfterFailure, disk, daemon, FileFollows, warehouse
  <2>5. Followed'
    BY <2>1, <2>2 DEF SerialInv, Followed, Lagging, BeforeIarm, FilesAgree, disk, daemon, FileFollows, warehouse
  <2>6. QED
    BY <2>3, <2>4, <2>5 DEF SerialInv
<1>7. QED
  BY <1>1, <1>2, <1>3, <1>4, <1>5, <1>6 DEF Next

\* Where calls and ticks do not overlap, whatever fails, crashes or is
\* restarted in between, and in any order of modes and durations: once no call
\* is in progress, the file of settings shows the mode the plugin is in, and so
\* does the warehouse file unless the last attempt to make or remove it failed.
THEOREM SerialSettledAgree == ASSUME Serial PROVE Spec => []SettledAgree
<1>1. Init => SerialInv
  BY FreshSerial DEF Init
<1>2. TypeInv /\ SerialInv => SettledAgree
  BY SettledFollows
<1>3. QED
  BY <1>1, <1>2, InitTypeInv, NextTypeInv, NextSerial, PTL DEF Spec

\* Likewise the daemon is in the mode of the plugin, if IARM accepted the last
\* change of mode.
THEOREM SerialDaemonFollows == ASSUME Serial PROVE Spec => []DaemonFollows
<1>1. Init => SerialInv
  BY FreshSerial DEF Init
<1>2. TypeInv /\ SerialInv => DaemonFollows
  BY SettledFollows
<1>3. QED
  BY <1>1, <1>2, InitTypeInv, NextTypeInv, NextSerial, PTL DEF Spec

-----------------------------------------------------------------------------
(* Where calls and ticks do not overlap, a timed mode is timed.            *)

\* The time that is left, in memory and in the file, is never negative.
TimesOK == temp.duration >= 0 /\ m_remainingDuration >= 0

\* A plugin that is inactive was deactivated.
InactiveOK == pc[Main] = "inactive" => cycles # 0

\* Where the timer's thread is, from its start to the end of the time.
RunningPC == {"top", "sleep", "tick", "tick_dec", "tick_save"}

\* A timer thread runs that was not told to stop.
Running == ~clear /\ \E t \in Tids : pc[t] \in RunningPC

\* A client's call for a mode that is to last until the next call.
Granting(t) == t \in Workers /\ frame[t].duration < 0 /\ frame[t].mode # "NORMAL"

AfterIarm == {"file_check", "file_create", "file_remove", "save_mode", "save_duration"}

\* A call on its way to grant the mode, to start its timer, or to end it.
OnTheWay(t) ==
  \/ pc[t] = "decide" /\ frame[t].mode \in Mode
  \/ pc[t] \in {"start_rd", "start_timer", "tick_detach"}
  \/ AfterFailure(t)
  \/ BeforeIarm(t) /\ Granting(t)
  \/ pc[t] \in AfterIarm /\ Granting(t) /\ frame[t].ok

\* What a call relies on: only a client asks for a mode without an end, only a
\* mode with an end starts the timer, nobody changes the duration in a tick,
\* and the timer is stopped for a mode that needs none.
TimerOwn(t) ==
  /\ pc[t] = "decide" /\ t \notin Workers => frame[t].mode = "NORMAL" \/ frame[t].duration >= 0
  /\ pc[t] = "start_rd" => frame[t].duration >= 0
  /\ pc[t] = "tick_dec" => frame[t].load = m_remainingDuration /\ m_remainingDuration > 0
  /\ pc[t] \in Stopping => AfterFailure(t) \/ Granting(t) \/ m_currentMode = "NORMAL"

\* A call or a tick that is still to write the duration to the file.
Unsaved(t) == pc[t] \in Past \union Ticking \/ (pc[t] = "decide" /\ t \in Tids)

Saved ==
  m_currentMode # "" => temp.duration = m_remainingDuration \/ \E t \in Threads : Unsaved(t)

Expires == cycles = 0 /\ Temporary => Running \/ \E t \in Threads : OnTheWay(t)

TimedInv == TimesOK /\ InactiveOK /\ (\A t \in Threads : TimerOwn(t)) /\ Saved /\ Expires

\* The same for the one thread that is inside.
SavedBy(t) == m_currentMode # "" => temp.duration = m_remainingDuration \/ Unsaved(t)

ExpiresBy(t) == cycles = 0 /\ Temporary => Running \/ OnTheWay(t)

LEMMA TimedInside ==
  ASSUME NEW t \in Threads, OnTheWay(t) \/ Unsaved(t) PROVE pc[t] \in Inside
  BY DEF OnTheWay, Unsaved, AfterFailure, BeforeIarm, AfterIarm, Stopping, Inside, SetModePC,
         Ticking, Past

LEMMA OutsideTimer == ASSUME NEW t \in Threads, pc[t] \notin Inside PROVE TimerOwn(t)
  BY DEF TimerOwn, Stopping, Inside, SetModePC, Ticking

LEMMA OutsideTimerNext == ASSUME NEW t \in Threads, pc'[t] \notin Inside PROVE TimerOwn(t)'
  BY DEF TimerOwn, Stopping, Inside, SetModePC, Ticking

\* Where nobody is inside, the file has the duration and the timer runs.
LEMMA QuietTimed ==
  ASSUME TimedInv, \A t \in Threads : pc[t] \notin Inside
  PROVE  /\ m_currentMode # "" => temp.duration = m_remainingDuration
         /\ cycles = 0 /\ Temporary => Running
  BY TimedInside DEF TimedInv, Saved, Expires

\* The settled states are those the invariant was made for.
LEMMA SettledTimed == ASSUME TypeInv, SerialInv, TimedInv PROVE TimedModeIsTimed
<1> SUFFICES ASSUME Settled, Temporary, cycles = 0
             PROVE  temp.duration = m_remainingDuration /\ \E t \in Tids : Timing(t) /\ ~clear
  BY DEF TimedModeIsTimed
<1>1. \A t \in Threads : pc[t] \notin Inside
  BY DEF Settled, At, Timing, Threads, Inside, SetModePC, Ticking
<1>2. m_currentMode # ""
  BY DEF Temporary
<1>3. temp.duration = m_remainingDuration /\ Running
  BY <1>1, <1>2, QuietTimed
<1>4. PICK t \in Tids : pc[t] \in RunningPC /\ ~clear
  BY <1>3 DEF Running
<1>5. Timing(t)
  BY <1>4 DEF Settled, Timing, RunningPC
<1>6. QED
  BY <1>3, <1>4, <1>5

\* A thread that is inside is alone there.
LEMMA AloneTimed ==
  ASSUME TypeInv, SerialInv, TimedInv, NEW t \in Threads, pc[t] \in Inside
  PROVE  TimerOwn(t) /\ SavedBy(t) /\ ExpiresBy(t) /\ TimesOK /\ InactiveOK
<1>1. \A s \in Threads : OnTheWay(s) \/ Unsaved(s) => s = t
  BY AloneFacts, TimedInside
<1>2. QED
  BY <1>1 DEF TimedInv, SavedBy, Saved, ExpiresBy, Expires

\* Where one thread at most is inside, only its own part is to be shown.
LEMMA AloneTimedNext ==
  ASSUME NEW t \in Threads, \A s \in Threads \ {t} : pc'[s] \notin Inside,
         TimesOK', InactiveOK', TimerOwn(t)', SavedBy(t)', ExpiresBy(t)'
  PROVE  TimedInv'
<1>1. \A s \in Threads : TimerOwn(s)'
  BY OutsideTimerNext
<1>2. Saved' /\ Expires'
  BY DEF SavedBy, Saved, ExpiresBy, Expires
<1>3. QED
  BY <1>1, <1>2 DEF TimedInv

LEMMA NoTime == ASSUME m_remainingDuration = 0, temp.duration = 0 PROVE TimesOK
  BY DEF TimesOK

LEMMA NoTimeNext ==
  ASSUME TimesOK, m_remainingDuration' = 0, UNCHANGED disk PROVE TimesOK'
  BY DEF TimesOK, disk

\* A process has just started, or died.
LEMMA InitTimed == Init => TimedInv
<1> SUFFICES ASSUME Init PROVE TimedInv
  OBVIOUS
<1>1. m_currentMode = "" /\ pc = DeadPC("configure")
  BY DEF Init
<1>2. \A t \in Threads : pc[t] \notin Inside
  BY <1>1 DEF DeadPC, Inside, SetModePC, Ticking
<1>3. InactiveOK
  BY <1>1, ThreadsOf DEF InactiveOK, DeadPC
<1>4. TimesOK
  <2>1. m_remainingDuration = 0 /\ temp = [mode |-> "", duration |-> 0]
    BY DEF Init
  <2>2. [mode |-> "", duration |-> 0].duration = 0
    OBVIOUS
  <2>3. temp.duration = 0
    BY <2>1, <2>2, Zenon
  <2>4. QED
    BY <2>1, <2>3, NoTime
<1>5. Saved /\ Expires
  BY <1>1 DEF Saved, Expires, Temporary
<1>6. QED
  BY <1>2, <1>3, <1>4, <1>5, OutsideTimer DEF TimedInv

LEMMA DeathTimed ==
  ASSUME TimedInv, m_currentMode' = "", m_remainingDuration' = 0, pc' = DeadPC("down"),
         UNCHANGED disk
  PROVE  TimedInv'
<1>1. \A t \in Threads : pc'[t] \notin Inside
  BY DEF DeadPC, Inside, SetModePC, Ticking
<1>2. InactiveOK'
  BY ThreadsOf DEF InactiveOK, DeadPC
<1>3. TimesOK'
  BY NoTimeNext DEF TimedInv
<1>4. Saved' /\ Expires'
  BY DEF Saved, Expires, Temporary
<1>5. QED
  BY <1>1, <1>2, <1>3, <1>4, OutsideTimerNext DEF TimedInv

\* A timer thread that runs goes on running, unless it is told to stop.
LEMMA RunningStays ==
  ASSUME TypeInv, NEW t \in Threads, NEW l, Goto(t, l), pc[t] \notin RunningPC \/ l \in RunningPC,
         UNCHANGED clear, Running
  PROVE  Running'
<1>1. PICK s \in Tids : pc[s] \in RunningPC
  BY DEF Running
<1>2. pc' = [pc EXCEPT ![t] = l] /\ pc \in [Threads -> Places] /\ s \in Threads
  BY ThreadsOf DEF Goto, TypeInv, ThreadsType
<1>3. pc'[s] \in RunningPC
  BY <1>1, <1>2
<1>4. QED
  BY <1>3 DEF Running

\* The thread that is inside goes on, in its call or out of it.
LEMMA InsideTimed ==
  ASSUME TypeInv, SerialInv, TimedInv, NEW t \in Threads, pc[t] \in Inside, NEW l, Goto(t, l),
         l # "inactive", UNCHANGED cycles, TimesOK', TimerOwn(t)', SavedBy(t)', ExpiresBy(t)'
  PROVE  TimedInv'
<1>1. pc' = [pc EXCEPT ![t] = l] /\ pc \in [Threads -> Places] /\ Main \in Threads
  BY ThreadsOf DEF Goto, TypeInv, ThreadsType
<1>2. \A s \in Threads \ {t} : pc'[s] \notin Inside
  BY <1>1, AloneFacts
<1>3. InactiveOK'
  BY <1>1 DEF TimedInv, InactiveOK
<1>4. QED
  BY <1>2, <1>3, AloneTimedNext

\* What such a step keeps of the end of the mode.
LEMMA KeepsExpiry ==
  ASSUME TypeInv, SerialInv, TimedInv, NEW t \in Threads, pc[t] \in Inside, NEW l, Goto(t, l),
         pc[t] \notin RunningPC \/ l \in RunningPC, OnTheWay(t) => OnTheWay(t)',
         Temporary' => Temporary, UNCHANGED <<clear, cycles>>
  PROVE  ExpiresBy(t)'
<1>1. Running => Running'
  BY RunningStays
<1>2. ExpiresBy(t)
  BY AloneTimed
<1>3. QED
  BY <1>1, <1>2 DEF ExpiresBy

\* A call that came past its decision goes on.
LEMMA PastTimed ==
  ASSUME TypeInv, SerialInv, TimedInv, NEW t \in Threads, pc[t] \in Past, NEW l \in Past,
         Goto(t, l), UNCHANGED cycles, TimesOK', TimerOwn(t)', ExpiresBy(t)'
  PROVE  TimedInv'
<1>1. pc[t] \in Inside /\ l # "inactive"
  BY PastInside DEF Past, SetModePC
<1>2. pc'[t] = l
  BY GotoThere
<1>3. SavedBy(t)'
  BY <1>2 DEF SavedBy, Unsaved
<1>4. QED
  BY <1>1, <1>3, InsideTimed

\* A save writes what is in memory.
LEMMA SaveTimes ==
  ASSUME TypeInv, TimesOK, temp' = [temp EXCEPT !.duration = m_remainingDuration],
         UNCHANGED memory
  PROVE  TimesOK' /\ temp'.duration = m_remainingDuration'
  BY DEF TypeInv, DiskType, TimesOK, memory

LEMMA StartDurationTimed ==
  ASSUME TypeInv, SerialInv, TimedInv, NEW t \in Threads, StartDuration(t) PROVE TimedInv'
<1>1. pc[t] = "start_rd" /\ pc[t] \in Past /\ "start_timer" \in Past
  BY DEF StartDuration, At, Past, SetModePC
<1>2. Goto(t, "start_timer") /\ pc'[t] = "start_timer"
  BY GotoThere DEF StartDuration
<1>3. TimerOwn(t) /\ TimesOK
  BY DEF TimedInv
<1>4. TimesOK'
  BY <1>1, <1>3 DEF StartDuration, TimesOK, TimerOwn, disk
<1>5. TimerOwn(t)' /\ ExpiresBy(t)'
  BY <1>2 DEF TimerOwn, ExpiresBy, OnTheWay, Stopping
<1>6. UNCHANGED cycles
  BY DEF StartDuration, bounds
<1>7. QED
  BY <1>1, <1>2, <1>4, <1>5, <1>6, PastTimed

LEMMA StartSaveTimed ==
  ASSUME TypeInv, SerialInv, TimedInv, NEW t \in Threads, StartSave(t) PROVE TimedInv'
<1>1. pc[t] = "start_save" /\ pc[t] \in Past /\ "iarm" \in Past /\ pc[t] \notin RunningPC
  BY DEF StartSave, SaveDuration, At, Past, SetModePC, RunningPC
<1>2. Goto(t, "iarm") /\ pc'[t] = "iarm"
  BY GotoThere DEF StartSave, SaveDuration
<1>3. /\ temp' = [temp EXCEPT !.duration = m_remainingDuration]
      /\ UNCHANGED <<memory, frame, promise, bounds>>
  BY DEF StartSave, SaveDuration
<1>4. TimesOK'
  BY <1>3, SaveTimes DEF TimedInv
<1>5. TimerOwn(t)'
  BY <1>2 DEF TimerOwn, Stopping
<1>6. UNCHANGED <<clear, cycles>> /\ (Temporary' => Temporary)
  BY <1>3 DEF memory, bounds, Temporary
<1>7. OnTheWay(t) => OnTheWay(t)'
  BY <1>1, <1>2, <1>3 DEF OnTheWay, AfterFailure, BeforeIarm, Stopping, AfterIarm, Granting
<1>8. ExpiresBy(t)'
  BY <1>1, <1>2, <1>6, <1>7, PastInside, KeepsExpiry
<1>9. QED
  BY <1>1, <1>2, <1>4, <1>5, <1>6, <1>8, PastTimed

\* stopModeTimer: for a mode without an end, or one that ends here.
LEMMA StopTimed ==
  ASSUME TypeInv, SerialInv, TimedInv, NEW t \in Threads, pc[t] \in Stopping, NEW l, Goto(t, l),
         l \in {"stop_clear", "stop_save"} \/ l = frame[t].ret,
         UNCHANGED <<m_currentMode, frame, promise, cycles>>, TimesOK'
  PROVE  TimedInv'
<1>1. frame[t].ret \in {"iarm", "fail_mode"}
  BY DEF TypeInv, ThreadsType, Frame
<1>2. pc[t] \in Past /\ l \in Past
  BY <1>1 DEF Stopping, Past, SetModePC
<1>3. pc'[t] = l
  BY GotoThere
<1>4. AfterFailure(t) \/ (Granting(t) /\ BeforeIarm(t)) \/ m_currentMode = "NORMAL"
  BY <1>1 DEF TimedInv, TimerOwn, Stopping, AfterFailure, BeforeIarm
<1>5. /\ AfterFailure(t) => AfterFailure(t)'
      /\ Granting(t) => Granting(t)'
      /\ BeforeIarm(t) => BeforeIarm(t)'
  BY <1>3 DEF AfterFailure, Granting, BeforeIarm, Stopping
<1>6. TimerOwn(t)'
  BY <1>1, <1>3, <1>4, <1>5 DEF TimerOwn, Stopping
<1>7. ExpiresBy(t)'
  BY <1>4, <1>5 DEF ExpiresBy, OnTheWay, Temporary
<1>8. QED
  BY <1>2, <1>6, <1>7, PastTimed

LEMMA StopDurationTimed ==
  ASSUME TypeInv, SerialInv, TimedInv, NEW t \in Threads, StopDuration(t) PROVE TimedInv'
<1>1. pc[t] \in Stopping /\ Goto(t, "stop_clear")
  BY DEF StopDuration, At, Stopping
<1>2. UNCHANGED <<m_currentMode, frame, promise, cycles>>
  BY DEF StopDuration, bounds
<1>3. TimesOK'
  BY NoTimeNext DEF StopDuration, TimedInv
<1>4. QED
  BY <1>1, <1>2, <1>3, StopTimed

LEMMA TimerStopTimed ==
  ASSUME TypeInv, SerialInv, TimedInv, NEW t \in Threads, TimerStop(t) PROVE TimedInv'
<1>1. pc[t] \in Stopping /\ Goto(t, "stop_save")
  BY DEF TimerStop, At, Stopping
<1>2. UNCHANGED <<m_currentMode, frame, promise, cycles>>
  BY DEF TimerStop, bounds
<1>3. TimesOK'
  BY DEF TimerStop, TimedInv, TimesOK, disk
<1>4. QED
  BY <1>1, <1>2, <1>3, StopTimed

LEMMA StopSaveTimed ==
  ASSUME TypeInv, SerialInv, TimedInv, NEW t \in Threads, StopSave(t) PROVE TimedInv'
<1>1. pc[t] \in Stopping /\ Goto(t, frame[t].ret)
  BY DEF StopSave, SaveDuration, At, Stopping
<1>2. UNCHANGED <<memory, frame, promise, bounds>>
  BY DEF StopSave, SaveDuration
<1>3. UNCHANGED <<m_currentMode, frame, promise, cycles>>
  BY <1>2 DEF memory, bounds
<1>4. TimesOK'
  BY <1>2, SaveTimes DEF StopSave, SaveDuration, TimedInv
<1>5. QED
  BY <1>1, <1>3, <1>4, StopTimed

LEMMA TimerStartTimed ==
  ASSUME TypeInv, SerialInv, TimedInv, NEW t \in Threads, TimerStart(t) PROVE TimedInv'
<1>1. CASE Terminate
  BY <1>1, DeathTimed DEF Terminate, ProcessDies
<1>2. ASSUME NEW tid \in Tids, Startable(tid), clear' = FALSE,
             pc' = [pc EXCEPT ![t] = "start_save", ![tid] = "top"],
             UNCHANGED <<m_currentMode, m_remainingDuration, disk, bounds>>
      PROVE  TimedInv'
  <2>1. pc[t] = "start_timer" /\ pc[t] \in Past
    BY DEF TimerStart, At, Past, SetModePC
  <2>2. /\ tid \in Threads /\ tid # t /\ tid # Main /\ Main \in Threads
        /\ pc \in [Threads -> Places]
    BY <1>2, <2>1, ThreadsOf, OperatingModeAssumption DEF Startable, TypeInv, ThreadsType
  <2>3. pc'[t] = "start_save" /\ pc'[tid] = "top"
    BY <1>2, <2>2
  <2>4. \A s \in Threads \ {t} : pc'[s] \notin Inside
    <3>1. "top" \notin Inside
      BY DEF Inside, SetModePC, Ticking
    <3>2. \A s \in Threads \ {t} : pc[s] \notin Inside
      BY <2>1, PastInside, AloneFacts
    <3>3. QED
      BY <1>2, <2>2, <3>1, <3>2
  <2>5. TimesOK'
    BY <1>2 DEF TimedInv, TimesOK, disk
  <2>6. pc'[Main] = "inactive" => pc[Main] = "inactive"
    BY <1>2, <2>2, <2>3
  <2>7. InactiveOK'
    BY <1>2, <2>6 DEF TimedInv, InactiveOK, bounds
  <2>8. TimerOwn(t)' /\ SavedBy(t)'
    BY <2>3 DEF TimerOwn, Stopping, SavedBy, Unsaved, Past, SetModePC
  <2>9. ExpiresBy(t)'
    BY <1>2, <2>3 DEF ExpiresBy, Running, RunningPC
  <2>10. QED
    BY <2>4, <2>5, <2>7, <2>8, <2>9, AloneTimedNext
<1>3. QED
  BY <1>1, <1>2 DEF TimerStart

LEMMA IarmCallTimed ==
  ASSUME TypeInv, SerialInv, TimedInv, NEW t \in Threads, IarmCall(t) PROVE TimedInv'
<1>1. pc[t] = "iarm" /\ pc[t] \in Past /\ pc[t] \notin RunningPC
  BY DEF IarmCall, At, Past, SetModePC, RunningPC
<1>2. UNCHANGED <<memory, disk, promise, bounds>>
  BY DEF IarmCall
<1>3. UNCHANGED <<clear, cycles>> /\ (Temporary' => Temporary)
  BY <1>2 DEF memory, bounds, Temporary
<1>4. TimesOK'
  BY <1>2 DEF TimedInv, TimesOK, memory, disk
<1>5. frame \in [Threads -> Frame]
  BY DEF TypeInv, ThreadsType
<1>6. CASE frame' = [frame EXCEPT ![t].ok = TRUE] /\ Goto(t, "file_check")
  <2>1. pc'[t] = "file_check" /\ "file_check" \in Past
    BY <1>6, GotoThere DEF Past, SetModePC
  <2>2. frame'[t].ok = TRUE
    BY <1>5, <1>6 DEF Frame
  <2>3. frame'[t].mode = frame[t].mode /\ frame'[t].duration = frame[t].duration
    BY <1>5, <1>6 DEF Frame
  <2>4. Granting(t) => Granting(t)'
    BY <2>3 DEF Granting
  <2>5. OnTheWay(t) => Granting(t)
    BY <1>1 DEF OnTheWay, AfterFailure, Stopping, AfterIarm
  <2>6. OnTheWay(t) => OnTheWay(t)'
    BY <2>1, <2>2, <2>4, <2>5 DEF OnTheWay, AfterIarm
  <2>7. ExpiresBy(t)'
    BY <1>1, <1>3, <1>6, <2>6, PastInside, KeepsExpiry
  <2>8. TimerOwn(t)'
    BY <2>1 DEF TimerOwn, Stopping
  <2>9. QED
    BY <1>1, <1>3, <1>4, <1>6, <2>1, <2>7, <2>8, PastTimed
<1>7. CASE frame' = [frame EXCEPT ![t].ret = "fail_mode"] /\ Goto(t, "stop_rd")
  <2>1. pc'[t] = "stop_rd" /\ "stop_rd" \in Past
    BY <1>7, GotoThere DEF Past, SetModePC
  <2>2. frame'[t].ret = "fail_mode"
    BY <1>5, <1>7 DEF Frame
  <2>3. AfterFailure(t)'
    BY <2>1, <2>2 DEF AfterFailure, Stopping
  <2>4. TimerOwn(t)' /\ ExpiresBy(t)'
    BY <2>1, <2>3 DEF TimerOwn, ExpiresBy, OnTheWay
  <2>5. QED
    BY <1>1, <1>3, <1>4, <1>7, <2>1, <2>4, PastTimed
<1>8. QED
  BY <1>6, <1>7 DEF IarmCall

LEMMA FailModeTimed ==
  ASSUME TypeInv, SerialInv, TimedInv, NEW t \in Threads, FailMode(t) PROVE TimedInv'
<1>1. pc[t] \in Past /\ "file_check" \in Past
  BY DEF FailMode, At, Past, SetModePC
<1>2. Goto(t, "file_check") /\ pc'[t] = "file_check"
  BY GotoThere DEF FailMode
<1>3. TimesOK' /\ UNCHANGED cycles
  BY DEF FailMode, TimedInv, TimesOK, disk, bounds
<1>4. TimerOwn(t)'
  BY <1>2 DEF TimerOwn, Stopping
<1>5. ExpiresBy(t)'
  BY DEF FailMode, ExpiresBy, Temporary
<1>6. QED
  BY <1>1, <1>2, <1>3, <1>4, <1>5, PastTimed

\* After the answer of IARM, up to the last save.
LEMMA TailTimed ==
  ASSUME TypeInv, SerialInv, TimedInv, NEW t \in Threads, pc[t] \in AfterIarm,
         NEW l \in AfterIarm, Goto(t, l), UNCHANGED <<memory, frame, promise, bounds>>, TimesOK'
  PROVE  TimedInv'
<1>1. pc[t] \in Past /\ l \in Past /\ pc[t] \notin RunningPC
  BY DEF AfterIarm, Past, SetModePC, RunningPC
<1>2. pc'[t] = l
  BY GotoThere
<1>3. UNCHANGED <<clear, cycles>> /\ (Temporary' => Temporary)
  BY DEF memory, bounds, Temporary
<1>4. OnTheWay(t) => OnTheWay(t)'
  BY <1>2 DEF OnTheWay, AfterFailure, BeforeIarm, Stopping, AfterIarm, Granting
<1>5. ExpiresBy(t)'
  BY <1>1, <1>3, <1>4, PastInside, KeepsExpiry
<1>6. TimerOwn(t)'
  BY <1>2 DEF TimerOwn, Stopping, AfterIarm
<1>7. QED
  BY <1>1, <1>3, <1>5, <1>6, PastTimed

LEMMA FileCheckTimed ==
  ASSUME TypeInv, SerialInv, TimedInv, NEW t \in Threads, FileCheck(t) PROVE TimedInv'
<1>1. PICK l \in AfterIarm : l = IF m_currentMode = "WAREHOUSE" THEN "file_create" ELSE "file_remove"
  BY DEF AfterIarm
<1>2. pc[t] \in AfterIarm /\ Goto(t, l) /\ UNCHANGED <<memory, frame, promise, bounds>>
  BY <1>1 DEF FileCheck, At, AfterIarm
<1>3. TimesOK'
  BY DEF FileCheck, TimedInv, TimesOK, memory, disk
<1>4. QED
  BY <1>2, <1>3, TailTimed

LEMMA FileWriteTimed ==
  ASSUME TypeInv, SerialInv, TimedInv, NEW t \in Threads, FileWrite(t) PROVE TimedInv'
<1>1. pc[t] \in AfterIarm /\ "save_mode" \in AfterIarm
  BY DEF FileWrite, AfterIarm
<1>2. Goto(t, "save_mode") /\ UNCHANGED <<memory, frame, promise, bounds>>
  BY DEF FileWrite
<1>3. TimesOK'
  BY DEF FileWrite, TimedInv, TimesOK, memory
<1>4. QED
  BY <1>1, <1>2, <1>3, TailTimed

LEMMA SaveModeTimed ==
  ASSUME TypeInv, SerialInv, TimedInv, NEW t \in Threads, SaveMode(t) PROVE TimedInv'
<1>1. pc[t] \in AfterIarm /\ "save_duration" \in AfterIarm
  BY DEF SaveMode, At, AfterIarm
<1>2. Goto(t, "save_duration") /\ UNCHANGED <<memory, frame, promise, bounds>>
  BY DEF SaveMode
<1>3. temp'.duration = temp.duration
  BY DEF SaveMode, TypeInv, DiskType
<1>4. TimesOK'
  BY <1>2, <1>3 DEF TimedInv, TimesOK, memory
<1>5. QED
  BY <1>1, <1>2, <1>4, TailTimed

\* A call returns: the mode is granted, or the timer runs as before.
LEMMA ReturnExpiry ==
  ASSUME TypeInv, SerialInv, TimedInv, NEW t \in Threads, pc[t] \in {"decide", "save_duration"},
         OnTheWay(t) => Granting(t) /\ frame[t].ok, Return(t),
         UNCHANGED <<m_currentMode, clear, cycles>>
  PROVE  ExpiresBy(t)'
<1> SUFFICES ASSUME cycles = 0, Temporary' PROVE Running'
  BY DEF ExpiresBy
<1>1. promise' # frame[t].mode \/ frame[t].mode \notin Mode
  BY ModeNotEmpty DEF Temporary
<1>2. frame[t].ok => frame[t].mode \in Mode
  BY DEF TypeInv, GrantOK
<1>3. ~(Granting(t) /\ frame[t].ok)
  BY <1>1, <1>2 DEF Return, Granting
<1>4. UNCHANGED promise
  BY <1>3 DEF Return, Granting
<1>5. Temporary
  BY <1>4 DEF Temporary
<1>6. pc[t] \in Inside /\ pc[t] \notin RunningPC
  BY DEF Inside, SetModePC, RunningPC
<1>7. Running
  BY <1>3, <1>5, <1>6, AloneTimed DEF ExpiresBy
<1>8. QED
  BY <1>6, <1>7, RunningStays DEF Return

LEMMA SetModeReturnsTimed ==
  ASSUME TypeInv, SerialInv, TimedInv, NEW t \in Threads, SetModeReturns(t) PROVE TimedInv'
<1>1. Goto(t, Caller(t)) /\ pc'[t] = Caller(t) /\ Caller(t) \in {"idle", "tick_save", "active"}
  BY CallerOutside, GotoThere DEF SetModeReturns, Return
<1>2. /\ pc[t] = "save_duration" /\ pc[t] \in Inside /\ UNCHANGED <<memory, bounds>>
      /\ temp' = [temp EXCEPT !.duration = m_remainingDuration]
  BY DEF SetModeReturns, At, Inside, SetModePC
<1>3. TimesOK' /\ temp'.duration = m_remainingDuration'
  BY <1>2, SaveTimes DEF TimedInv
<1>4. TimerOwn(t)' /\ SavedBy(t)'
  BY <1>1, <1>3 DEF TimerOwn, Stopping, SavedBy
<1>5. OnTheWay(t) => Granting(t) /\ frame[t].ok
  BY <1>2 DEF OnTheWay, AfterFailure, BeforeIarm, Stopping
<1>6. UNCHANGED <<m_currentMode, clear, cycles>>
  BY <1>2 DEF memory, bounds
<1>7. ExpiresBy(t)'
  BY <1>2, <1>5, <1>6, ReturnExpiry DEF SetModeReturns
<1>8. QED
  BY <1>1, <1>2, <1>3, <1>4, <1>6, <1>7, InsideTimed

LEMMA DecideTimed ==
  ASSUME TypeInv, SerialInv, TimedInv, NEW t \in Threads, Decide(t) PROVE TimedInv'
<1>1. pc[t] = "decide" /\ pc[t] \in Inside
  BY DEF Decide, At, Inside, SetModePC
<1>2. UNCHANGED <<m_remainingDuration, clear, disk, cycles>>
  BY DEF Decide, bounds
<1>3. TimesOK'
  BY <1>2 DEF TimedInv, TimesOK, disk
<1>4. TimerOwn(t) /\ SavedBy(t)
  BY <1>1, AloneTimed
<1>5. CASE (frame[t].mode \notin Mode \/ KeepsNormal(t)) /\ Return(t) /\ UNCHANGED m_currentMode
  <2>1. Goto(t, Caller(t)) /\ pc'[t] = Caller(t) /\ Caller(t) \in {"idle", "tick_save", "active"}
    BY <1>5, CallerOutside, GotoThere DEF Return
  <2>2. TimerOwn(t)'
    BY <2>1 DEF TimerOwn, Stopping
  <2>3. t \in Tids => pc'[t] = "tick_save"
    BY <2>1, OperatingModeAssumption DEF Caller
  <2>4. Unsaved(t) => Unsaved(t)'
    BY <1>1, <2>3 DEF Unsaved, Past, Ticking
  <2>5. SavedBy(t)'
    BY <1>2, <1>4, <1>5, <2>4 DEF SavedBy, disk
  <2>6. CASE frame[t].mode \notin Mode
    <3>1. ~OnTheWay(t)
      BY <1>1, <2>6 DEF OnTheWay, AfterFailure, BeforeIarm, Stopping, AfterIarm
    <3>2. ExpiresBy(t)'
      BY <1>1, <1>2, <1>5, <3>1, ReturnExpiry
    <3>3. QED
      BY <1>1, <1>2, <1>3, <2>1, <2>2, <2>5, <3>2, InsideTimed
  <2>7. CASE KeepsNormal(t)
    <3>1. ExpiresBy(t)'
      BY <1>5, <2>7 DEF KeepsNormal, ExpiresBy, Temporary
    <3>2. QED
      BY <1>1, <1>2, <1>3, <2>1, <2>2, <2>5, <3>1, InsideTimed
  <2>8. QED
    BY <1>5, <2>6, <2>7
<1>6. ASSUME NEW l \in {"stop_rd", "start_rd"}, Goto(t, l), UNCHANGED frame, TimerOwn(t)',
             ExpiresBy(t)'
      PROVE  TimedInv'
  <2>1. pc'[t] = l
    BY <1>6, GotoThere
  <2>2. SavedBy(t)'
    BY <2>1 DEF SavedBy, Unsaved, Past, SetModePC
  <2>3. QED
    BY <1>1, <1>2, <1>3, <1>6, <2>2, InsideTimed
<1>7. CASE /\ frame[t].mode \in Mode /\ frame[t].mode # "NORMAL" /\ UNCHANGED frame
           /\ frame[t].duration < 0 /\ Goto(t, "stop_rd")
  <2>1. frame[t].ret = "iarm" /\ frame[t].duration \in Int
    BY <1>1 DEF SerialInv, Own, TypeInv, ThreadsType, Frame
  <2>2. t \in Workers
    BY <1>1, <1>4, <1>7, <2>1 DEF TimerOwn
  <2>3. pc'[t] = "stop_rd" /\ Granting(t)'
    BY <1>7, <2>2, GotoThere DEF Granting
  <2>4. TimerOwn(t)' /\ ExpiresBy(t)'
    BY <1>7, <2>1, <2>3 DEF TimerOwn, ExpiresBy, OnTheWay, BeforeIarm, Stopping
  <2>5. QED
    BY <1>6, <1>7, <2>4
<1>8. CASE ~(frame[t].duration < 0) /\ Goto(t, "start_rd") /\ UNCHANGED frame
  <2>1. frame[t].duration >= 0
    BY <1>8 DEF TypeInv, ThreadsType, Frame
  <2>2. pc'[t] = "start_rd"
    BY <1>8, GotoThere
  <2>3. TimerOwn(t)' /\ ExpiresBy(t)'
    BY <1>8, <2>1, <2>2 DEF TimerOwn, ExpiresBy, OnTheWay, Stopping
  <2>4. QED
    BY <1>6, <1>8, <2>3
<1>9. CASE m_currentMode' = "NORMAL" /\ Goto(t, "stop_rd") /\ UNCHANGED frame
  <2>1. pc'[t] = "stop_rd"
    BY <1>9, GotoThere
  <2>2. TimerOwn(t)' /\ ExpiresBy(t)'
    BY <1>9, <2>1 DEF TimerOwn, ExpiresBy, Temporary
  <2>3. QED
    BY <1>6, <1>9, <2>2
<1>10. QED
  BY <1>5, <1>7, <1>8, <1>9 DEF Decide

LEMMA SetModeStepTimed ==
  ASSUME TypeInv, SerialInv, TimedInv, NEW t \in Threads, SetModeStep(t) PROVE TimedInv'
  BY DecideTimed, StartDurationTimed, TimerStartTimed, StartSaveTimed, StopDurationTimed,
     TimerStopTimed, StopSaveTimed, IarmCallTimed, FailModeTimed, FileCheckTimed,
     FileWriteTimed, SaveModeTimed, SetModeReturnsTimed, Zenon DEF SetModeStep

\* A thread outside moves outside; another one may be inside.
LEMMA OutsideTimed ==
  ASSUME TypeInv, TimedInv, NEW t \in Threads, NEW l, Goto(t, l),
         pc[t] \notin Inside, l \notin Inside, InactiveOK',
         UNCHANGED <<m_currentMode, m_remainingDuration, frame, disk>>,
         cycles' = 0 /\ Temporary' => cycles = 0 /\ Temporary /\ (Running => Running')
  PROVE  TimedInv'
<1>1. pc' = [pc EXCEPT ![t] = l] /\ pc \in [Threads -> Places]
  BY DEF Goto, TypeInv, ThreadsType
<1>2. pc'[t] = l /\ \A s \in Threads \ {t} : pc'[s] = pc[s]
  BY <1>1
<1>3. TimesOK'
  BY DEF TimedInv, TimesOK, disk
<1>4. \A s \in Threads : TimerOwn(s)'
  <2>1. TAKE s \in Threads
  <2>2. CASE s = t
    BY <1>2, <2>2, OutsideTimerNext
  <2>3. CASE s # t
    <3>1. pc'[s] = pc[s] /\ TimerOwn(s)
      BY <1>2, <2>3 DEF TimedInv
    <3>2. QED
      BY <3>1 DEF TimerOwn, AfterFailure, Granting
  <2>4. QED
    BY <2>2, <2>3
<1>5. \A s \in Threads : (Unsaved(s) => Unsaved(s)') /\ (OnTheWay(s) => OnTheWay(s)')
  <2>1. TAKE s \in Threads
  <2>2. CASE s = t
    BY <2>2, TimedInside
  <2>3. CASE s # t
    <3>1. pc'[s] = pc[s] /\ UNCHANGED frame
      BY <1>2, <2>3
    <3>2. Unsaved(s)' <=> Unsaved(s)
      BY <3>1 DEF Unsaved
    <3>3. OnTheWay(s) => OnTheWay(s)'
      BY <3>1 DEF OnTheWay, AfterFailure, BeforeIarm, AfterIarm, Granting
    <3>4. QED
      BY <3>2, <3>3
  <2>4. QED
    BY <2>2, <2>3
<1>6. Saved'
  BY <1>5 DEF TimedInv, Saved, disk
<1>7. Expires'
  BY <1>5 DEF TimedInv, Expires
<1>8. QED
  BY <1>3, <1>4, <1>6, <1>7 DEF TimedInv

\* A call starts where no other thread is inside.
LEMMA EnterTimed ==
  ASSUME TypeInv, TimedInv, NEW t \in Threads, NEW mode, NEW d, EnterSetMode(t, mode, d),
         \A s \in Threads \ {t} : pc[s] \notin Inside,
         t \notin Workers => mode = "NORMAL" \/ d >= 0,
         m_currentMode = "" \/ temp.duration = m_remainingDuration \/ t \in Tids,
         mode \in Mode \/ (cycles = 0 /\ Temporary' => Running'),
         UNCHANGED <<m_currentMode, m_remainingDuration, disk, cycles>>
  PROVE  TimedInv'
<1>1. pc' = [pc EXCEPT ![t] = "decide"] /\ pc \in [Threads -> Places] /\ Main \in Threads
  BY ThreadsOf DEF EnterSetMode, Goto, TypeInv, ThreadsType
<1>2. pc'[t] = "decide" /\ \A s \in Threads \ {t} : pc'[s] \notin Inside
  BY <1>1
<1>3. frame'[t].mode = mode /\ frame'[t].duration = d
  BY DEF EnterSetMode, TypeInv, ThreadsType, Frame
<1>4. TimesOK' /\ InactiveOK'
  BY <1>1 DEF TimedInv, TimesOK, InactiveOK, disk
<1>5. TimerOwn(t)'
  BY <1>2, <1>3 DEF TimerOwn, Stopping
<1>6. SavedBy(t)'
  BY <1>2 DEF SavedBy, Unsaved, disk
<1>7. ExpiresBy(t)'
  BY <1>2, <1>3 DEF ExpiresBy, OnTheWay
<1>8. QED
  BY <1>2, <1>4, <1>5, <1>6, <1>7, AloneTimedNext

LEMMA TimerLoopTimed ==
  ASSUME Serial, TypeInv, SerialInv, TimedInv, NEW t \in Tids, TimerLoop(t) PROVE TimedInv'
<1>1. pc[t] \in {"top", "sleep"} /\ UNCHANGED <<memory, frame, disk, promise, bounds>>
  BY DEF TimerLoop
<1>2. t \in Threads /\ t # Main /\ Main \in Threads /\ pc[t] \notin Inside
  BY <1>1, ThreadsOf, OperatingModeAssumption DEF Inside, SetModePC, Ticking
<1>3. /\ UNCHANGED <<m_currentMode, m_remainingDuration, clear, cycles>>
      /\ Temporary' <=> Temporary
  BY <1>1 DEF memory, bounds, Temporary
<1>4. ASSUME NEW l, Goto(t, l)
      PROVE  InactiveOK'
  BY <1>2, <1>3, <1>4 DEF Goto, TypeInv, ThreadsType, TimedInv, InactiveOK
<1>5. CASE clear /\ Goto(t, "ended")
  <2>1. "ended" \notin Inside /\ ~Running
    BY <1>5 DEF Inside, SetModePC, Ticking, Running
  <2>2. QED
    BY <1>1, <1>2, <1>3, <1>4, <1>5, <2>1, OutsideTimed
<1>6. CASE Goto(t, "sleep")
  <2>1. "sleep" \notin Inside /\ "sleep" \in RunningPC
    BY DEF Inside, SetModePC, Ticking, RunningPC
  <2>2. Running => Running'
    BY <1>2, <1>3, <1>6, <2>1, RunningStays
  <2>3. QED
    BY <1>1, <1>2, <1>3, <1>4, <1>6, <2>1, <2>2, OutsideTimed
<1>7. CASE Goto(t, "tick") /\ pc[t] = "sleep"
  <2>1. \A s \in Threads : pc[s] \notin Inside
    BY <1>7 DEF TimerLoop, At, Undisturbed, Inside
  <2>2. pc' = [pc EXCEPT ![t] = "tick"] /\ pc \in [Threads -> Places]
    BY <1>7 DEF Goto, TypeInv, ThreadsType
  <2>3. pc'[t] = "tick" /\ \A s \in Threads \ {t} : pc'[s] \notin Inside
    BY <1>2, <2>1, <2>2
  <2>4. TimesOK'
    BY <1>1, <1>3 DEF TimedInv, TimesOK, disk
  <2>5. TimerOwn(t)' /\ SavedBy(t)'
    BY <2>3 DEF TimerOwn, Stopping, SavedBy, Unsaved, Ticking
  <2>6. Running => Running'
    BY <1>2, <1>3, <1>7, RunningStays DEF RunningPC
  <2>7. ExpiresBy(t)'
    BY <1>3, <2>1, <2>6, QuietTimed DEF ExpiresBy
  <2>8. QED
    BY <1>2, <1>4, <1>7, <2>3, <2>4, <2>5, <2>7, AloneTimedNext
<1>8. QED
  BY <1>1, <1>5, <1>6, <1>7 DEF TimerLoop, At

LEMMA TickTimed ==
  ASSUME TypeInv, SerialInv, TimedInv, NEW t \in Threads, Tick(t) PROVE TimedInv'
<1>1. pc[t] = "tick" /\ pc[t] \in Inside
  BY DEF Tick, At, Inside, Ticking
<1>2. UNCHANGED <<m_currentMode, m_remainingDuration, disk, promise, cycles>>
  BY DEF Tick, bounds
<1>3. TimesOK'
  BY <1>2 DEF TimedInv, TimesOK, disk
<1>4. Temporary' <=> Temporary
  BY <1>2 DEF Temporary
<1>5. CASE m_remainingDuration > 0
  <2>1. /\ Goto(t, "tick_dec") /\ UNCHANGED clear
        /\ frame' = [frame EXCEPT ![t].load = m_remainingDuration]
    BY <1>5 DEF Tick
  <2>2. pc'[t] = "tick_dec" /\ pc'[t] \in Ticking
    BY <2>1, GotoThere DEF Ticking
  <2>3. frame'[t].load = m_remainingDuration
    BY <2>1 DEF TypeInv, ThreadsType, Frame
  <2>4. TimerOwn(t)'
    BY <1>2, <1>5, <2>2, <2>3 DEF TimerOwn, Stopping
  <2>5. SavedBy(t)'
    BY <2>2 DEF SavedBy, Unsaved
  <2>6. ~OnTheWay(t)
    BY <1>1 DEF OnTheWay, AfterFailure, BeforeIarm, Stopping, AfterIarm
  <2>7. ExpiresBy(t)'
    BY <1>1, <1>2, <1>4, <2>1, <2>6, KeepsExpiry DEF RunningPC
  <2>8. QED
    BY <1>1, <1>2, <1>3, <2>1, <2>4, <2>5, <2>7, InsideTimed
<1>6. CASE ~(m_remainingDuration > 0)
  <2>1. Goto(t, "tick_detach") /\ pc'[t] = "tick_detach"
    BY <1>6, GotoThere DEF Tick
  <2>2. TimerOwn(t)' /\ SavedBy(t)' /\ ExpiresBy(t)'
    BY <2>1 DEF TimerOwn, Stopping, SavedBy, Unsaved, Ticking, ExpiresBy, OnTheWay
  <2>3. QED
    BY <1>1, <1>2, <1>3, <2>1, <2>2, InsideTimed
<1>7. QED
  BY <1>5, <1>6

LEMMA TickDecrementTimed ==
  ASSUME TypeInv, SerialInv, TimedInv, NEW t \in Threads, TickDecrement(t) PROVE TimedInv'
<1>1. pc[t] = "tick_dec" /\ pc[t] \in Inside
  BY DEF TickDecrement, At, Inside, Ticking
<1>2. Goto(t, "tick_save") /\ pc'[t] = "tick_save" /\ "tick_save" \in RunningPC
  BY GotoThere DEF TickDecrement, RunningPC
<1>3. UNCHANGED <<m_currentMode, clear, disk, promise, cycles>>
  BY DEF TickDecrement, bounds
<1>4. TimesOK'
  <2>1. frame[t].load = m_remainingDuration /\ m_remainingDuration > 0 /\ temp.duration >= 0
    BY <1>1, AloneTimed DEF TimerOwn, TimesOK
  <2>2. m_remainingDuration \in Int /\ m_remainingDuration' = m_remainingDuration - 1
    BY <2>1 DEF TickDecrement, TypeInv, MemoryType
  <2>3. QED
    BY <1>3, <2>1, <2>2 DEF TimesOK, disk
<1>5. TimerOwn(t)' /\ SavedBy(t)'
  BY <1>2 DEF TimerOwn, Stopping, SavedBy, Unsaved, Ticking
<1>6. ~OnTheWay(t)
  BY <1>1 DEF OnTheWay, AfterFailure, BeforeIarm, Stopping, AfterIarm
<1>7. Temporary' => Temporary
  BY <1>3 DEF Temporary
<1>8. ExpiresBy(t)'
  BY <1>1, <1>2, <1>3, <1>6, <1>7, KeepsExpiry
<1>9. QED
  BY <1>1, <1>2, <1>3, <1>4, <1>5, <1>8, InsideTimed

LEMMA TickSaveTimed ==
  ASSUME TypeInv, SerialInv, TimedInv, NEW t \in Threads, TickSave(t) PROVE TimedInv'
<1>1. pc[t] = "tick_save" /\ pc[t] \in Inside
  BY DEF TickSave, SaveDuration, At, Inside, Ticking
<1>2. Goto(t, "top") /\ pc'[t] = "top" /\ "top" \in RunningPC
  BY GotoThere DEF TickSave, SaveDuration, RunningPC
<1>3. /\ UNCHANGED <<memory, promise, bounds>>
      /\ temp' = [temp EXCEPT !.duration = m_remainingDuration]
  BY DEF TickSave, SaveDuration
<1>4. UNCHANGED <<clear, cycles>> /\ (Temporary' => Temporary)
  BY <1>3 DEF memory, bounds, Temporary
<1>5. TimesOK' /\ temp'.duration = m_remainingDuration'
  BY <1>3, SaveTimes DEF TimedInv
<1>6. TimerOwn(t)' /\ SavedBy(t)'
  BY <1>2, <1>5 DEF TimerOwn, Stopping, SavedBy
<1>7. ~OnTheWay(t)
  BY <1>1 DEF OnTheWay, AfterFailure, BeforeIarm, Stopping, AfterIarm
<1>8. ExpiresBy(t)'
  BY <1>1, <1>2, <1>4, <1>7, KeepsExpiry
<1>9. QED
  BY <1>1, <1>2, <1>4, <1>5, <1>6, <1>8, InsideTimed

LEMMA TickDetachTimed ==
  ASSUME TypeInv, SerialInv, TimedInv, NEW t \in Tids, TickDetach(t) PROVE TimedInv'
<1>1. t \in Threads /\ t \notin Workers /\ pc[t] = "tick_detach" /\ pc[t] \in Inside
  BY ThreadsOf, OperatingModeAssumption DEF TickDetach, At, Inside, Ticking
<1>2. CASE Terminate
  BY <1>2, DeathTimed DEF Terminate, ProcessDies
<1>3. CASE ~Terminate
  <2>1. UNCHANGED <<m_currentMode, m_remainingDuration, clear, disk, cycles>>
    BY <1>3 DEF TickDetach, bounds
  <2>2. CASE pc[Main] = "inactive" /\ Goto(t, "tick_save")
    <3>1. pc'[t] = "tick_save"
      BY <1>1, <2>2, GotoThere
    <3>2. cycles # 0
      BY <2>2 DEF TimedInv, InactiveOK
    <3>3. TimesOK'
      BY <2>1 DEF TimedInv, TimesOK, disk
    <3>4. TimerOwn(t)' /\ SavedBy(t)' /\ ExpiresBy(t)'
      BY <2>1, <3>1, <3>2 DEF TimerOwn, Stopping, SavedBy, Unsaved, Ticking, ExpiresBy
    <3>5. QED
      BY <1>1, <2>1, <2>2, <3>3, <3>4, InsideTimed
  <2>3. CASE EnterSetMode(t, "NORMAL", 0)
    <3>1. \A s \in Threads \ {t} : pc[s] \notin Inside
      BY <1>1, AloneFacts
    <3>2. QED
      BY <1>1, <2>1, <2>3, <3>1, EnterTimed DEF Mode
  <2>4. QED
    BY <1>3, <2>2, <2>3 DEF TickDetach
<1>4. QED
  BY <1>2, <1>3

LEMMA ConfigureTimed == ASSUME TypeInv, SerialInv, TimedInv, Configure PROVE TimedInv'
<1>1. Main \in Threads /\ pc[Main] = "configure" /\ pc[Main] \notin Inside
  BY ThreadsOf DEF Configure, At, Inside, SetModePC, Ticking
<1>2. UNCHANGED <<memory, disk, promise, bounds>>
  BY DEF Configure
<1>3. UNCHANGED <<m_currentMode, m_remainingDuration, clear, disk, promise, cycles>>
  BY <1>2 DEF memory, bounds
<1>4. Temporary' <=> Temporary
  BY <1>3 DEF Temporary
<1>5. CASE Goto(Main, "active") /\ UNCHANGED frame
  <2>1. "active" \notin Inside /\ pc'[Main] = "active"
    BY <1>1, <1>5, GotoThere DEF Inside, SetModePC, Ticking
  <2>2. InactiveOK'
    BY <2>1 DEF InactiveOK
  <2>3. pc[Main] \notin RunningPC
    BY <1>1 DEF RunningPC
  <2>4. Running => Running'
    BY <1>1, <1>3, <1>5, <2>3, RunningStays
  <2>5. QED
    BY <1>1, <1>3, <1>4, <1>5, <2>1, <2>2, <2>4, OutsideTimed
<1>6. CASE m_currentMode = ""
  <2>1. \A s \in Threads \ {Main} : pc[s] \notin Inside
    BY <1>6 DEF SerialInv, FreshOK, Inside, SetModePC, Ticking
  <2>2. CASE EnterSetMode(Main, "NORMAL", -1)
    BY <1>1, <1>3, <1>6, <2>1, <2>2, EnterTimed DEF Mode
  <2>3. CASE temp.mode # "" /\ EnterSetMode(Main, temp.mode, temp.duration)
    <3>1. temp.mode \in Mode
      BY <2>3 DEF TypeInv, DiskType
    <3>2. temp.duration >= 0
      BY DEF TimedInv, TimesOK
    <3>3. QED
      BY <1>1, <1>3, <1>6, <2>1, <2>3, <3>1, <3>2, EnterTimed
  <2>4. QED
    BY <1>6, <2>2, <2>3 DEF Configure
<1>7. QED
  BY <1>5, <1>6 DEF Configure

LEMMA ActivateTimed == ASSUME TypeInv, SerialInv, TimedInv, Activate PROVE TimedInv'
<1>1. Main \in Threads /\ pc[Main] \in {"inactive", "down"}
  BY ThreadsOf DEF Activate
<1>2. pc[Main] \notin Inside /\ pc[Main] \notin RunningPC /\ "configure" \notin Inside
  BY <1>1 DEF Inside, SetModePC, Ticking, RunningPC
<1>3. Goto(Main, "configure") /\ pc'[Main] = "configure"
  BY <1>1, GotoThere DEF Activate
<1>4. UNCHANGED <<memory, frame, disk, promise, bounds>>
  BY DEF Activate
<1>5. UNCHANGED <<m_currentMode, m_remainingDuration, clear, cycles>> /\ (Temporary' <=> Temporary)
  BY <1>4 DEF memory, bounds, Temporary
<1>6. InactiveOK'
  BY <1>3 DEF InactiveOK
<1>7. Running => Running'
  BY <1>1, <1>2, <1>3, <1>5, RunningStays
<1>8. QED
  BY <1>1, <1>2, <1>3, <1>4, <1>5, <1>6, <1>7, OutsideTimed

LEMMA DeactivateTimed == ASSUME TypeInv, SerialInv, TimedInv, Deactivate PROVE TimedInv'
<1>1. Main \in Threads /\ pc[Main] \notin Inside /\ "inactive" \notin Inside
  BY ThreadsOf DEF Deactivate, At, Inside, SetModePC, Ticking
<1>2. cycles' # 0
  BY OperatingModeAssumption DEF Deactivate, TypeInv, BoundsType
<1>3. InactiveOK'
  BY <1>2 DEF InactiveOK
<1>4. Goto(Main, "inactive") /\ UNCHANGED <<m_currentMode, m_remainingDuration, frame, disk>>
  BY DEF Deactivate
<1>5. QED
  BY <1>1, <1>2, <1>3, <1>4, OutsideTimed

LEMMA CallSetModeTimed ==
  ASSUME Serial, TypeInv, SerialInv, TimedInv, NEW w \in Workers, NEW m, NEW d,
         CallSetMode(w, m, d)
  PROVE  TimedInv'
<1>1. w \in Threads /\ pc[w] = "idle" /\ EnterSetMode(w, m, d)
  BY ThreadsOf DEF CallSetMode, At
<1>2. UNCHANGED <<m_currentMode, m_remainingDuration, clear, disk, cycles>>
  BY DEF CallSetMode, memory
<1>3. \A s \in Threads : pc[s] \notin Inside
  BY DEF CallSetMode, Undisturbed, Inside
<1>4. m_currentMode = "" \/ temp.duration = m_remainingDuration
  BY <1>3, QuietTimed
<1>5. CASE m \in Mode
  BY <1>1, <1>2, <1>3, <1>4, <1>5, EnterTimed
<1>6. CASE m \notin Mode
  <2>1. Temporary' => Temporary
    BY <1>2, <1>6 DEF CallSetMode, Temporary
  <2>2. Goto(w, "decide") /\ pc[w] \notin RunningPC
    BY <1>1 DEF EnterSetMode, RunningPC
  <2>3. Running => Running'
    BY <1>1, <1>2, <2>2, RunningStays
  <2>4. cycles = 0 /\ Temporary' => Running'
    BY <1>3, <2>1, <2>3, QuietTimed
  <2>5. QED
    BY <1>1, <1>2, <1>3, <1>4, <2>4, EnterTimed
<1>7. QED
  BY <1>5, <1>6

LEMMA NextTimed ==
  ASSUME Serial PROVE TypeInv /\ SerialInv /\ TimedInv /\ [Next]_vars => TimedInv'
<1> SUFFICES ASSUME TypeInv, SerialInv, TimedInv, [Next]_vars PROVE TimedInv'
  OBVIOUS
<1>1. CASE \E t \in Threads : SetModeStep(t)
  BY <1>1, SetModeStepTimed
<1>2. ASSUME NEW t \in Tids, TimerStep(t)
      PROVE  TimedInv'
  <2>1. t \in Threads
    BY ThreadsOf
  <2>2. QED
    BY <1>2, <2>1, TimerLoopTimed, TickTimed, TickDecrementTimed, TickDetachTimed,
       TickSaveTimed DEF TimerStep
<1>3. CASE Configure \/ Activate \/ Deactivate
  BY <1>3, ConfigureTimed, ActivateTimed, DeactivateTimed
<1>4. CASE Crash
  BY <1>4, DeathTimed DEF Crash
<1>5. CASE \E w \in Workers, m \in Mode \union {"invalid"}, d \in Durations : CallSetMode(w, m, d)
  BY <1>5, CallSetModeTimed
<1>6. CASE UNCHANGED vars
  <2>1. UNCHANGED <<memory, pc, frame, disk, promise, bounds>>
    BY <1>6 DEF vars
  <2>2. UNCHANGED <<m_currentMode, m_remainingDuration, clear, cycles>>
    BY <2>1 DEF memory, bounds
  <2>3. TimesOK' /\ InactiveOK'
    BY <2>1, <2>2 DEF TimedInv, TimesOK, InactiveOK, disk
  <2>4. \A t \in Threads : TimerOwn(t)'
    BY <2>1, <2>2 DEF TimedInv, TimerOwn, AfterFailure, Granting
  <2>5. Saved'
    BY <2>1, <2>2 DEF TimedInv, Saved, Unsaved, disk
  <2>6. Expires'
    BY <2>1, <2>2 DEF TimedInv, Expires, Temporary, Running, OnTheWay, AfterFailure, BeforeIarm,
       Granting
  <2>7. QED
    BY <2>3, <2>4, <2>5, <2>6 DEF TimedInv
<1>7. QED
  BY <1>1, <1>2, <1>3, <1>4, <1>5, <1>6 DEF Next

\* Where calls and ticks do not overlap, whatever IARM refuses and however
\* often the process crashes and restores the mode from its file: as long as
\* the plugin was not deactivated, a special mode that no client was granted
\* for good has, once no call is in progress, a timer thread that runs and was
\* not told to stop, and the file has the time that is left.
THEOREM SerialTimedModeIsTimed == ASSUME Serial PROVE Spec => []TimedModeIsTimed
<1>1. Init => SerialInv
  BY FreshSerial DEF Init
<1>2. TypeInv /\ SerialInv /\ TimedInv => TimedModeIsTimed
  BY SettledTimed
<1>3. QED
  BY <1>1, <1>2, InitTypeInv, InitTimed, NextTypeInv, NextSerial, NextTimed, PTL DEF Spec

=============================================================================
