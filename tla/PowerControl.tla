---------------------------- MODULE PowerControl ----------------------------
(***************************************************************************)
(* Requests that go on to PowerManager, and its notifications: the power   *)
(* state with the reason of a standby, the state before the reboot and its *)
(* cache, the wake-up settings, the reboot and the thermal level.          *)
(***************************************************************************)
EXTENDS Requests, Sequences

CONSTANTS
  Reasons,        \* standby reasons, "application" among them
  Seconds,        \* deep sleep times that clients ask for
  WakeupSources   \* sources a client may name, "unknown" among them

ASSUME PowerControlAssumption == Seconds \subseteq Int /\ "application" \in Reasons

VARIABLES
  pmPower, pmThermal,        \* the states PowerManager is in
  pmBeforeReboot,            \* the state it had when the device went down
  pmTimer, pmWakeup,         \* its deep sleep time and wake-up sources
  pmReboots,                 \* it was asked to reboot
  notices,                   \* notifications on their way, oldest first
  standbyReason,             \* the file with the reason, "none" when it is empty
  m_current_state,
  m_powerStateBeforeReboot, m_powerStateBeforeRebootValid,
  beforeRebootAnswer,        \* the last answer with success
  powerTold, thermalTold, rebootTold,   \* the last event of each kind
  lastReason                 \* history: the reason of the last sleep taken

pmVars == <<pmPower, pmThermal, pmBeforeReboot, pmTimer, pmWakeup, pmReboots, notices>>
reasonVars == <<standbyReason, m_current_state, lastReason>>
cacheVars == <<m_powerStateBeforeReboot, m_powerStateBeforeRebootValid, beforeRebootAnswer>>
toldVars == <<powerTold, thermalTold, rebootTold>>
powerVars == <<pmVars, reasonVars, cacheVars, toldVars>>
vars == <<requests, powerVars>>

Power == {"on", "off", "standby", "lightSleep", "deepSleep"}
Thermal == {"normal", "high", "critical"}

\* The names that events and the state before the reboot have for the states.
powerModeEnumToString(state) ==
  CASE state = "on" -> "ON"
    [] state = "off" -> "OFF"
    [] state \in {"standby", "lightSleep"} -> "LIGHT_SLEEP"
    [] state = "deepSleep" -> "DEEP_SLEEP"

\* GetPowerState has one name for all the states of standby.
GetPowerState ==
  CASE pmPower = "on" -> "ON"
    [] pmPower \in {"standby", "lightSleep", "deepSleep"} -> "STANDBY"
    [] OTHER -> "UNKNOWN"

NothingTold == [level |-> "none", exceeded |-> FALSE]

PowerInit ==
  /\ RequestsInit
  /\ pmPower = "on" /\ pmThermal = "normal"
  /\ pmBeforeReboot \in IF left["beforeReboot"] = 0 THEN {"on"} ELSE Power
  /\ pmTimer = 0 /\ pmWakeup = {} /\ pmReboots = FALSE
  /\ notices = <<>>
  /\ standbyReason = "none" /\ m_current_state = "none" /\ lastReason = "none"
  /\ m_powerStateBeforeReboot = "empty" /\ m_powerStateBeforeRebootValid = FALSE
  /\ beforeRebootAnswer = "none"
  /\ powerTold = "none" /\ thermalTold = NothingTold /\ rebootTold = FALSE

-----------------------------------------------------------------------------
(* PowerManager, as the plugin sees it.                                    *)

Change(state) ==
  /\ pmPower' = state
  /\ notices' = IF state = pmPower THEN notices
                ELSE Append(notices, [kind |-> "power", old |-> pmPower, new |-> state])

\* A key or another client changes the power state; the device warms up or
\* cools down.
PowerManagerChanges ==
  /\ left["changes"] > 0
  /\ left' = [left EXCEPT !["changes"] = @ - 1]
  /\ \/ \E state \in Power : Change(state) /\ UNCHANGED pmThermal
     \/ \E level \in Thermal :
          /\ pmThermal' = level
          /\ notices' = Append(notices, [kind |-> "thermal", old |-> pmThermal, new |-> level])
          /\ UNCHANGED pmPower
  /\ UNCHANGED <<pc, local, spoiled, pmBeforeReboot, pmTimer, pmWakeup, pmReboots,
                 reasonVars, cacheVars, toldVars>>

-----------------------------------------------------------------------------
(* SetPowerState.                                                          *)

\* The state PowerManager is asked for: a sleep is a deep one when the
\* preferred sleep mode is; LIGHT_SLEEP is plain standby.
setPowerStateConversion(asked, preferred) ==
  CASE asked = "ON" -> "on"
    [] asked = "STANDBY" -> "standby"
    [] asked = "DEEP_SLEEP" -> "deepSleep"
    [] asked = "LIGHT_SLEEP" -> IF preferred = "DEEP_SLEEP" THEN "deepSleep" ELSE "standby"

Sleeps == {"LIGHT_SLEEP", "DEEP_SLEEP"}

\* The reason defaults to "application", and counts for a sleep only.
SetPowerState(w, asked, reason) ==
  /\ \E preferred \in Sleeps :
       Start(w, "callPower",
         [part |-> "power", asked |-> asked,
          reason |-> IF reason = "none" THEN "application" ELSE reason,
          state |-> setPowerStateConversion(asked, preferred)])
  /\ Overlaps("power")
  /\ UNCHANGED powerVars

\* A state by another name is not asked for, and is taken for the current one
\* all the same.
SetUnknownState(w) ==
  /\ Start(w, "setCurrent",
       [part |-> "power", asked |-> "other", reason |-> "application", state |-> "off"])
  /\ Overlaps("power")
  /\ UNCHANGED powerVars

\* An empty state is an error at once.
SetNoState(w) == Instant(w, "power") /\ UNCHANGED <<spoiled, powerVars>>

\* Mutant: the reason is left out of a sleep that PowerManager was in already.
CallPowerOnce(w) ==
  /\ pc[w] = "callPower"
  /\ Change(local[w].state)
  /\ Step(w, IF local[w].asked \in Sleeps /\ pmPower # local[w].state
             THEN "openReason" ELSE "setCurrent", local[w])
  /\ lastReason' = IF local[w].asked \in Sleeps THEN local[w].reason ELSE lastReason
  /\ UNCHANGED <<spoiled, pmThermal, pmBeforeReboot, pmTimer, pmWakeup, pmReboots,
                 standbyReason, m_current_state, cacheVars, toldVars>>

\* PowerManager takes the state, or fails; the reason is written either way.
CallPower(w) ==
  /\ pc[w] = "callPower"
  /\ \/ /\ Change(local[w].state)
        /\ lastReason' = IF local[w].asked \in Sleeps THEN local[w].reason ELSE lastReason
        /\ UNCHANGED spoiled
     \/ /\ Spoil("power", "failure")
        /\ UNCHANGED <<pmPower, notices, lastReason>>
  /\ Step(w, IF local[w].asked \in Sleeps THEN "openReason" ELSE "setCurrent", local[w])
  /\ UNCHANGED <<pmThermal, pmBeforeReboot, pmTimer, pmWakeup, pmReboots,
                 standbyReason, m_current_state, cacheVars, toldVars>>

\* The file is emptied, or cannot be opened.
OpenReason(w) ==
  /\ pc[w] = "openReason"
  /\ \/ standbyReason' = "none" /\ Step(w, "writeReason", local[w]) /\ UNCHANGED spoiled
     \/ UNCHANGED standbyReason /\ Step(w, "setCurrent", local[w]) /\ Spoil("power", "failure")
  /\ UNCHANGED <<pmVars, m_current_state, lastReason, cacheVars, toldVars>>

WriteReason(w) ==
  /\ pc[w] = "writeReason"
  /\ \/ standbyReason' = local[w].reason /\ UNCHANGED spoiled
     \/ UNCHANGED standbyReason /\ Spoil("power", "failure")
  /\ Step(w, "setCurrent", local[w])
  /\ UNCHANGED <<pmVars, m_current_state, lastReason, cacheVars, toldVars>>

\* m_current_state is what was asked for, whatever became of it.
SetCurrent(w) ==
  /\ pc[w] = "setCurrent"
  /\ m_current_state' = local[w].asked
  /\ Finish(w)
  /\ UNCHANGED <<spoiled, pmVars, standbyReason, lastReason, cacheVars, toldVars>>

-----------------------------------------------------------------------------
(* GetPowerStateBeforeReboot.                                              *)

\* A valid cache answers; else PowerManager does, or fails.
GetPowerStateBeforeReboot(w) ==
  \/ /\ m_powerStateBeforeRebootValid
     /\ Instant(w, "beforeReboot")
     /\ beforeRebootAnswer' = m_powerStateBeforeReboot
     /\ UNCHANGED <<spoiled, pmVars, reasonVars, toldVars, m_powerStateBeforeReboot,
                    m_powerStateBeforeRebootValid>>
  \/ /\ ~m_powerStateBeforeRebootValid
     /\ Start(w, "cacheState", [part |-> "beforeReboot"])
     /\ beforeRebootAnswer' = powerModeEnumToString(pmBeforeReboot)
     /\ UNCHANGED <<spoiled, pmVars, reasonVars, toldVars, m_powerStateBeforeReboot,
                    m_powerStateBeforeRebootValid>>

\* Mutant: the cache is declared valid before it is filled.
CacheValidFirst(w) ==
  /\ pc[w] \in {"cacheState", "cacheValid"}
  /\ IF pc[w] = "cacheState"
     THEN /\ m_powerStateBeforeRebootValid' = TRUE /\ Step(w, "cacheValid", local[w])
          /\ UNCHANGED m_powerStateBeforeReboot
     ELSE /\ m_powerStateBeforeReboot' = powerModeEnumToString(pmBeforeReboot) /\ Finish(w)
          /\ UNCHANGED m_powerStateBeforeRebootValid
  /\ UNCHANGED <<spoiled, pmVars, reasonVars, toldVars, beforeRebootAnswer>>

\* The name is stored first and declared valid then.
CacheState(w) ==
  /\ pc[w] \in {"cacheState", "cacheValid"}
  /\ IF pc[w] = "cacheState"
     THEN /\ m_powerStateBeforeReboot' = powerModeEnumToString(pmBeforeReboot)
          /\ Step(w, "cacheValid", local[w])
          /\ UNCHANGED m_powerStateBeforeRebootValid
     ELSE /\ m_powerStateBeforeRebootValid' = TRUE /\ Finish(w)
          /\ UNCHANGED m_powerStateBeforeReboot
  /\ UNCHANGED <<spoiled, pmVars, reasonVars, toldVars, beforeRebootAnswer>>

-----------------------------------------------------------------------------
(* Wake-up and reboot: one call of PowerManager each.                      *)

\* Mutant: the limit is not a limit.
TimeoutUnclamped(seconds) == IF seconds < 0 THEN 0 ELSE seconds

\* A time that is negative or longer than ten days becomes 0.
timeoutValue(seconds) == IF seconds < 0 \/ seconds > 864000 THEN 0 ELSE seconds

SetDeepSleepTimer(w, seconds) ==
  /\ seconds # 0
  /\ Instant(w, "wakeup")
  /\ pmTimer' \in {timeoutValue(seconds), pmTimer}
  /\ UNCHANGED <<spoiled, pmPower, pmThermal, pmBeforeReboot, pmWakeup, pmReboots, notices,
                 reasonVars, cacheVars, toldVars>>

\* Unknown sources are left out; none at all is an error.
SetWakeupSrcConfiguration(w, sources) ==
  /\ sources \ {"unknown"} # {}
  /\ Instant(w, "wakeup")
  /\ pmWakeup' \in {sources \ {"unknown"}, pmWakeup}
  /\ UNCHANGED <<spoiled, pmPower, pmThermal, pmBeforeReboot, pmTimer, pmReboots, notices,
                 reasonVars, cacheVars, toldVars>>

\* Netflix is killed and waited for, then PowerManager is asked, which announces
\* a reboot or refuses it.
Reboot(w) ==
  /\ Instant(w, "wakeup")
  /\ \/ /\ pmReboots' = TRUE
        /\ notices' = Append(notices, [kind |-> "reboot", old |-> "none", new |-> "none"])
     \/ UNCHANGED <<pmReboots, notices>>
  /\ UNCHANGED <<spoiled, pmPower, pmThermal, pmBeforeReboot, pmTimer, pmWakeup,
                 reasonVars, cacheVars, toldVars>>

-----------------------------------------------------------------------------
(* Notifications of PowerManager, one after the other.                     *)

Notified(kind) == notices # <<>> /\ Head(notices).kind = kind /\ notices' = Tail(notices)

OnPowerModeChanged ==
  /\ Notified("power")
  /\ powerTold' = powerModeEnumToString(Head(notices).new)
  /\ UNCHANGED <<requests, pmPower, pmThermal, pmBeforeReboot, pmTimer, pmWakeup, pmReboots,
                 reasonVars, cacheVars, thermalTold, rebootTold>>

\* Mutant: a fall from critical to normal is told of the limit it crossed first.
CrossedFirst(old, new) ==
  CASE new = "normal" /\ old = "high" -> [level |-> "WARN", exceeded |-> FALSE]
    [] new = "high" /\ old = "normal" -> [level |-> "WARN", exceeded |-> TRUE]
    [] old = "critical" /\ new # "critical" -> [level |-> "MAX", exceeded |-> FALSE]
    [] new = "critical" /\ old # "critical" -> [level |-> "MAX", exceeded |-> TRUE]
    [] OTHER -> NothingTold

\* The threshold a change is told of; a level that did not change is not.
handleThermalLevelChange(old, new) ==
  CASE new = "normal" /\ old \in {"high", "critical"} -> [level |-> "WARN", exceeded |-> FALSE]
    [] new = "high" /\ old = "normal" -> [level |-> "WARN", exceeded |-> TRUE]
    [] new = "high" /\ old = "critical" -> [level |-> "MAX", exceeded |-> FALSE]
    [] new = "critical" /\ old \in {"high", "normal"} -> [level |-> "MAX", exceeded |-> TRUE]
    [] new = old -> NothingTold

OnThermalModeChanged ==
  /\ Notified("thermal")
  /\ LET event == handleThermalLevelChange(Head(notices).old, Head(notices).new)
     IN thermalTold' = IF event = NothingTold THEN thermalTold ELSE event
  /\ UNCHANGED <<requests, pmPower, pmThermal, pmBeforeReboot, pmTimer, pmWakeup, pmReboots,
                 reasonVars, cacheVars, powerTold, rebootTold>>

OnRebootBegin ==
  /\ Notified("reboot")
  /\ rebootTold' = TRUE
  /\ UNCHANGED <<requests, pmPower, pmThermal, pmBeforeReboot, pmTimer, pmWakeup, pmReboots,
                 reasonVars, cacheVars, powerTold, thermalTold>>

\* The process ends: notifications to it are lost, and its clients start anew.
PowerRestarts ==
  /\ Abandon
  /\ notices' = <<>>
  /\ m_current_state' = "none" /\ m_powerStateBeforeReboot' = "empty"
  /\ m_powerStateBeforeRebootValid' = FALSE
  /\ beforeRebootAnswer' = "none" /\ powerTold' = "none" /\ thermalTold' = NothingTold
  /\ UNCHANGED <<pmPower, pmThermal, pmBeforeReboot, pmTimer, pmWakeup, pmReboots,
                 standbyReason, lastReason, rebootTold>>

PowerStep(w) ==
  \/ CallPower(w) \/ OpenReason(w) \/ WriteReason(w) \/ SetCurrent(w)
  \/ GetPowerStateBeforeReboot(w) \/ CacheState(w) \/ Reboot(w)
  \/ SetUnknownState(w) \/ SetNoState(w)
  \/ \E asked \in Sleeps \cup {"ON", "STANDBY"}, reason \in Reasons \cup {"none"} :
       SetPowerState(w, asked, reason)
  \/ \E seconds \in Seconds : SetDeepSleepTimer(w, seconds)
  \/ \E sources \in SUBSET WakeupSources : SetWakeupSrcConfiguration(w, sources)

PowerNext ==
  \/ PowerManagerChanges \/ PowerRestarts
  \/ OnPowerModeChanged \/ OnThermalModeChanged \/ OnRebootBegin
  \/ \E w \in Workers : PowerStep(w)

PowerSpec == PowerInit /\ [][PowerNext]_vars

-----------------------------------------------------------------------------
(* Properties.                                                             *)

PowerTypeOK ==
  /\ pmPower \in Power /\ pmThermal \in Thermal
  /\ pmTimer \in Nat /\ pmTimer <= 864000 /\ pmWakeup \subseteq WakeupSources \ {"unknown"}
  /\ {standbyReason, lastReason} \subseteq Reasons \cup {"none"}
  /\ m_powerStateBeforeRebootValid \in BOOLEAN

\* After calls of SetPowerState that met nobody and no failure, the file has
\* the reason of the last sleep that PowerManager took.
ReasonOfLastSleep == Undisturbed("power") => standbyReason = lastReason

\* Whoever fills the cache, and whoever answers from it meanwhile, an answer
\* with success is what PowerManager knows (GetPowerStateBeforeReboot).
BeforeRebootAnswered ==
  beforeRebootAnswer \in {"none", powerModeEnumToString(pmBeforeReboot)}

\* When nothing is on its way, the last power event and GetPowerState agree
\* on whether the device is on.
PowerEventsAgree ==
  powerTold # "none" /\ notices = <<>> => ((powerTold = "ON") <=> (GetPowerState = "ON"))

\* A client that knows only the last thermal event knows the level.
LevelTold ==
  IF thermalTold.level = "none" THEN "none"
  ELSE IF thermalTold.level = "WARN" THEN IF thermalTold.exceeded THEN "high" ELSE "normal"
  ELSE IF thermalTold.exceeded THEN "critical" ELSE "high"

LastThermalEventTellsLevel ==
  LevelTold # "none" /\ notices = <<>> => LevelTold = pmThermal

\* When nothing is on its way the last event of each kind tells the truth,
\* whatever states PowerManager went through before.
LastEventsTellTruth == PowerEventsAgree /\ LastThermalEventTellsLevel
=============================================================================
