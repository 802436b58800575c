------------------------ MODULE NetworkStandbyMode -------------------------
(***************************************************************************)
(* The cache of PowerManager's network standby mode: GetNetworkStandbyMode *)
(* answers from it or fills it, SetNetworkStandbyMode invalidates it, and  *)
(* PowerManager's notification overwrites it.  No lock protects it: each   *)
(* read, write and remote call is a step of its own.                       *)
(***************************************************************************)
EXTENDS Naturals, Sequences

CONSTANTS
  Workers,     \* threads that serve requests
  MaxChanges   \* bound on the changes of the mode

ASSUME NetworkStandbyModeAssumption == MaxChanges \in Nat

VARIABLES
  pmMode,                     \* the mode, as PowerManager has it
  notices,                    \* notifications on their way, oldest first
  m_networkStandbyMode,
  m_networkStandbyModeValid,
  pc, nwStandby,              \* where each worker is, and its local value
  notifying,                  \* where the notification thread is
  changes,
  overtaken,                  \* history: workers whose answer a change has overtaken
  writer                      \* history: who stored the cached mode; "late" if overtaken

cache == <<m_networkStandbyMode, m_networkStandbyModeValid>>
powerManager == <<pmMode, notices, changes, overtaken>>
vars == <<cache, powerManager, pc, nwStandby, notifying, writer>>

Mode == {"enabled", "disabled"}

TypeOK ==
  /\ pmMode \in Mode
  /\ notices \in Seq(Mode) /\ Len(notices) <= MaxChanges
  /\ m_networkStandbyMode \in Mode
  /\ m_networkStandbyModeValid \in BOOLEAN
  /\ pc \in [Workers -> {"idle", "ask", "store", "validate", "set", "invalidate"}]
  /\ nwStandby \in [Workers -> Mode]
  /\ notifying \in {"idle", "validate"}
  /\ changes \in 0 .. MaxChanges
  /\ overtaken \subseteq Workers
  /\ writer \in {"nobody", "fill", "late", "notice"}

Init ==
  /\ pmMode \in Mode
  /\ notices = <<>>
  /\ m_networkStandbyMode = "disabled"
  /\ m_networkStandbyModeValid = FALSE
  /\ pc = [w \in Workers |-> "idle"]
  /\ nwStandby = [w \in Workers |-> "disabled"]
  /\ notifying = "idle"
  /\ changes = 0
  /\ overtaken = {}
  /\ writer = "nobody"

Goto(w, l) == pc' = [pc EXCEPT ![w] = l]

Idle == \A w \in Workers : pc[w] = "idle"

\* No change of the mode has still to reach the cache.
Quiet == Idle /\ notices = <<>> /\ notifying = "idle"

-----------------------------------------------------------------------------
(* PowerManager, as the plugin sees it.                                    *)

\* The mode changes, and a notification of it is on its way.  An answer that a
\* worker has and did not store is overtaken.
Change(mode) ==
  /\ changes < MaxChanges
  /\ pmMode' = mode
  /\ notices' = Append(notices, mode)
  /\ changes' = changes + 1
  /\ overtaken' = overtaken \cup {w \in Workers : pc[w] = "store"}

\* Another client of PowerManager changes the mode.
PowerManagerChanges ==
  /\ \E mode \in Mode : Change(mode)
  /\ UNCHANGED <<cache, pc, nwStandby, notifying, writer>>

-----------------------------------------------------------------------------
(* GetNetworkStandbyMode.                                                  *)

\* A valid cache answers, and nothing changes; else PowerManager is asked.
GetNetworkStandbyMode(w) ==
  /\ pc[w] = "idle"
  /\ ~m_networkStandbyModeValid
  /\ Goto(w, "ask")
  /\ UNCHANGED <<cache, powerManager, nwStandby, notifying, writer>>

\* Mutant: what a failed call left in the out-parameter is stored too.
GetAskUnchecked(w) ==
  /\ pc[w] = "ask"
  /\ Goto(w, "store")
  /\ nwStandby' \in {[nwStandby EXCEPT ![w] = v] : v \in {pmMode, "uninitialized"}}
  /\ UNCHANGED <<cache, powerManager, notifying, writer>>

\* The answer is stored, unless PowerManager failed.
GetAsk(w) ==
  /\ pc[w] = "ask"
  /\ \/ Goto(w, "store") /\ nwStandby' = [nwStandby EXCEPT ![w] = pmMode]
     \/ Goto(w, "idle") /\ UNCHANGED nwStandby
  /\ UNCHANGED <<cache, powerManager, notifying, writer>>

GetStore(w) ==
  /\ pc[w] = "store"
  /\ m_networkStandbyMode' = nwStandby[w]
  /\ writer' = IF w \in overtaken THEN "late" ELSE "fill"
  /\ overtaken' = overtaken \ {w}
  /\ Goto(w, "validate")
  /\ UNCHANGED <<m_networkStandbyModeValid, pmMode, notices, changes, nwStandby, notifying>>

GetValidate(w) ==
  /\ pc[w] = "validate"
  /\ m_networkStandbyModeValid' = TRUE
  /\ Goto(w, "idle")
  /\ UNCHANGED <<m_networkStandbyMode, powerManager, nwStandby, notifying, writer>>

-----------------------------------------------------------------------------
(* SetNetworkStandbyMode.                                                  *)

SetNetworkStandbyMode(w, mode) ==
  /\ pc[w] = "idle"
  /\ nwStandby' = [nwStandby EXCEPT ![w] = mode]
  /\ Goto(w, "set")
  /\ UNCHANGED <<cache, powerManager, notifying, writer>>

\* A mode that PowerManager took invalidates the cache; a failure does not.
SetCall(w) ==
  /\ pc[w] = "set"
  /\ \/ Change(nwStandby[w]) /\ Goto(w, "invalidate")
     \/ Goto(w, "idle") /\ UNCHANGED powerManager
  /\ UNCHANGED <<cache, nwStandby, notifying, writer>>

SetInvalidate(w) ==
  /\ pc[w] = "invalidate"
  /\ m_networkStandbyModeValid' = FALSE
  /\ Goto(w, "idle")
  /\ UNCHANGED <<m_networkStandbyMode, powerManager, nwStandby, notifying, writer>>

-----------------------------------------------------------------------------
(* OnNetworkStandbyModeChanged.                                            *)

\* Mutant: the event is passed on and the cache is left alone.
OnNetworkStandbyModeChangedForwards ==
  /\ notifying = "idle" /\ notices # <<>>
  /\ notices' = Tail(notices)
  /\ notifying' = "validate"
  /\ UNCHANGED <<cache, pmMode, changes, overtaken, pc, nwStandby, writer>>

\* The notified mode is stored, declared valid, and dispatched as an event.
OnNetworkStandbyModeChanged ==
  /\ notifying = "idle" /\ notices # <<>>
  /\ m_networkStandbyMode' = Head(notices)
  /\ notices' = Tail(notices)
  /\ notifying' = "validate"
  /\ writer' = "notice"
  /\ UNCHANGED <<m_networkStandbyModeValid, pmMode, changes, overtaken, pc, nwStandby>>

NotifyValidate ==
  /\ notifying = "validate"
  /\ m_networkStandbyModeValid' = TRUE
  /\ notifying' = "idle"
  /\ UNCHANGED <<m_networkStandbyMode, powerManager, pc, nwStandby, writer>>

WorkerStep(w) ==
  GetAsk(w) \/ GetStore(w) \/ GetValidate(w) \/ SetCall(w) \/ SetInvalidate(w)

Next ==
  \/ PowerManagerChanges \/ OnNetworkStandbyModeChanged \/ NotifyValidate
  \/ \E w \in Workers :
       \/ GetNetworkStandbyMode(w) \/ WorkerStep(w)
       \/ \E mode \in Mode : SetNetworkStandbyMode(w, mode)

Spec == Init /\ [][Next]_vars

-----------------------------------------------------------------------------
(* Properties.                                                             *)

\* However fills, changes, invalidations and notices overlap, when nothing is on
\* its way a cache that is valid has PowerManager's mode, but for one order: a fill
\* got its answer before a change and stored it after the last notice.
CacheFresh ==
  Quiet /\ m_networkStandbyModeValid =>
    m_networkStandbyMode = pmMode \/ writer = "late"
=============================================================================
