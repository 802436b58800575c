---------------------- MODULE NetworkStandbyModeProofs ----------------------
(***************************************************************************)
(* For any number of threads and of changes, in any order of their steps:  *)
(* the types of the network standby mode cache, and that one order only    *)
(* leaves a valid cache with another mode than PowerManager's.             *)
(***************************************************************************)
EXTENDS NetworkStandbyMode, SequenceTheorems, TLAPS

\* There are no more notifications than changes.
TypeInv == TypeOK /\ Len(notices) <= changes

\* The last notification on its way has PowerManager's mode.
LastIsMode == notices # <<>> => notices[Len(notices)] = pmMode

\* An answer that no change has overtaken is the mode.
AnswerOK == \A w \in Workers : pc[w] = "store" /\ w \notin overtaken => nwStandby[w] = pmMode

\* Before the first store nothing is declared valid; after a store of a notice or
\* of an answer in time, what is left to deliver is all that can tell of a change.
CacheOK ==
  /\ LastIsMode
  /\ writer = "nobody" =>
       /\ ~m_networkStandbyModeValid /\ notifying = "idle"
       /\ \A w \in Workers : pc[w] # "validate"
  /\ notices = <<>> /\ writer \in {"fill", "notice"} => m_networkStandbyMode = pmMode

FreshInv == TypeInv /\ AnswerOK /\ CacheOK

-----------------------------------------------------------------------------
(* Types.                                                                  *)

LEMMA InitTypeInv == Init => TypeInv
<1> SUFFICES ASSUME Init PROVE TypeInv
  OBVIOUS
<1>1. notices \in Seq(Mode) /\ Len(notices) = 0
  BY DEF Init
<1>2. "idle" \in {"idle", "ask", "store", "validate", "set", "invalidate"} /\ "disabled" \in Mode
  BY DEF Mode
<1>3. /\ pc \in [Workers -> {"idle", "ask", "store", "validate", "set", "invalidate"}]
      /\ nwStandby \in [Workers -> Mode]
  BY <1>2 DEF Init
<1>4. changes \in 0 .. MaxChanges /\ Len(notices) <= MaxChanges /\ Len(notices) <= changes
  BY <1>1, NetworkStandbyModeAssumption DEF Init
<1>5. pmMode \in Mode /\ m_networkStandbyMode \in Mode /\ m_networkStandbyModeValid \in BOOLEAN
  BY <1>2 DEF Init
<1>6. notifying \in {"idle", "validate"}
  BY DEF Init
<1>7. overtaken \subseteq Workers /\ writer \in {"nobody", "fill", "late", "notice"}
  BY DEF Init
<1>8. QED
  BY <1>1, <1>3, <1>4, <1>5, <1>6, <1>7 DEF TypeInv, TypeOK

\* A change grows the queue and the counter together.
LEMMA ChangeTypes ==
  ASSUME TypeInv, NEW mode \in Mode, Change(mode)
  PROVE  /\ notices' \in Seq(Mode) /\ Len(notices') <= changes'
         /\ changes' \in 0 .. MaxChanges /\ Len(notices') <= MaxChanges
         /\ pmMode' \in Mode /\ overtaken' \subseteq Workers
         /\ notices' # <<>> /\ notices'[Len(notices')] = pmMode'
<1>1. notices \in Seq(Mode) /\ notices' = Append(notices, mode)
  BY DEF Change, TypeInv, TypeOK
<1>2. notices' \in Seq(Mode) /\ Len(notices') = Len(notices) + 1 /\ notices'[Len(notices) + 1] = mode
  BY <1>1
<1>3. changes' = changes + 1 /\ changes < MaxChanges /\ pmMode' = mode
  BY DEF Change
<1>4. Len(notices') <= changes' /\ changes' \in 0 .. MaxChanges
  BY <1>2, <1>3, <1>1, NetworkStandbyModeAssumption DEF TypeInv, TypeOK
<1>5. overtaken' \subseteq Workers
  BY DEF Change, TypeInv, TypeOK
<1>6. QED
  BY <1>2, <1>3, <1>4, <1>5, NetworkStandbyModeAssumption

\* A notification that is taken is the first, and what is left ends as before.
LEMMA TailTypes ==
  ASSUME TypeInv, notices # <<>>
  PROVE  /\ Head(notices) \in Mode
         /\ Tail(notices) \in Seq(Mode) /\ Len(Tail(notices)) = Len(notices) - 1
         /\ Tail(notices) # <<>> =>
              Tail(notices)[Len(Tail(notices))] = notices[Len(notices)]
         /\ Tail(notices) = <<>> => Head(notices) = notices[Len(notices)]
<1>1. notices \in Seq(Mode)
  BY DEF TypeInv, TypeOK
<1>2. /\ Head(notices) \in Mode /\ Head(notices) = notices[1]
      /\ Tail(notices) \in Seq(Mode) /\ Len(Tail(notices)) = Len(notices) - 1
      /\ \A i \in 1 .. Len(Tail(notices)) : Tail(notices)[i] = notices[i + 1]
  BY <1>1, HeadTailProperties
<1>3. Len(notices) \in Nat \ {0}
  BY <1>1
<1>4. Tail(notices) # <<>> => Len(Tail(notices)) \in 1 .. Len(Tail(notices))
  BY <1>2, <1>3
<1>5. Tail(notices) = <<>> => Len(notices) = 1
  BY <1>2, <1>3
<1>6. QED
  BY <1>2, <1>3, <1>4, <1>5

LEMMA NextTypeInv == TypeInv /\ [Next]_vars => TypeInv'
<1> SUFFICES ASSUME TypeInv, [Next]_vars PROVE TypeInv'
  OBVIOUS
<1> USE DEF TypeInv, TypeOK, cache, powerManager, Goto
<1>1. CASE UNCHANGED vars
  BY <1>1 DEF vars
<1>2. CASE PowerManagerChanges
  BY <1>2, ChangeTypes DEF PowerManagerChanges
<1>3. CASE OnNetworkStandbyModeChanged
  <2>1. notices # <<>> /\ Head(notices) \in Mode /\ Tail(notices) \in Seq(Mode)
        /\ Len(Tail(notices)) = Len(notices) - 1
    BY <1>3, TailTypes DEF OnNetworkStandbyModeChanged
  <2>2. Len(notices) \in Nat
    OBVIOUS
  <2>3. QED
    BY <1>3, <2>1, <2>2, NetworkStandbyModeAssumption DEF OnNetworkStandbyModeChanged
<1>4. CASE NotifyValidate
  BY <1>4 DEF NotifyValidate
<1>5. ASSUME NEW w \in Workers, GetNetworkStandbyMode(w)
      PROVE  TypeInv'
  BY <1>5 DEF GetNetworkStandbyMode
<1>6. ASSUME NEW w \in Workers, NEW mode \in Mode, SetNetworkStandbyMode(w, mode)
      PROVE  TypeInv'
  BY <1>6 DEF SetNetworkStandbyMode
<1>7. ASSUME NEW w \in Workers, WorkerStep(w)
      PROVE  TypeInv'
  <2>1. CASE GetAsk(w)
    BY <2>1 DEF GetAsk
  <2>2. CASE GetStore(w)
    BY <2>2 DEF GetStore
  <2>3. CASE GetValidate(w)
    BY <2>3 DEF GetValidate
  <2>4. CASE SetCall(w)
    <3>1. nwStandby[w] \in Mode
      OBVIOUS
    <3>2. CASE Change(nwStandby[w]) /\ Goto(w, "invalidate")
      BY <2>4, <3>1, <3>2, ChangeTypes DEF SetCall
    <3>3. CASE Goto(w, "idle") /\ UNCHANGED powerManager
      BY <2>4, <3>3 DEF SetCall
    <3>4. QED
      BY <2>4, <3>2, <3>3 DEF SetCall
  <2>5. CASE SetInvalidate(w)
    BY <2>5 DEF SetInvalidate
  <2>6. QED
    BY <1>7, <2>1, <2>2, <2>3, <2>4, <2>5 DEF WorkerStep
<1>8. QED
  BY <1>1, <1>2, <1>3, <1>4, <1>5, <1>6, <1>7 DEF Next

\* The cache, the queue of notifications and the local values hold modes only
\* (GetNetworkStandbyMode, SetNetworkStandbyMode, OnNetworkStandbyModeChanged).
THEOREM CacheTypes == Spec => []TypeOK
<1>1. Spec => []TypeInv
  BY InitTypeInv, NextTypeInv, PTL DEF Spec
<1>2. TypeInv => TypeOK
  BY DEF TypeInv
<1>3. QED
  BY <1>1, <1>2, PTL

-----------------------------------------------------------------------------
(* The cache has the mode.                                                 *)

LEMMA InitFreshInv == Init => FreshInv
  BY InitTypeInv DEF Init, FreshInv, AnswerOK, CacheOK, LastIsMode

\* After a change its notice is on its way, and every answer is overtaken.
LEMMA ChangeFresh ==
  ASSUME FreshInv, NEW mode \in Mode, Change(mode), UNCHANGED <<cache, notifying, writer>>,
         \A w \in Workers : pc'[w] \in {"store", "validate"} => pc'[w] = pc[w]
  PROVE  AnswerOK' /\ CacheOK'
<1>1. TypeInv /\ AnswerOK /\ CacheOK
  BY DEF FreshInv
<1>2. notices' # <<>> /\ notices'[Len(notices')] = pmMode'
  BY <1>1, ChangeTypes
<1>3. AnswerOK'
  BY DEF AnswerOK, Change
<1>4. CacheOK'
  BY <1>1, <1>2 DEF CacheOK, LastIsMode, cache
<1>5. QED
  BY <1>3, <1>4

LEMMA NextFreshInv == FreshInv /\ [Next]_vars => FreshInv'
<1> SUFFICES ASSUME FreshInv, [Next]_vars PROVE FreshInv'
  OBVIOUS
<1>0. TypeInv /\ TypeInv'
  BY NextTypeInv DEF FreshInv
<1> SUFFICES AnswerOK' /\ CacheOK'
  BY <1>0 DEF FreshInv
<1> USE DEF FreshInv, AnswerOK, CacheOK, LastIsMode, cache, powerManager, Goto
<1>1. CASE UNCHANGED vars
  BY <1>1 DEF vars
<1>2. CASE PowerManagerChanges
  BY <1>2, ChangeFresh DEF PowerManagerChanges
<1>3. CASE OnNetworkStandbyModeChanged
  BY <1>0, <1>3, TailTypes DEF OnNetworkStandbyModeChanged
<1>4. CASE NotifyValidate
  BY <1>4 DEF NotifyValidate
<1>5. ASSUME NEW w \in Workers, GetNetworkStandbyMode(w)
      PROVE  AnswerOK' /\ CacheOK'
  BY <1>0, <1>5 DEF GetNetworkStandbyMode, TypeInv, TypeOK
<1>6. ASSUME NEW w \in Workers, NEW mode \in Mode, SetNetworkStandbyMode(w, mode)
      PROVE  AnswerOK' /\ CacheOK'
  BY <1>0, <1>6 DEF SetNetworkStandbyMode, TypeInv, TypeOK
<1>7. ASSUME NEW w \in Workers, WorkerStep(w)
      PROVE  AnswerOK' /\ CacheOK'
  <2> USE <1>0 DEF TypeInv, TypeOK
  <2>1. CASE GetAsk(w)
    BY <2>1 DEF GetAsk
  <2>2. CASE GetStore(w)
    BY <2>2 DEF GetStore
  <2>3. CASE GetValidate(w)
    BY <2>3 DEF GetValidate
  <2>4. CASE SetCall(w)
    <3>1. nwStandby[w] \in Mode
      OBVIOUS
    <3>2. CASE Change(nwStandby[w]) /\ Goto(w, "invalidate")
      <4>1. \A v \in Workers : pc'[v] \in {"store", "validate"} => pc'[v] = pc[v]
        BY <3>2
      <4>2. QED
        BY <2>4, <3>1, <3>2, <4>1, ChangeFresh DEF SetCall
    <3>3. CASE Goto(w, "idle") /\ UNCHANGED powerManager
      BY <2>4, <3>3 DEF SetCall
    <3>4. QED
      BY <2>4, <3>2, <3>3 DEF SetCall
  <2>5. CASE SetInvalidate(w)
    BY <2>5 DEF SetInvalidate
  <2>6. QED
    BY <1>7, <2>1, <2>2, <2>3, <2>4, <2>5 DEF WorkerStep
<1>8. QED
  BY <1>1, <1>2, <1>3, <1>4, <1>5, <1>6, <1>7 DEF Next

\* However fills, changes, invalidations and notices overlap, a valid cache has
\* PowerManager's mode when nothing is on its way, unless the last to store was a
\* fill whose answer a change had overtaken (GetNetworkStandbyMode,
\* SetNetworkStandbyMode, OnNetworkStandbyModeChanged).
THEOREM ValidCacheIsFresh == Spec => []CacheFresh
<1>1. Spec => []FreshInv
  BY InitFreshInv, NextFreshInv, PTL DEF Spec
<1>2. FreshInv => CacheFresh
  <2> SUFFICES ASSUME FreshInv, Quiet, m_networkStandbyModeValid
               PROVE  m_networkStandbyMode = pmMode \/ writer = "late"
    BY DEF CacheFresh
  <2>1. notices = <<>> /\ writer # "nobody"
    BY DEF FreshInv, CacheOK, Quiet
  <2>2. QED
    BY <2>1 DEF FreshInv, TypeInv, TypeOK, CacheOK
<1>3. QED
  BY <1>1, <1>2, PTL
=============================================================================
