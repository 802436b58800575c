------------------------- MODULE PowerControlProofs -------------------------
(***************************************************************************)
(* For any number of workers, requests, standby reasons and changes of     *)
(* PowerManager: the types, the reason of the last sleep, the answers on   *)
(* the state before the reboot, and what the last events tell.             *)
(***************************************************************************)
EXTENDS PowerControl, SequenceTheorems, TLAPS

\* What SetPowerState is asked for, and the places of its calls.
Asked == Sleeps \union {"ON", "STANDBY"}

ReasonPlaces == {"openReason", "writeReason"}

PowerPlaces == ReasonPlaces \union {"callPower", "setCurrent"}

CachePlaces == {"cacheState", "cacheValid"}

PowerCalls ==
  [part : {"power"}, asked : Asked \union {"other"}, reason : Reasons, state : Power]

CacheCalls == [part : {"beforeReboot"}]

\* A worker's place says which call it serves.
CallsOK ==
  /\ pc \in [Workers -> PowerPlaces \union CachePlaces \union {"idle"}]
  /\ local \in [Workers -> PowerCalls \union CacheCalls \union {NoCall}]
  /\ \A w \in Workers : /\ pc[w] \in PowerPlaces => local[w] \in PowerCalls
                        /\ pc[w] \in CachePlaces => local[w].part = "beforeReboot"

Notices ==
  [kind : {"power"}, old : Power, new : Power]
    \union [kind : {"thermal"}, old : Thermal, new : Thermal]
    \union [kind : {"reboot"}, old : {"none"}, new : {"none"}]

TypeInv == PowerTypeOK /\ CallsOK /\ notices \in Seq(Notices)

-----------------------------------------------------------------------------
(* The inductive invariants.                                               *)

Clean == \A s \in spoiled : s.part # "power"

\* Where no call met another or a failure, one call at a time sets the state,
\* and only while it is about to write a reason the file may lag behind.
ReasonInv ==
  Clean =>
    /\ \A v, w \in Workers : pc[v] \in PowerPlaces /\ pc[w] \in PowerPlaces => v = w
    /\ \A w \in Workers : pc[w] \in ReasonPlaces => local[w].reason = lastReason
    /\ (\A w \in Workers : pc[w] \notin ReasonPlaces) => standbyReason = lastReason

BeforeReboot == powerModeEnumToString(pmBeforeReboot)

\* A cache that is valid, or is about to be declared valid, has been filled.
CacheInv ==
  /\ beforeRebootAnswer \in {"none", BeforeReboot}
  /\ m_powerStateBeforeRebootValid => m_powerStateBeforeReboot = BeforeReboot
  /\ \A w \in Workers : pc[w] = "cacheValid" => m_powerStateBeforeReboot = BeforeReboot

\* Of the first n of a sequence: none is of a kind; the last of a kind tells
\* what is the case; each tells as the old state what the one before it told as
\* the new one; and the first tells as old what was told before.
None(s, n, kind) == \A i \in 1 .. n : s[i].kind # kind

\* t holds the n entries of s and perhaps more.
Extends(s, t, n) == n \in Nat /\ \A i \in 1 .. n : t[i] = s[i]

\* t holds the n entries that follow the first one of s.
Shifts(s, t, n) == n \in Nat /\ \A i \in 1 .. n : t[i] = s[i + 1]

LastIsNow(s, n, kind, now) ==
  \A i \in 1 .. n :
    s[i].kind = kind /\ (\A j \in i + 1 .. n : s[j].kind # kind) => s[i].new = now

Linked(s, n, kind) ==
  \A i \in 1 .. n : \A j \in i + 1 .. n :
    s[i].kind = kind /\ s[j].kind = kind /\ (\A m \in i + 1 .. j - 1 : s[m].kind # kind) =>
      s[j].old = s[i].new

FirstIsTold(s, n, kind, told) ==
  \A j \in 1 .. n :
    s[j].kind = kind /\ (\A i \in 1 .. j - 1 : s[i].kind # kind) => told \in {"none", s[j].old}

PowerToldOK ==
  /\ LastIsNow(notices, Len(notices), "power", pmPower)
  /\ None(notices, Len(notices), "power") =>
       powerTold \in {"none", powerModeEnumToString(pmPower)}

ThermalToldOK ==
  /\ LastIsNow(notices, Len(notices), "thermal", pmThermal)
  /\ Linked(notices, Len(notices), "thermal")
  /\ FirstIsTold(notices, Len(notices), "thermal", LevelTold)
  /\ None(notices, Len(notices), "thermal") => LevelTold \in {"none", pmThermal}

NoticesInv == PowerToldOK /\ ThermalToldOK

-----------------------------------------------------------------------------
(* Notifications on their way.                                             *)

\* One more is put behind the others.
LEMMA AppendOther ==
  ASSUME NEW s, NEW t, NEW n, Extends(s, t, n), NEW kind, t[n + 1].kind # kind, NEW now, NEW told
  PROVE  /\ None(s, n, kind) <=> None(t, n + 1, kind)
         /\ LastIsNow(s, n, kind, now) => LastIsNow(t, n + 1, kind, now)
         /\ Linked(s, n, kind) => Linked(t, n + 1, kind)
         /\ FirstIsTold(s, n, kind, told) => FirstIsTold(t, n + 1, kind, told)
<1> USE DEF Extends
<1>1. None(s, n, kind) <=> None(t, n + 1, kind)
  BY DEF None
<1>2. ASSUME LastIsNow(s, n, kind, now) PROVE LastIsNow(t, n + 1, kind, now)
  <2> SUFFICES ASSUME NEW i \in 1 .. n + 1, t[i].kind = kind,
                      \A j \in i + 1 .. n + 1 : t[j].kind # kind
               PROVE  t[i].new = now
    BY DEF LastIsNow
  <2>1. i \in 1 .. n /\ s[i].kind = kind /\ \A j \in i + 1 .. n : s[j].kind # kind
    OBVIOUS
  <2>2. QED
    BY <1>2, <2>1 DEF LastIsNow
<1>3. ASSUME Linked(s, n, kind) PROVE Linked(t, n + 1, kind)
  <2> SUFFICES ASSUME NEW i \in 1 .. n + 1, NEW j \in i + 1 .. n + 1,
                      t[i].kind = kind, t[j].kind = kind,
                      \A m \in i + 1 .. j - 1 : t[m].kind # kind
               PROVE  t[j].old = t[i].new
    BY DEF Linked
  <2>1. j \in 1 .. n /\ i \in 1 .. n
    OBVIOUS
  <2>2. s[i].kind = kind /\ s[j].kind = kind /\ \A m \in i + 1 .. j - 1 : s[m].kind # kind
    BY <2>1
  <2>3. s[j].old = s[i].new
    BY <1>3, <2>1, <2>2 DEF Linked
  <2>4. QED
    BY <2>1, <2>3
<1>4. ASSUME FirstIsTold(s, n, kind, told) PROVE FirstIsTold(t, n + 1, kind, told)
  <2> SUFFICES ASSUME NEW j \in 1 .. n + 1, t[j].kind = kind,
                      \A i \in 1 .. j - 1 : t[i].kind # kind
               PROVE  told \in {"none", t[j].old}
    BY DEF FirstIsTold
  <2>1. j \in 1 .. n
    OBVIOUS
  <2>2. s[j].kind = kind /\ (\A i \in 1 .. j - 1 : s[i].kind # kind) /\ t[j] = s[j]
    BY <2>1
  <2>3. QED
    BY <1>4, <2>1, <2>2 DEF FirstIsTold
<1>5. QED
  BY <1>1, <1>2, <1>3, <1>4

\* One of the kind is put behind the others: what was the case is its old state.
LEMMA AppendSame ==
  ASSUME NEW s, NEW t, NEW n, Extends(s, t, n), NEW kind, t[n + 1].kind = kind, NEW now, NEW told,
         LastIsNow(s, n, kind, now)
  PROVE  /\ ~None(t, n + 1, kind)
         /\ LastIsNow(t, n + 1, kind, t[n + 1].new)
         /\ t[n + 1].old = now /\ Linked(s, n, kind) => Linked(t, n + 1, kind)
         /\ /\ t[n + 1].old = now /\ FirstIsTold(s, n, kind, told)
            /\ None(s, n, kind) => told \in {"none", now}
            => FirstIsTold(t, n + 1, kind, told)
<1> USE DEF Extends
<1>1. ~None(t, n + 1, kind)
  BY DEF None
<1>2. LastIsNow(t, n + 1, kind, t[n + 1].new)
  BY DEF LastIsNow
<1>3. ASSUME t[n + 1].old = now, Linked(s, n, kind) PROVE Linked(t, n + 1, kind)
  <2> SUFFICES ASSUME NEW i \in 1 .. n + 1, NEW j \in i + 1 .. n + 1,
                      t[i].kind = kind, t[j].kind = kind,
                      \A m \in i + 1 .. j - 1 : t[m].kind # kind
               PROVE  t[j].old = t[i].new
    BY DEF Linked
  <2>1. CASE j = n + 1
    <3>1. i \in 1 .. n /\ s[i].kind = kind /\ \A m \in i + 1 .. n : s[m].kind # kind
      BY <2>1
    <3>2. s[i].new = now
      BY <3>1 DEF LastIsNow
    <3>3. QED
      BY <1>3, <2>1, <3>1, <3>2
  <2>2. CASE j # n + 1
    <3>1. j \in 1 .. n /\ i \in 1 .. n
      BY <2>2
    <3>2. s[i].kind = kind /\ s[j].kind = kind /\ \A m \in i + 1 .. j - 1 : s[m].kind # kind
      BY <3>1
    <3>3. s[j].old = s[i].new
      BY <1>3, <3>1, <3>2 DEF Linked
    <3>4. QED
      BY <3>1, <3>3
  <2>3. QED
    BY <2>1, <2>2
<1>4. ASSUME t[n + 1].old = now, FirstIsTold(s, n, kind, told),
             None(s, n, kind) => told \in {"none", now}
      PROVE  FirstIsTold(t, n + 1, kind, told)
  <2> SUFFICES ASSUME NEW j \in 1 .. n + 1, t[j].kind = kind,
                      \A i \in 1 .. j - 1 : t[i].kind # kind
               PROVE  told \in {"none", t[j].old}
    BY DEF FirstIsTold
  <2>1. CASE j = n + 1
    BY <1>4, <2>1 DEF None
  <2>2. CASE j # n + 1
    <3>1. j \in 1 .. n
      BY <2>2
    <3>2. s[j].kind = kind /\ (\A i \in 1 .. j - 1 : s[i].kind # kind) /\ t[j] = s[j]
      BY <3>1
    <3>3. QED
      BY <1>4, <3>1, <3>2 DEF FirstIsTold
  <2>3. QED
    BY <2>1, <2>2
<1>5. QED
  BY <1>1, <1>2, <1>3, <1>4

\* The first is taken away.
LEMMA TailKeeps ==
  ASSUME NEW s, NEW t, NEW n, Shifts(s, t, n), NEW kind, NEW now
  PROVE  /\ LastIsNow(s, n + 1, kind, now) => LastIsNow(t, n, kind, now)
         /\ Linked(s, n + 1, kind) => Linked(t, n, kind)
         /\ s[1].kind # kind => (None(s, n + 1, kind) <=> None(t, n, kind))
         /\ s[1].kind = kind /\ None(t, n, kind) /\ LastIsNow(s, n + 1, kind, now) =>
              s[1].new = now
<1> USE DEF Shifts
<1>1. ASSUME LastIsNow(s, n + 1, kind, now) PROVE LastIsNow(t, n, kind, now)
  <2> SUFFICES ASSUME NEW i \in 1 .. n, t[i].kind = kind,
                      \A j \in i + 1 .. n : t[j].kind # kind
               PROVE  t[i].new = now
    BY DEF LastIsNow
  <2>1. i + 1 \in 1 .. n + 1 /\ s[i + 1].kind = kind
    OBVIOUS
  <2>2. ASSUME NEW j \in i + 2 .. n + 1 PROVE s[j].kind # kind
    <3>1. j - 1 \in i + 1 .. n /\ j - 1 \in 1 .. n /\ (j - 1) + 1 = j
      OBVIOUS
    <3>2. QED
      BY <3>1
  <2>3. s[i + 1].new = now
    BY <1>1, <2>1, <2>2 DEF LastIsNow
  <2>4. QED
    BY <2>3
<1>2. ASSUME Linked(s, n + 1, kind) PROVE Linked(t, n, kind)
  <2> SUFFICES ASSUME NEW i \in 1 .. n, NEW j \in i + 1 .. n,
                      t[i].kind = kind, t[j].kind = kind,
                      \A m \in i + 1 .. j - 1 : t[m].kind # kind
               PROVE  t[j].old = t[i].new
    BY DEF Linked
  <2>1. /\ i + 1 \in 1 .. n + 1 /\ j + 1 \in (i + 1) + 1 .. n + 1 /\ j \in 1 .. n
        /\ t[i] = s[i + 1] /\ t[j] = s[j + 1]
    OBVIOUS
  <2>2. ASSUME NEW m \in (i + 1) + 1 .. (j + 1) - 1 PROVE s[m].kind # kind
    <3>1. m - 1 \in i + 1 .. j - 1 /\ m - 1 \in 1 .. n /\ (m - 1) + 1 = m
      OBVIOUS
    <3>2. QED
      BY <3>1
  <2>3. s[j + 1].old = s[i + 1].new
    BY <1>2, <2>1, <2>2 DEF Linked
  <2>4. QED
    BY <2>1, <2>3
<1>3. ASSUME s[1].kind # kind PROVE None(s, n + 1, kind) <=> None(t, n, kind)
  <2>1. ASSUME None(t, n, kind), NEW i \in 1 .. n + 1 PROVE s[i].kind # kind
    <3>1. CASE i = 1
      BY <1>3, <3>1
    <3>2. CASE i # 1
      <4>1. i - 1 \in 1 .. n /\ (i - 1) + 1 = i
        BY <3>2
      <4>2. QED
        BY <2>1, <4>1 DEF None
    <3>3. QED
      BY <3>1, <3>2
  <2>2. ASSUME None(s, n + 1, kind), NEW i \in 1 .. n PROVE t[i].kind # kind
    BY <2>2 DEF None
  <2>3. QED
    BY <2>1, <2>2 DEF None
<1>4. ASSUME s[1].kind = kind, None(t, n, kind), LastIsNow(s, n + 1, kind, now)
      PROVE  s[1].new = now
  <2>1. ASSUME NEW j \in 1 + 1 .. n + 1 PROVE s[j].kind # kind
    <3>1. j - 1 \in 1 .. n /\ (j - 1) + 1 = j
      OBVIOUS
    <3>2. QED
      BY <1>4, <3>1 DEF None
  <2>2. 1 \in 1 .. n + 1
    OBVIOUS
  <2>3. QED
    BY <1>4, <2>1, <2>2 DEF LastIsNow
<1>5. QED
  BY <1>1, <1>2, <1>3, <1>4

\* One of another kind leaves what the first of the kind tells alone; one of
\* the kind is followed by one that tells its new state as the old one.
LEMMA TailFirst ==
  ASSUME NEW s, NEW t, NEW n, Shifts(s, t, n), NEW kind, NEW told, NEW next
  PROVE  /\ s[1].kind # kind /\ FirstIsTold(s, n + 1, kind, told) =>
              FirstIsTold(t, n, kind, told)
         /\ s[1].kind = kind /\ Linked(s, n + 1, kind) /\ next \in {"none", s[1].new} =>
              FirstIsTold(t, n, kind, next)
<1> USE DEF Shifts
<1>1. ASSUME s[1].kind # kind, FirstIsTold(s, n + 1, kind, told)
      PROVE  FirstIsTold(t, n, kind, told)
  <2> SUFFICES ASSUME NEW j \in 1 .. n, t[j].kind = kind,
                      \A i \in 1 .. j - 1 : t[i].kind # kind
               PROVE  told \in {"none", t[j].old}
    BY DEF FirstIsTold
  <2>1. ASSUME NEW i \in 1 .. (j + 1) - 1 PROVE s[i].kind # kind
    <3>1. CASE i = 1
      BY <1>1, <3>1
    <3>2. CASE i # 1
      <4>1. i - 1 \in 1 .. j - 1 /\ i - 1 \in 1 .. n /\ (i - 1) + 1 = i
        BY <3>2
      <4>2. QED
        BY <4>1
    <3>3. QED
      BY <3>1, <3>2
  <2>2. j + 1 \in 1 .. n + 1 /\ s[j + 1].kind = kind /\ t[j] = s[j + 1]
    OBVIOUS
  <2>3. QED
    BY <1>1, <2>1, <2>2 DEF FirstIsTold
<1>2. ASSUME s[1].kind = kind, Linked(s, n + 1, kind), next \in {"none", s[1].new}
      PROVE  FirstIsTold(t, n, kind, next)
  <2> SUFFICES ASSUME NEW j \in 1 .. n, t[j].kind = kind,
                      \A i \in 1 .. j - 1 : t[i].kind # kind
               PROVE  next \in {"none", t[j].old}
    BY DEF FirstIsTold
  <2>1. ASSUME NEW m \in 1 + 1 .. (j + 1) - 1 PROVE s[m].kind # kind
    <3>1. m - 1 \in 1 .. j - 1 /\ m - 1 \in 1 .. n /\ (m - 1) + 1 = m
      OBVIOUS
    <3>2. QED
      BY <3>1
  <2>2. 1 \in 1 .. n + 1 /\ j + 1 \in 1 + 1 .. n + 1 /\ s[j + 1].kind = kind /\ t[j] = s[j + 1]
    OBVIOUS
  <2>3. s[j + 1].old = s[1].new
    BY <1>2, <2>1, <2>2 DEF Linked
  <2>4. QED
    BY <1>2, <2>2, <2>3
<1>3. QED
  BY <1>1, <1>2

-----------------------------------------------------------------------------
(* What the last events tell.                                              *)

\* A notification is put behind the others, or the first one is taken away.
LEMMA Appended ==
  ASSUME notices \in Seq(Notices), NEW e \in Notices, notices' = Append(notices, e)
  PROVE  /\ Len(notices) \in Nat /\ Len(notices') = Len(notices) + 1
         /\ Extends(notices, notices', Len(notices))
         /\ notices'[Len(notices) + 1] = e /\ notices' \in Seq(Notices)
  BY AppendProperties, LenProperties DEF Extends

LEMMA Taken ==
  ASSUME notices \in Seq(Notices), notices # <<>>, notices' = Tail(notices)
  PROVE  /\ Len(notices') \in Nat /\ Len(notices) = Len(notices') + 1
         /\ Shifts(notices, notices', Len(notices'))
         /\ notices[1] = Head(notices) /\ Head(notices) \in Notices
         /\ notices' \in Seq(Notices)
<1>1. /\ Head(notices) \in Notices /\ Tail(notices) \in Seq(Notices)
      /\ Len(Tail(notices)) = Len(notices) - 1
      /\ \A i \in 1 .. Len(Tail(notices)) : Tail(notices)[i] = notices[i + 1]
  BY HeadTailProperties
<1>2. Len(notices) \in Nat /\ Len(Tail(notices)) \in Nat
  BY <1>1, LenProperties
<1>3. Head(notices) = notices[1]
  OBVIOUS
<1>4. QED
  BY <1>1, <1>2, <1>3 DEF Shifts

LEMMA NoNotices == Len(<<>>) = 0 /\ <<>> \in Seq(Notices)
  OBVIOUS

\* The steps that PowerManager takes no part in.
LEMMA NoticesKept ==
  ASSUME NoticesInv, UNCHANGED <<notices, pmPower, pmThermal, powerTold, thermalTold>>
  PROVE  NoticesInv'
<1>1. LevelTold' = LevelTold
  BY DEF LevelTold
<1>2. QED
  BY <1>1 DEF NoticesInv, PowerToldOK, ThermalToldOK, None, LastIsNow, Linked, FirstIsTold

LEMMA PowerKept ==
  ASSUME TypeInv, PowerToldOK, NEW e \in Notices, e.kind # "power",
         notices' = Append(notices, e), UNCHANGED <<pmPower, powerTold>>
  PROVE  PowerToldOK'
<1> DEFINE n == Len(notices)
<1>1. /\ n \in Nat /\ Len(notices') = n + 1
      /\ Extends(notices, notices', n)
      /\ notices'[n + 1] = e
  BY Appended DEF TypeInv
<1>2. /\ None(notices, n, "power") <=> None(notices', n + 1, "power")
      /\ LastIsNow(notices, n, "power", pmPower) => LastIsNow(notices', n + 1, "power", pmPower)
  <2>1. notices'[n + 1].kind # "power"
    BY <1>1
  <2> HIDE DEF n
  <2>2. QED
    BY <1>1, <2>1, AppendOther
<1>3. QED
  BY <1>1, <1>2 DEF PowerToldOK

LEMMA ThermalKept ==
  ASSUME TypeInv, ThermalToldOK, NEW e \in Notices, e.kind # "thermal",
         notices' = Append(notices, e), UNCHANGED <<pmThermal, thermalTold>>
  PROVE  ThermalToldOK'
<1> DEFINE n == Len(notices)
<1>1. /\ n \in Nat /\ Len(notices') = n + 1
      /\ Extends(notices, notices', n)
      /\ notices'[n + 1] = e
  BY Appended DEF TypeInv
<1>2. /\ None(notices, n, "thermal") <=> None(notices', n + 1, "thermal")
      /\ LastIsNow(notices, n, "thermal", pmThermal) =>
           LastIsNow(notices', n + 1, "thermal", pmThermal)
      /\ Linked(notices, n, "thermal") => Linked(notices', n + 1, "thermal")
      /\ FirstIsTold(notices, n, "thermal", LevelTold) =>
           FirstIsTold(notices', n + 1, "thermal", LevelTold)
  <2>1. notices'[n + 1].kind # "thermal"
    BY <1>1
  <2> HIDE DEF n
  <2>2. QED
    BY <1>1, <2>1, AppendOther
<1>3. LevelTold' = LevelTold
  BY DEF LevelTold
<1>4. QED
  BY <1>1, <1>2, <1>3 DEF ThermalToldOK

\* A change of the power state that was taken.
LEMMA ChangeTold ==
  ASSUME TypeInv, NoticesInv, NEW state \in Power, Change(state),
         UNCHANGED <<pmThermal, powerTold, thermalTold>>
  PROVE  NoticesInv' /\ pmPower' \in Power /\ notices' \in Seq(Notices)
<1>1. CASE state = pmPower
  <2>1. UNCHANGED <<notices, pmPower>>
    BY <1>1 DEF Change
  <2>2. NoticesInv'
    BY <2>1, NoticesKept
  <2>3. state = pmPower /\ notices \in Seq(Notices)
    BY <1>1 DEF TypeInv
  <2>4. QED
    BY <2>1, <2>2, <2>3
<1>2. CASE state # pmPower
  <2> DEFINE e == [kind |-> "power", old |-> pmPower, new |-> state]
  <2>1. notices' = Append(notices, e) /\ pmPower' = state
    BY <1>2 DEF Change
  <2>2. e \in Notices /\ e.kind = "power" /\ e.new = state
    <3>1. pmPower \in Power
      BY DEF TypeInv, PowerTypeOK
    <3>2. QED
      BY <3>1 DEF Notices
  <2> HIDE DEF e
  <2>3. /\ Len(notices) \in Nat /\ Len(notices') = Len(notices) + 1
        /\ Extends(notices, notices', Len(notices))
        /\ notices'[Len(notices) + 1] = e /\ notices' \in Seq(Notices)
    BY <2>1, <2>2, Appended DEF TypeInv
  <2>4. LastIsNow(notices, Len(notices), "power", pmPower)
    BY DEF NoticesInv, PowerToldOK
  <2>5. /\ ~None(notices', Len(notices) + 1, "power")
        /\ LastIsNow(notices', Len(notices) + 1, "power", notices'[Len(notices) + 1].new)
    BY <2>2, <2>3, <2>4, AppendSame
  <2>6. PowerToldOK'
    BY <2>1, <2>2, <2>3, <2>5 DEF PowerToldOK
  <2>7. ThermalToldOK'
    BY <2>1, <2>2, ThermalKept DEF NoticesInv
  <2>8. QED
    BY <2>1, <2>3, <2>6, <2>7 DEF NoticesInv
<1>3. QED
  BY <1>1, <1>2

\* A change of the thermal level.
LEMMA LevelChanges ==
  ASSUME TypeInv, NoticesInv, NEW level \in Thermal, pmThermal' = level,
         notices' = Append(notices, [kind |-> "thermal", old |-> pmThermal, new |-> level]),
         UNCHANGED <<pmPower, powerTold, thermalTold>>
  PROVE  NoticesInv' /\ notices' \in Seq(Notices)
<1> DEFINE e == [kind |-> "thermal", old |-> pmThermal, new |-> level]
           n == Len(notices)
<1>1. e \in Notices /\ e.kind = "thermal" /\ e.old = pmThermal /\ e.new = level
  <2>1. pmThermal \in Thermal
    BY DEF TypeInv, PowerTypeOK
  <2>2. QED
    BY <2>1 DEF Notices
<1>2. notices' = Append(notices, e)
  OBVIOUS
<1> HIDE DEF e
<1>3. /\ n \in Nat /\ Len(notices') = n + 1 /\ Extends(notices, notices', n)
      /\ notices'[n + 1] = e /\ notices' \in Seq(Notices)
  BY <1>1, <1>2, Appended DEF TypeInv
<1>4. PowerToldOK'
  BY <1>1, <1>2, PowerKept DEF NoticesInv
<1>5. LevelTold' = LevelTold
  BY DEF LevelTold
<1>6. /\ LastIsNow(notices, n, "thermal", pmThermal) /\ Linked(notices, n, "thermal")
      /\ FirstIsTold(notices, n, "thermal", LevelTold)
      /\ None(notices, n, "thermal") => LevelTold \in {"none", pmThermal}
  BY DEF NoticesInv, ThermalToldOK
<1>7. /\ ~None(notices', n + 1, "thermal")
      /\ LastIsNow(notices', n + 1, "thermal", notices'[n + 1].new)
      /\ Linked(notices', n + 1, "thermal")
      /\ FirstIsTold(notices', n + 1, "thermal", LevelTold)
  <2>1. notices'[n + 1].kind = "thermal" /\ notices'[n + 1].old = pmThermal
    BY <1>1, <1>3
  <2> HIDE DEF n
  <2>2. QED
    BY <1>3, <1>6, <2>1, AppendSame
<1>8. ThermalToldOK'
  BY <1>1, <1>3, <1>5, <1>7 DEF ThermalToldOK
<1>9. QED
  BY <1>3, <1>4, <1>8 DEF NoticesInv

\* A reboot that is announced.
LEMMA RebootTold ==
  ASSUME TypeInv, NoticesInv,
         notices' = Append(notices, [kind |-> "reboot", old |-> "none", new |-> "none"]),
         UNCHANGED <<pmPower, pmThermal, powerTold, thermalTold>>
  PROVE  NoticesInv' /\ notices' \in Seq(Notices)
<1> DEFINE e == [kind |-> "reboot", old |-> "none", new |-> "none"]
<1>1. e \in Notices /\ e.kind = "reboot"
  BY DEF Notices
<1>2. notices' = Append(notices, e)
  OBVIOUS
<1> HIDE DEF e
<1>3. QED
  BY <1>1, <1>2, Appended, PowerKept, ThermalKept DEF NoticesInv, TypeInv

\* A notification of another kind is taken.
LEMMA OtherTaken ==
  ASSUME TypeInv, notices # <<>>, notices' = Tail(notices)
  PROVE  /\ /\ PowerToldOK /\ Head(notices).kind # "power"
            /\ UNCHANGED <<pmPower, powerTold>>
            => PowerToldOK'
         /\ /\ ThermalToldOK /\ Head(notices).kind # "thermal"
            /\ UNCHANGED <<pmThermal, thermalTold>>
            => ThermalToldOK'
<1> DEFINE n == Len(notices')
<1>1. /\ n \in Nat /\ Len(notices) = n + 1 /\ Shifts(notices, notices', n)
      /\ notices[1] = Head(notices)
  BY Taken DEF TypeInv
<1>2. ASSUME PowerToldOK, Head(notices).kind # "power", UNCHANGED <<pmPower, powerTold>>
      PROVE  PowerToldOK'
  <2>1. /\ LastIsNow(notices, n + 1, "power", pmPower) => LastIsNow(notices', n, "power", pmPower)
        /\ None(notices, n + 1, "power") <=> None(notices', n, "power")
    <3> HIDE DEF n
    <3>1. QED
      <4>1. notices[1].kind # "power" /\ Shifts(notices, notices', n)
        BY <1>1, <1>2
      <4>2. QED
        BY <4>1, TailKeeps
  <2>2. QED
    BY <1>1, <1>2, <2>1 DEF PowerToldOK
<1>3. ASSUME ThermalToldOK, Head(notices).kind # "thermal", UNCHANGED <<pmThermal, thermalTold>>
      PROVE  ThermalToldOK'
  <2>1. /\ LastIsNow(notices, n + 1, "thermal", pmThermal) =>
             LastIsNow(notices', n, "thermal", pmThermal)
        /\ Linked(notices, n + 1, "thermal") => Linked(notices', n, "thermal")
        /\ None(notices, n + 1, "thermal") <=> None(notices', n, "thermal")
    <3> HIDE DEF n
    <3>1. QED
      <4>1. notices[1].kind # "thermal" /\ Shifts(notices, notices', n)
        BY <1>1, <1>3
      <4>2. QED
        BY <4>1, TailKeeps
  <2>2. FirstIsTold(notices, n + 1, "thermal", LevelTold) =>
          FirstIsTold(notices', n, "thermal", LevelTold)
    <3> HIDE DEF n
    <3>1. QED
      <4>1. notices[1].kind # "thermal" /\ Shifts(notices, notices', n)
        BY <1>1, <1>3
      <4>2. QED
        BY <4>1, TailFirst
  <2>3. LevelTold' = LevelTold
    BY <1>3 DEF LevelTold
  <2>4. QED
    BY <1>1, <1>3, <2>1, <2>2, <2>3 DEF ThermalToldOK
<1>4. QED
  BY <1>2, <1>3

LEMMA OnPowerModeChangedTold ==
  ASSUME TypeInv, NoticesInv, OnPowerModeChanged
  PROVE  NoticesInv'
<1>1. /\ notices # <<>> /\ notices' = Tail(notices) /\ Head(notices).kind = "power"
      /\ powerTold' = powerModeEnumToString(Head(notices).new)
      /\ UNCHANGED <<pmPower, pmThermal, thermalTold>>
  BY DEF OnPowerModeChanged, Notified
<1> DEFINE n == Len(notices')
<1>2. /\ n \in Nat /\ Len(notices) = n + 1 /\ Shifts(notices, notices', n)
      /\ notices[1] = Head(notices)
  BY <1>1, Taken DEF TypeInv
<1>3. /\ LastIsNow(notices, n + 1, "power", pmPower) => LastIsNow(notices', n, "power", pmPower)
      /\ None(notices', n, "power") /\ LastIsNow(notices, n + 1, "power", pmPower) =>
           notices[1].new = pmPower
  <2>1. notices[1].kind = "power"
    BY <1>1, <1>2
  <2> HIDE DEF n
  <2>2. QED
    BY <1>2, <2>1, TailKeeps
<1>4. PowerToldOK'
  BY <1>1, <1>2, <1>3 DEF NoticesInv, PowerToldOK
<1>5. ThermalToldOK'
  BY <1>1, OtherTaken DEF NoticesInv
<1>6. QED
  BY <1>4, <1>5 DEF NoticesInv

\* What an event of handleThermalLevelChange lets a client know.
LEMMA EventTellsLevel ==
  ASSUME NEW old \in Thermal, NEW new \in Thermal,
         LET event == handleThermalLevelChange(old, new)
         IN thermalTold' = IF event = NothingTold THEN thermalTold ELSE event,
         LevelTold \in {"none", old}
  PROVE  LevelTold' \in {"none", new}
<1>1. CASE old = new
  <2>1. handleThermalLevelChange(old, new) = NothingTold
    BY <1>1 DEF handleThermalLevelChange, Thermal
  <2>2. thermalTold' = thermalTold
    BY <2>1
  <2>3. QED
    BY <1>1, <2>2 DEF LevelTold
<1>2. CASE old # new
  <2>1. CASE new = "normal"
    <3>1. handleThermalLevelChange(old, new) = [level |-> "WARN", exceeded |-> FALSE]
      BY <1>2, <2>1 DEF handleThermalLevelChange, Thermal
    <3>2. thermalTold' = [level |-> "WARN", exceeded |-> FALSE]
      BY <3>1 DEF NothingTold
    <3>3. QED
      BY <2>1, <3>2 DEF LevelTold
  <2>2. CASE new = "high" /\ old = "normal"
    <3>1. handleThermalLevelChange(old, new) = [level |-> "WARN", exceeded |-> TRUE]
      BY <2>2 DEF handleThermalLevelChange
    <3>2. thermalTold' = [level |-> "WARN", exceeded |-> TRUE]
      BY <3>1 DEF NothingTold
    <3>3. QED
      BY <2>2, <3>2 DEF LevelTold
  <2>3. CASE new = "high" /\ old = "critical"
    <3>1. handleThermalLevelChange(old, new) = [level |-> "MAX", exceeded |-> FALSE]
      BY <2>3 DEF handleThermalLevelChange
    <3>2. thermalTold' = [level |-> "MAX", exceeded |-> FALSE]
      BY <3>1 DEF NothingTold
    <3>3. QED
      BY <2>3, <3>2 DEF LevelTold
  <2>4. CASE new = "critical"
    <3>1. handleThermalLevelChange(old, new) = [level |-> "MAX", exceeded |-> TRUE]
      BY <1>2, <2>4 DEF handleThermalLevelChange, Thermal
    <3>2. thermalTold' = [level |-> "MAX", exceeded |-> TRUE]
      BY <3>1 DEF NothingTold
    <3>3. QED
      BY <2>4, <3>2 DEF LevelTold
  <2>5. QED
    BY <1>2, <2>1, <2>2, <2>3, <2>4 DEF Thermal
<1>3. QED
  BY <1>1, <1>2

LEMMA OnThermalModeChangedTold ==
  ASSUME TypeInv, NoticesInv, OnThermalModeChanged
  PROVE  NoticesInv'
<1> DEFINE e == Head(notices)
           n == Len(notices')
<1>1. /\ notices # <<>> /\ notices' = Tail(notices) /\ e.kind = "thermal"
      /\ LET event == handleThermalLevelChange(e.old, e.new)
         IN thermalTold' = IF event = NothingTold THEN thermalTold ELSE event
      /\ UNCHANGED <<pmPower, pmThermal, powerTold>>
  BY DEF OnThermalModeChanged, Notified
<1>2. /\ n \in Nat /\ Len(notices) = n + 1 /\ Shifts(notices, notices', n)
      /\ notices[1] = e /\ e \in Notices
  BY <1>1, Taken DEF TypeInv
<1>3. e.old \in Thermal /\ e.new \in Thermal
  BY <1>1, <1>2 DEF Notices
<1> HIDE DEF e, n
<1>4. /\ LastIsNow(notices, n + 1, "thermal", pmThermal) /\ Linked(notices, n + 1, "thermal")
      /\ FirstIsTold(notices, n + 1, "thermal", LevelTold)
  BY <1>2 DEF NoticesInv, ThermalToldOK
<1>5. LevelTold \in {"none", e.old}
  <2>1. 1 \in 1 .. n + 1 /\ notices[1].kind = "thermal"
    BY <1>1, <1>2
  <2>2. \A i \in 1 .. 1 - 1 : notices[i].kind # "thermal"
    OBVIOUS
  <2>3. QED
    BY <1>2, <1>4, <2>1, <2>2 DEF FirstIsTold
<1>6. LevelTold' \in {"none", e.new}
  BY <1>1, <1>3, <1>5, EventTellsLevel
<1>7. /\ LastIsNow(notices', n, "thermal", pmThermal) /\ Linked(notices', n, "thermal")
      /\ None(notices', n, "thermal") => e.new = pmThermal
  <2>1. /\ notices[1].kind = "thermal" /\ notices[1].new = e.new
        /\ Shifts(notices, notices', n)
    BY <1>1, <1>2
  <2>2. QED
    BY <1>4, <2>1, TailKeeps
<1>8. FirstIsTold(notices', n, "thermal", LevelTold')
  <2>1. /\ notices[1].kind = "thermal" /\ notices[1].new = e.new
        /\ Shifts(notices, notices', n)
    BY <1>1, <1>2
  <2>2. QED
    BY <1>4, <1>6, <2>1, TailFirst
<1>9. ThermalToldOK'
  BY <1>1, <1>6, <1>7, <1>8 DEF ThermalToldOK, n
<1>10. PowerToldOK'
  BY <1>1, OtherTaken DEF NoticesInv, e
<1>11. QED
  BY <1>9, <1>10 DEF NoticesInv

LEMMA RestartTold ==
  ASSUME TypeInv, PowerRestarts
  PROVE  NoticesInv'
<1>1. notices' = <<>> /\ powerTold' = "none" /\ thermalTold' = NothingTold
  BY DEF PowerRestarts
<1>2. Len(notices') = 0
  BY <1>1
<1>3. LevelTold' = "none"
  BY <1>1 DEF LevelTold, NothingTold
<1>4. QED
  BY <1>1, <1>2, <1>3
  DEF NoticesInv, PowerToldOK, ThermalToldOK, LastIsNow, Linked, FirstIsTold

-----------------------------------------------------------------------------
(* The invariant, and what leaves parts of it alone.                       *)

Inv == TypeInv /\ ReasonInv /\ CacheInv /\ NoticesInv

LEMMA InitSafe ==
  ASSUME PowerInit
  PROVE  Inv
<1>1. TypeInv
  <2>1. PowerTypeOK
    <3>1. /\ pmPower = "on" /\ pmThermal = "normal" /\ pmTimer = 0 /\ pmWakeup = {}
          /\ standbyReason = "none" /\ lastReason = "none"
      BY DEF PowerInit
    <3>2. m_powerStateBeforeRebootValid \in BOOLEAN
      BY DEF PowerInit
    <3>3. QED
      BY <3>1, <3>2 DEF PowerTypeOK, Power, Thermal
  <2>2. CallsOK
    BY DEF PowerInit, RequestsInit, CallsOK, PowerPlaces, ReasonPlaces, CachePlaces
  <2>3. notices \in Seq(Notices)
    BY NoNotices DEF PowerInit
  <2>4. QED
    BY <2>1, <2>2, <2>3 DEF TypeInv
<1>2. ReasonInv
  BY DEF PowerInit, RequestsInit, ReasonInv, PowerPlaces, ReasonPlaces
<1>3. CacheInv
  BY DEF PowerInit, RequestsInit, CacheInv
<1>4. NoticesInv
  <2>1. notices = <<>> /\ Len(notices) = 0 /\ LevelTold = "none" /\ powerTold = "none"
    BY NoNotices DEF PowerInit, LevelTold, NothingTold
  <2>2. QED
    BY <2>1 DEF NoticesInv, PowerToldOK, ThermalToldOK, LastIsNow, Linked, FirstIsTold
<1>5. QED
  BY <1>1, <1>2, <1>3, <1>4 DEF Inv

\* What a step of a call does to where the call is and to what it carries.
MovesTo(w, to, values) ==
  pc' = [pc EXCEPT ![w] = to] /\ local' = [local EXCEPT ![w] = values]

\* A worker moves on with its call, and the others stay where they are.
LEMMA CallsMove ==
  ASSUME CallsOK, NEW w \in Workers, NEW to, NEW values,
         to \in PowerPlaces \union CachePlaces \union {"idle"},
         values \in PowerCalls \union CacheCalls \union {NoCall},
         to \in PowerPlaces => values \in PowerCalls,
         to \in CachePlaces => values.part = "beforeReboot",
         MovesTo(w, to, values)
  PROVE  /\ CallsOK'
         /\ pc'[w] = to /\ local'[w] = values
         /\ \A v \in Workers \ {w} : pc'[v] = pc[v] /\ local'[v] = local[v]
  BY DEF CallsOK, MovesTo

LEMMA CallsStay ==
  ASSUME CallsOK, UNCHANGED <<pc, local>>
  PROVE  CallsOK'
  BY DEF CallsOK

LEMMA TypesStay ==
  ASSUME TypeInv, CallsOK',
         UNCHANGED <<pmVars, standbyReason, lastReason, m_powerStateBeforeRebootValid>>
  PROVE  TypeInv'
  BY DEF TypeInv, PowerTypeOK, pmVars

\* Calls of other methods come and go.
LEMMA ReasonStays ==
  ASSUME ReasonInv, UNCHANGED <<spoiled, standbyReason, lastReason>>,
         \A v \in Workers :
           \/ pc'[v] = pc[v] /\ local'[v] = local[v]
           \/ pc[v] \notin PowerPlaces /\ pc'[v] \notin PowerPlaces
  PROVE  ReasonInv'
  BY DEF ReasonInv, Clean, PowerPlaces

LEMMA CacheStays ==
  ASSUME CacheInv, UNCHANGED <<cacheVars, pmBeforeReboot>>,
         \A v \in Workers : pc'[v] = "cacheValid" => pc[v] = "cacheValid"
  PROVE  CacheInv'
  BY DEF CacheInv, cacheVars, BeforeReboot

\* A part that met a failure is not clean.
LEMMA Spoiled ==
  ASSUME NEW cause, Spoil("power", cause)
  PROVE  ~Clean'
<1>1. [part |-> "power", cause |-> cause] \in spoiled'
  BY DEF Spoil
<1>2. QED
  BY <1>1 DEF Clean

-----------------------------------------------------------------------------
(* PowerManager and its notifications.                                     *)

LEMMA PowerManagerChangesSafe ==
  ASSUME Inv, PowerManagerChanges
  PROVE  Inv'
<1>1. /\ UNCHANGED <<pc, local, spoiled, standbyReason, lastReason, powerTold, thermalTold>>
      /\ UNCHANGED <<cacheVars, pmBeforeReboot, pmTimer, pmWakeup>>
  BY DEF PowerManagerChanges, reasonVars, toldVars
<1>2. NoticesInv' /\ pmPower' \in Power /\ pmThermal' \in Thermal /\ notices' \in Seq(Notices)
  <2>1. ASSUME NEW state \in Power, Change(state), UNCHANGED pmThermal
        PROVE  /\ NoticesInv' /\ pmPower' \in Power /\ pmThermal' \in Thermal
               /\ notices' \in Seq(Notices)
    <3>1. pmThermal \in Thermal
      BY DEF Inv, TypeInv, PowerTypeOK
    <3>2. QED
      BY <1>1, <2>1, <3>1, ChangeTold DEF Inv
  <2>2. ASSUME NEW level \in Thermal, pmThermal' = level, UNCHANGED pmPower,
               notices' = Append(notices, [kind |-> "thermal", old |-> pmThermal, new |-> level])
        PROVE  /\ NoticesInv' /\ pmPower' \in Power /\ pmThermal' \in Thermal
               /\ notices' \in Seq(Notices)
    <3>1. pmPower \in Power
      BY DEF Inv, TypeInv, PowerTypeOK
    <3>2. QED
      BY <1>1, <2>2, <3>1, LevelChanges DEF Inv
  <2>3. QED
    BY <2>1, <2>2 DEF PowerManagerChanges
<1>3. CallsOK'
  BY <1>1, CallsStay DEF Inv, TypeInv
<1>4. TypeInv'
  BY <1>1, <1>2, <1>3 DEF Inv, TypeInv, PowerTypeOK, cacheVars
<1>5. ReasonInv'
  BY <1>1, ReasonStays DEF Inv
<1>6. CacheInv'
  BY <1>1, CacheStays DEF Inv
<1>7. QED
  BY <1>2, <1>4, <1>5, <1>6 DEF Inv

\* A notification that is handled changes only what clients were told.
LEMMA HandledSafe ==
  ASSUME Inv, NoticesInv', notices # <<>>, notices' = Tail(notices),
         UNCHANGED <<requests, pmPower, pmThermal, pmBeforeReboot, pmTimer, pmWakeup,
                     reasonVars, cacheVars>>
  PROVE  Inv'
<1>1. /\ UNCHANGED <<pc, local, spoiled, standbyReason, lastReason, pmBeforeReboot>>
      /\ UNCHANGED <<cacheVars, m_powerStateBeforeRebootValid>>
  BY DEF requests, reasonVars, cacheVars
<1>2. CallsOK'
  BY <1>1, CallsStay DEF Inv, TypeInv
<1>3. notices' \in Seq(Notices)
  BY Taken DEF Inv, TypeInv
<1>4. TypeInv'
  BY <1>1, <1>2, <1>3 DEF Inv, TypeInv, PowerTypeOK
<1>5. ReasonInv'
  BY <1>1, ReasonStays DEF Inv
<1>6. CacheInv'
  BY <1>1, CacheStays DEF Inv
<1>7. QED
  BY <1>4, <1>5, <1>6 DEF Inv

LEMMA EventsSafe ==
  ASSUME Inv, OnPowerModeChanged \/ OnThermalModeChanged \/ OnRebootBegin
  PROVE  Inv'
<1>1. CASE OnPowerModeChanged
  <2>1. NoticesInv'
    BY <1>1, OnPowerModeChangedTold DEF Inv
  <2>2. QED
    BY <1>1, <2>1, HandledSafe DEF OnPowerModeChanged, Notified
<1>2. CASE OnThermalModeChanged
  <2>1. NoticesInv'
    BY <1>2, OnThermalModeChangedTold DEF Inv
  <2>2. QED
    BY <1>2, <2>1, HandledSafe DEF OnThermalModeChanged, Notified
<1>3. CASE OnRebootBegin
  <2>1. /\ notices # <<>> /\ notices' = Tail(notices) /\ Head(notices).kind = "reboot"
        /\ UNCHANGED <<pmPower, pmThermal, powerTold, thermalTold>>
    BY <1>3 DEF OnRebootBegin, Notified
  <2>2. NoticesInv'
    BY <2>1, OtherTaken DEF Inv, NoticesInv
  <2>3. QED
    BY <1>3, <2>1, <2>2, HandledSafe DEF OnRebootBegin
<1>4. QED
  BY <1>1, <1>2, <1>3

\* The file outlives the process; the cache and what clients were told do not.
LEMMA RestartSafe ==
  ASSUME Inv, PowerRestarts
  PROVE  Inv'
<1>1. /\ pc' = [v \in Workers |-> "idle"] /\ local' = [v \in Workers |-> NoCall]
      /\ spoiled' = spoiled \cup
           {[part |-> local[v].part, cause |-> "crash"] : v \in {u \in Workers : pc[u] # "idle"}}
      /\ UNCHANGED <<standbyReason, lastReason, pmPower, pmThermal, pmTimer, pmWakeup>>
      /\ beforeRebootAnswer' = "none" /\ notices' = <<>>
  BY DEF PowerRestarts, Abandon
<1>2. CallsOK'
  BY <1>1 DEF CallsOK, PowerPlaces, ReasonPlaces, CachePlaces
<1>3. TypeInv'
  <2>1. PowerTypeOK'
    <3>1. m_powerStateBeforeRebootValid' \in BOOLEAN
      BY DEF PowerRestarts
    <3>2. QED
      BY <1>1, <3>1 DEF Inv, TypeInv, PowerTypeOK
  <2>2. notices' \in Seq(Notices)
    BY <1>1, NoNotices
  <2>3. QED
    BY <1>2, <2>1, <2>2 DEF TypeInv
<1>4. ReasonInv'
  <2> SUFFICES ASSUME Clean' PROVE standbyReason' = lastReason'
    BY <1>1 DEF ReasonInv, PowerPlaces, ReasonPlaces
  <2>1. Clean
    BY <1>1 DEF Clean
  <2>2. ASSUME NEW v \in Workers PROVE pc[v] \notin PowerPlaces
    <3> SUFFICES ASSUME pc[v] \in PowerPlaces PROVE FALSE
      OBVIOUS
    <3>1. local[v].part = "power" /\ pc[v] # "idle"
      BY DEF Inv, TypeInv, CallsOK, PowerCalls, PowerPlaces, ReasonPlaces
    <3>2. [part |-> local[v].part, cause |-> "crash"] \in spoiled'
      BY <1>1, <3>1
    <3>3. QED
      BY <3>1, <3>2 DEF Clean
  <2>3. QED
    BY <1>1, <2>1, <2>2 DEF Inv, ReasonInv, PowerPlaces
<1>5. CacheInv'
  <2>1. ~m_powerStateBeforeRebootValid'
    BY DEF PowerRestarts
  <2>2. QED
    BY <1>1, <2>1 DEF CacheInv
<1>6. NoticesInv'
  BY RestartTold DEF Inv
<1>7. QED
  BY <1>3, <1>4, <1>5, <1>6 DEF Inv

-----------------------------------------------------------------------------
(* SetPowerState.                                                          *)

\* A step of a call of SetPowerState has nothing to do with the cache.
LEMMA PowerCallMoves ==
  ASSUME Inv, NEW w \in Workers, NEW to \in PowerPlaces \union {"idle"}, NEW values,
         values \in PowerCalls \union {NoCall}, to \in PowerPlaces => values \in PowerCalls,
         MovesTo(w, to, values), UNCHANGED <<cacheVars, pmBeforeReboot>>
  PROVE  /\ CallsOK' /\ CacheInv'
         /\ pc'[w] = to /\ local'[w] = values
         /\ \A v \in Workers \ {w} : pc'[v] = pc[v] /\ local'[v] = local[v]
<1>1. to \notin CachePlaces
  BY DEF PowerPlaces, ReasonPlaces, CachePlaces
<1>2. /\ CallsOK' /\ pc'[w] = to /\ local'[w] = values
      /\ \A v \in Workers \ {w} : pc'[v] = pc[v] /\ local'[v] = local[v]
  BY <1>1, CallsMove DEF Inv, TypeInv
<1>3. \A v \in Workers : pc'[v] = "cacheValid" => pc[v] = "cacheValid"
  BY <1>1, <1>2 DEF CachePlaces
<1>4. CacheInv'
  BY <1>3, CacheStays DEF Inv
<1>5. QED
  BY <1>2, <1>4

\* A call that asks for a power state begins.
LEMMA PowerCallStarts ==
  ASSUME Inv, NEW w \in Workers, NEW to \in {"callPower", "setCurrent"}, NEW values \in PowerCalls,
         Start(w, to, values), Overlaps("power"), UNCHANGED powerVars
  PROVE  Inv'
<1>1. /\ pc[w] = "idle" /\ pc' = [pc EXCEPT ![w] = to]
      /\ local' = [local EXCEPT ![w] = values]
  BY DEF Start
<1>2. /\ CallsOK' /\ CacheInv' /\ pc'[w] = to
      /\ \A v \in Workers \ {w} : pc'[v] = pc[v] /\ local'[v] = local[v]
  <2>1. to \in PowerPlaces
    BY DEF PowerPlaces
  <2>2. UNCHANGED <<cacheVars, pmBeforeReboot>>
    BY DEF powerVars, pmVars
  <2>3. MovesTo(w, to, values)
    BY <1>1 DEF MovesTo
  <2>4. QED
    BY <2>1, <2>2, <2>3, PowerCallMoves
<1>3. TypeInv'
  BY <1>2, TypesStay DEF Inv, powerVars, reasonVars, cacheVars
<1>4. NoticesInv'
  BY NoticesKept DEF Inv, powerVars, pmVars, toldVars
<1>5. ReasonInv'
  <2>1. CASE Busy("power")
    <3>1. ~Clean'
      BY <2>1, Spoiled DEF Overlaps
    <3>2. QED
      BY <3>1 DEF ReasonInv
  <2>2. CASE ~Busy("power")
    <3>1. ASSUME NEW v \in Workers PROVE pc[v] \notin PowerPlaces
      BY <2>2 DEF Busy, Inv, TypeInv, CallsOK, PowerCalls, PowerPlaces, ReasonPlaces
    <3>2. Clean' => Clean
      BY <2>2 DEF Overlaps, Clean
    <3>3. Clean => standbyReason = lastReason
      BY <3>1 DEF Inv, ReasonInv, PowerPlaces
    <3>4. \A v \in Workers : pc'[v] \in PowerPlaces => v = w
      BY <1>2, <3>1
    <3>5. \A v \in Workers : pc'[v] \notin ReasonPlaces
      BY <1>2, <3>1 DEF PowerPlaces, ReasonPlaces
    <3>6. UNCHANGED <<standbyReason, lastReason>>
      BY DEF powerVars, reasonVars
    <3>7. QED
      BY <3>2, <3>3, <3>4, <3>5, <3>6 DEF ReasonInv
  <2>3. QED
    BY <2>1, <2>2
<1>6. QED
  BY <1>2, <1>3, <1>4, <1>5 DEF Inv

LEMMA SetPowerStateSafe ==
  ASSUME Inv, NEW w \in Workers, NEW asked \in Asked, NEW reason \in Reasons \union {"none"},
         SetPowerState(w, asked, reason)
  PROVE  Inv'
<1>1. PICK preferred \in Sleeps :
        Start(w, "callPower",
          [part |-> "power", asked |-> asked,
           reason |-> IF reason = "none" THEN "application" ELSE reason,
           state |-> setPowerStateConversion(asked, preferred)])
  BY DEF SetPowerState
<1> DEFINE values == [part |-> "power", asked |-> asked,
                      reason |-> IF reason = "none" THEN "application" ELSE reason,
                      state |-> setPowerStateConversion(asked, preferred)]
<1>2. values \in PowerCalls
  <2>1. setPowerStateConversion(asked, preferred) \in Power
    BY DEF setPowerStateConversion, Asked, Sleeps, Power
  <2>2. (IF reason = "none" THEN "application" ELSE reason) \in Reasons
    BY PowerControlAssumption
  <2>3. QED
    BY <2>1, <2>2 DEF PowerCalls
<1>3. QED
  BY <1>1, <1>2, PowerCallStarts DEF SetPowerState, values

\* What a worker at a place of SetPowerState serves.
LEMMA PowerCall ==
  ASSUME Inv, NEW w \in Workers, pc[w] \in PowerPlaces
  PROVE  /\ local[w] \in PowerCalls
         /\ local[w].reason \in Reasons /\ local[w].state \in Power
  BY DEF Inv, TypeInv, CallsOK, PowerCalls

LEMMA CallPowerSafe ==
  ASSUME Inv, NEW w \in Workers, CallPower(w)
  PROVE  Inv'
<1> DEFINE to == IF local[w].asked \in Sleeps THEN "openReason" ELSE "setCurrent"
<1>1. /\ pc[w] = "callPower" /\ pc' = [pc EXCEPT ![w] = to]
      /\ local' = [local EXCEPT ![w] = local[w]]
  BY DEF CallPower, Step
<1>2. /\ UNCHANGED <<pmThermal, pmBeforeReboot, pmTimer, pmWakeup, standbyReason>>
      /\ UNCHANGED <<cacheVars, powerTold, thermalTold>>
  BY DEF CallPower, toldVars
<1>3. /\ local[w] \in PowerCalls /\ local[w].reason \in Reasons /\ local[w].state \in Power
  BY <1>1, PowerCall DEF PowerPlaces
<1>4. to \in PowerPlaces /\ to # "idle"
  BY DEF PowerPlaces, ReasonPlaces
<1> HIDE DEF to
<1>5. /\ CallsOK' /\ CacheInv' /\ pc'[w] = to /\ local'[w] = local[w]
      /\ \A v \in Workers \ {w} : pc'[v] = pc[v] /\ local'[v] = local[v]
  <2>1. MovesTo(w, to, local[w])
    BY <1>1, <1>2 DEF MovesTo
  <2>2. QED
    BY <1>1, <1>2, <1>3, <1>4, <2>1, PowerCallMoves
<1>6. CASE /\ Change(local[w].state)
           /\ lastReason' = IF local[w].asked \in Sleeps THEN local[w].reason ELSE lastReason
           /\ UNCHANGED spoiled
  <2>1. NoticesInv' /\ pmPower' \in Power /\ notices' \in Seq(Notices)
    BY <1>2, <1>3, <1>6, ChangeTold DEF Inv
  <2>2. TypeInv'
    <3>1. lastReason' \in Reasons \union {"none"}
      BY <1>3, <1>6 DEF Inv, TypeInv, PowerTypeOK
    <3>2. QED
      BY <1>2, <1>5, <2>1, <3>1 DEF Inv, TypeInv, PowerTypeOK, cacheVars
  <2>3. ReasonInv'
    <3> SUFFICES ASSUME Clean' PROVE
          /\ \A u, v \in Workers : pc'[u] \in PowerPlaces /\ pc'[v] \in PowerPlaces => u = v
          /\ \A v \in Workers : pc'[v] \in ReasonPlaces => local'[v].reason = lastReason'
          /\ (\A v \in Workers : pc'[v] \notin ReasonPlaces) => standbyReason' = lastReason'
      BY DEF ReasonInv
    <3>1. Clean
      BY <1>6 DEF Clean
    <3>2. \A v \in Workers : pc[v] \in PowerPlaces => v = w
      BY <1>1, <3>1 DEF Inv, ReasonInv, PowerPlaces
    <3>3. \A v \in Workers : pc'[v] \in PowerPlaces => v = w
      BY <1>5, <3>2
    <3>4. CASE local[w].asked \in Sleeps
      <4>1. pc'[w] \in ReasonPlaces /\ lastReason' = local'[w].reason
        BY <1>5, <1>6, <3>4 DEF to, ReasonPlaces
      <4>2. QED
        BY <3>3, <4>1 DEF PowerPlaces
    <3>5. CASE local[w].asked \notin Sleeps
      <4>1. pc'[w] \notin ReasonPlaces /\ lastReason' = lastReason
        BY <1>5, <1>6, <3>5 DEF to, ReasonPlaces
      <4>2. \A v \in Workers : pc[v] \notin ReasonPlaces
        BY <1>1, <3>2 DEF PowerPlaces, ReasonPlaces
      <4>3. standbyReason = lastReason
        BY <3>1, <4>2 DEF Inv, ReasonInv
      <4>4. QED
        BY <1>2, <3>3, <4>1, <4>3 DEF PowerPlaces
    <3>6. QED
      BY <3>4, <3>5
  <2>4. QED
    BY <1>5, <2>1, <2>2, <2>3 DEF Inv
<1>7. CASE Spoil("power", "failure") /\ UNCHANGED <<pmPower, notices, lastReason>>
  <2>1. ReasonInv'
    BY <1>7, Spoiled DEF ReasonInv
  <2>2. NoticesInv'
    BY <1>2, <1>7, NoticesKept DEF Inv
  <2>3. TypeInv'
    BY <1>2, <1>5, <1>7 DEF Inv, TypeInv, PowerTypeOK, cacheVars
  <2>4. QED
    BY <1>5, <2>1, <2>2, <2>3 DEF Inv
<1>8. QED
  BY <1>6, <1>7 DEF CallPower

\* The steps after the call change the file and m_current_state only.
LEMMA AfterTheCall ==
  ASSUME Inv, NEW w \in Workers, pc[w] \in PowerPlaces,
         NEW to \in PowerPlaces \union {"idle"}, NEW values,
         values \in PowerCalls \union {NoCall}, to \in PowerPlaces => values \in PowerCalls,
         pc' = [pc EXCEPT ![w] = to], local' = [local EXCEPT ![w] = values],
         UNCHANGED <<pmVars, lastReason, cacheVars, toldVars>>,
         standbyReason' \in Reasons \union {"none"}
  PROVE  /\ TypeInv' /\ CacheInv' /\ NoticesInv'
         /\ pc'[w] = to /\ local'[w] = values
         /\ \A v \in Workers \ {w} : pc'[v] = pc[v] /\ local'[v] = local[v]
<1>1. UNCHANGED <<pmPower, pmThermal, pmTimer, pmWakeup, notices, pmBeforeReboot,
                  m_powerStateBeforeRebootValid, lastReason, powerTold, thermalTold>>
  BY DEF pmVars, cacheVars, toldVars
<1>2. /\ CallsOK' /\ CacheInv' /\ pc'[w] = to /\ local'[w] = values
      /\ \A v \in Workers \ {w} : pc'[v] = pc[v] /\ local'[v] = local[v]
  <2>1. MovesTo(w, to, values)
    BY DEF MovesTo
  <2>2. QED
    BY <1>1, <2>1, PowerCallMoves
<1>3. TypeInv'
  BY <1>1, <1>2 DEF Inv, TypeInv, PowerTypeOK
<1>4. NoticesInv'
  BY <1>1, NoticesKept DEF Inv
<1>5. QED
  BY <1>2, <1>3, <1>4

LEMMA OpenReasonSafe ==
  ASSUME Inv, NEW w \in Workers, OpenReason(w)
  PROVE  Inv'
<1>1. pc[w] = "openReason" /\ UNCHANGED <<pmVars, lastReason, cacheVars, toldVars>>
  BY DEF OpenReason
<1>2. local[w] \in PowerCalls /\ pc[w] \in PowerPlaces /\ pc[w] \in ReasonPlaces
  BY <1>1, PowerCall DEF PowerPlaces, ReasonPlaces
<1>3. CASE standbyReason' = "none" /\ Step(w, "writeReason", local[w]) /\ UNCHANGED spoiled
  <2>1. "writeReason" \in ReasonPlaces /\ "writeReason" \in PowerPlaces
    BY DEF PowerPlaces, ReasonPlaces
  <2>2. /\ TypeInv' /\ CacheInv' /\ NoticesInv'
        /\ pc'[w] = "writeReason" /\ local'[w] = local[w]
        /\ \A v \in Workers \ {w} : pc'[v] = pc[v] /\ local'[v] = local[v]
    BY <1>1, <1>2, <1>3, <2>1, AfterTheCall DEF Step
  <2>3. ReasonInv'
    <3>1. Clean' => Clean
      BY <1>3 DEF Clean
    <3>2. QED
      BY <1>1, <1>2, <2>1, <2>2, <3>1 DEF Inv, ReasonInv
  <2>4. QED
    BY <2>2, <2>3 DEF Inv
<1>4. CASE UNCHANGED standbyReason /\ Step(w, "setCurrent", local[w]) /\ Spoil("power", "failure")
  <2>1. "setCurrent" \in PowerPlaces /\ standbyReason' \in Reasons \union {"none"}
    BY <1>4 DEF PowerPlaces, Inv, TypeInv, PowerTypeOK
  <2>2. TypeInv' /\ CacheInv' /\ NoticesInv'
    BY <1>1, <1>2, <1>4, <2>1, AfterTheCall DEF Step
  <2>3. ReasonInv'
    BY <1>4, Spoiled DEF ReasonInv
  <2>4. QED
    BY <2>2, <2>3 DEF Inv
<1>5. QED
  BY <1>3, <1>4 DEF OpenReason

LEMMA WriteReasonSafe ==
  ASSUME Inv, NEW w \in Workers, WriteReason(w)
  PROVE  Inv'
<1>1. /\ pc[w] = "writeReason" /\ UNCHANGED <<pmVars, lastReason, cacheVars, toldVars>>
      /\ pc' = [pc EXCEPT ![w] = "setCurrent"] /\ local' = [local EXCEPT ![w] = local[w]]
  BY DEF WriteReason, Step
<1>2. /\ local[w] \in PowerCalls /\ local[w].reason \in Reasons
      /\ pc[w] \in PowerPlaces /\ pc[w] \in ReasonPlaces
  BY <1>1, PowerCall DEF PowerPlaces, ReasonPlaces
<1>3. standbyReason' \in Reasons \union {"none"}
  <2>1. standbyReason \in Reasons \union {"none"}
    BY DEF Inv, TypeInv, PowerTypeOK
  <2>2. QED
    BY <1>2, <2>1 DEF WriteReason
<1>4. "setCurrent" \in PowerPlaces \ ReasonPlaces
  BY DEF PowerPlaces, ReasonPlaces
<1>5. /\ TypeInv' /\ CacheInv' /\ NoticesInv'
      /\ pc'[w] = "setCurrent" /\ local'[w] = local[w]
      /\ \A v \in Workers \ {w} : pc'[v] = pc[v] /\ local'[v] = local[v]
  BY <1>1, <1>2, <1>3, <1>4, AfterTheCall
<1>6. ReasonInv'
  <2>1. CASE standbyReason' = local[w].reason /\ UNCHANGED spoiled
    <3> SUFFICES ASSUME Clean PROVE
          /\ \A u, v \in Workers : pc'[u] \in PowerPlaces /\ pc'[v] \in PowerPlaces => u = v
          /\ \A v \in Workers : pc'[v] \notin ReasonPlaces
          /\ standbyReason' = lastReason'
      BY <2>1 DEF ReasonInv, Clean
    <3>1. \A v \in Workers : pc[v] \in PowerPlaces => v = w
      BY <1>2 DEF Inv, ReasonInv
    <3>2. \A v \in Workers : pc'[v] \in PowerPlaces => v = w
      BY <1>5, <3>1
    <3>3. \A v \in Workers : pc'[v] \notin ReasonPlaces
      BY <1>4, <1>5, <3>2 DEF PowerPlaces
    <3>4. local[w].reason = lastReason
      BY <1>2 DEF Inv, ReasonInv
    <3>5. QED
      BY <1>1, <2>1, <3>2, <3>3, <3>4
  <2>2. CASE Spoil("power", "failure")
    BY <2>2, Spoiled DEF ReasonInv
  <2>3. QED
    BY <2>1, <2>2 DEF WriteReason
<1>7. QED
  BY <1>5, <1>6 DEF Inv

LEMMA SetCurrentSafe ==
  ASSUME Inv, NEW w \in Workers, SetCurrent(w)
  PROVE  Inv'
<1>1. /\ pc[w] = "setCurrent"
      /\ UNCHANGED <<spoiled, pmVars, standbyReason, lastReason, cacheVars, toldVars>>
      /\ pc' = [pc EXCEPT ![w] = "idle"] /\ local' = [local EXCEPT ![w] = NoCall]
  BY DEF SetCurrent, Finish, Step
<1>2. pc[w] \in PowerPlaces \ ReasonPlaces /\ "idle" \notin PowerPlaces
  BY <1>1 DEF PowerPlaces, ReasonPlaces
<1>3. standbyReason' \in Reasons \union {"none"}
  BY <1>1 DEF Inv, TypeInv, PowerTypeOK
<1>4. /\ TypeInv' /\ CacheInv' /\ NoticesInv' /\ pc'[w] = "idle"
      /\ \A v \in Workers \ {w} : pc'[v] = pc[v] /\ local'[v] = local[v]
  BY <1>1, <1>2, <1>3, AfterTheCall
<1>5. ReasonInv'
  <2>1. Clean' => Clean
    BY <1>1 DEF Clean
  <2>2. \A v \in Workers : pc'[v] \in ReasonPlaces <=> pc[v] \in ReasonPlaces
    BY <1>2, <1>4 DEF PowerPlaces
  <2>3. \A v \in Workers : pc'[v] \in PowerPlaces => pc[v] \in PowerPlaces
    BY <1>2, <1>4
  <2>4. \A v \in Workers : pc'[v] \in ReasonPlaces => local'[v] = local[v]
    BY <1>2, <1>4 DEF PowerPlaces
  <2>5. QED
    BY <1>1, <2>1, <2>2, <2>3, <2>4 DEF Inv, ReasonInv
<1>6. QED
  BY <1>4, <1>5 DEF Inv

-----------------------------------------------------------------------------
(* The state before the reboot, wake-up and reboot.                        *)

\* A call of another method leaves the power state and its reason alone.
LEMMA OthersSafe ==
  ASSUME Inv, CallsOK', CacheInv', UNCHANGED <<spoiled, pmVars, reasonVars, toldVars>>,
         m_powerStateBeforeRebootValid' \in BOOLEAN,
         \A v \in Workers :
           \/ pc'[v] = pc[v] /\ local'[v] = local[v]
           \/ pc[v] \notin PowerPlaces /\ pc'[v] \notin PowerPlaces
  PROVE  Inv'
<1>1. UNCHANGED <<pmPower, pmThermal, pmTimer, pmWakeup, notices, standbyReason, lastReason,
                  powerTold, thermalTold>>
  BY DEF pmVars, reasonVars, toldVars
<1>2. TypeInv'
  BY <1>1 DEF Inv, TypeInv, PowerTypeOK
<1>3. ReasonInv'
  BY <1>1, ReasonStays DEF Inv
<1>4. NoticesInv'
  BY <1>1, NoticesKept DEF Inv
<1>5. QED
  BY <1>2, <1>3, <1>4 DEF Inv

LEMMA NothingSafe == ASSUME Inv, UNCHANGED <<spoiled, pc, local, powerVars>> PROVE Inv'
<1>1. /\ UNCHANGED <<spoiled, pmVars, reasonVars, toldVars, cacheVars, pc, local>>
      /\ UNCHANGED <<pmBeforeReboot, m_powerStateBeforeRebootValid>>
  BY DEF powerVars, pmVars, cacheVars
<1>2. CallsOK' /\ m_powerStateBeforeRebootValid' \in BOOLEAN
  BY <1>1, CallsStay DEF Inv, TypeInv, PowerTypeOK
<1>3. CacheInv'
  BY <1>1, CacheStays DEF Inv
<1>4. QED
  BY <1>1, <1>2, <1>3, OthersSafe

LEMMA OtherStatesSafe ==
  ASSUME Inv, NEW w \in Workers, SetUnknownState(w) \/ SetNoState(w) PROVE Inv'
<1>1. CASE SetUnknownState(w)
  <2> DEFINE values == [part |-> "power", asked |-> "other", reason |-> "application",
                        state |-> "off"]
  <2>1. values \in PowerCalls
    BY PowerControlAssumption DEF PowerCalls, Power
  <2>2. Start(w, "setCurrent", values) /\ Overlaps("power") /\ UNCHANGED powerVars
    BY <1>1 DEF SetUnknownState
  <2> HIDE DEF values
  <2>3. QED
    BY <2>1, <2>2, PowerCallStarts
<1>2. CASE SetNoState(w)
  <2>1. UNCHANGED <<spoiled, pc, local, powerVars>>
    BY <1>2 DEF SetNoState, Instant
  <2>2. QED
    BY <2>1, NothingSafe
<1>3. QED
  BY <1>1, <1>2

LEMMA GetPowerStateBeforeRebootSafe ==
  ASSUME Inv, NEW w \in Workers, GetPowerStateBeforeReboot(w)
  PROVE  Inv'
<1>1. UNCHANGED <<spoiled, pmVars, reasonVars, toldVars, m_powerStateBeforeReboot,
                  m_powerStateBeforeRebootValid, pmBeforeReboot>>
  BY DEF GetPowerStateBeforeReboot, pmVars
<1>2. m_powerStateBeforeRebootValid' \in BOOLEAN
  BY <1>1 DEF Inv, TypeInv, PowerTypeOK
<1>3. CASE /\ m_powerStateBeforeRebootValid /\ Instant(w, "beforeReboot")
           /\ beforeRebootAnswer' = m_powerStateBeforeReboot
  <2>1. UNCHANGED <<pc, local>>
    BY <1>3 DEF Instant
  <2>2. CallsOK'
    BY <2>1, CallsStay DEF Inv, TypeInv
  <2>3. CacheInv'
    BY <1>1, <1>3, <2>1 DEF Inv, CacheInv, BeforeReboot
  <2>4. QED
    BY <1>1, <1>2, <2>1, <2>2, <2>3, OthersSafe
<1>4. CASE /\ Start(w, "cacheState", [part |-> "beforeReboot"])
           /\ beforeRebootAnswer' = BeforeReboot
  <2> DEFINE values == [part |-> "beforeReboot"]
  <2>1. values \in CacheCalls /\ values.part = "beforeReboot"
    BY DEF CacheCalls
  <2> HIDE DEF values
  <2>2. /\ pc[w] = "idle" /\ pc' = [pc EXCEPT ![w] = "cacheState"]
        /\ local' = [local EXCEPT ![w] = values]
    BY <1>4 DEF Start, values
  <2>3. "cacheState" \in CachePlaces /\ {"cacheState", "idle"} \cap PowerPlaces = {}
    BY DEF CachePlaces, PowerPlaces, ReasonPlaces
  <2>4. /\ CallsOK' /\ pc'[w] = "cacheState"
        /\ \A v \in Workers \ {w} : pc'[v] = pc[v] /\ local'[v] = local[v]
    <3>1. MovesTo(w, "cacheState", values)
      BY <2>2 DEF MovesTo
    <3>2. QED
      BY <2>1, <2>3, <3>1, CallsMove DEF Inv, TypeInv
  <2>5. CacheInv'
    <3>1. \A v \in Workers : pc'[v] = "cacheValid" => pc[v] = "cacheValid"
      BY <2>4
    <3>2. QED
      BY <1>1, <1>4, <3>1 DEF Inv, CacheInv, BeforeReboot
  <2>6. QED
    BY <1>1, <1>2, <2>2, <2>3, <2>4, <2>5, OthersSafe
<1>5. QED
  BY <1>3, <1>4 DEF GetPowerStateBeforeReboot, BeforeReboot

LEMMA CacheStateSafe ==
  ASSUME Inv, NEW w \in Workers, CacheState(w)
  PROVE  Inv'
<1>1. UNCHANGED <<spoiled, pmVars, reasonVars, toldVars, beforeRebootAnswer, pmBeforeReboot>>
  BY DEF CacheState, pmVars
<1>2. /\ pc[w] \in CachePlaces /\ CachePlaces \cap PowerPlaces = {} /\ "idle" \notin PowerPlaces
      /\ "cacheValid" \in CachePlaces
  BY DEF CacheState, CachePlaces, PowerPlaces, ReasonPlaces
<1>3. CASE pc[w] = "cacheState"
  <2>1. /\ m_powerStateBeforeReboot' = BeforeReboot /\ UNCHANGED m_powerStateBeforeRebootValid
        /\ pc' = [pc EXCEPT ![w] = "cacheValid"] /\ local' = [local EXCEPT ![w] = local[w]]
    BY <1>3 DEF CacheState, Step, BeforeReboot
  <2>2. local[w] \in CacheCalls \union PowerCalls \union {NoCall} /\ local[w].part = "beforeReboot"
    BY <1>2 DEF Inv, TypeInv, CallsOK
  <2>3. /\ CallsOK' /\ pc'[w] = "cacheValid"
        /\ \A v \in Workers \ {w} : pc'[v] = pc[v] /\ local'[v] = local[v]
    <3>1. MovesTo(w, "cacheValid", local[w])
      BY <2>1 DEF MovesTo
    <3>2. QED
      BY <1>2, <2>2, <3>1, CallsMove DEF Inv, TypeInv
  <2>4. CacheInv'
    BY <1>1, <2>1 DEF Inv, CacheInv, BeforeReboot
  <2>5. m_powerStateBeforeRebootValid' \in BOOLEAN
    BY <2>1 DEF Inv, TypeInv, PowerTypeOK
  <2>6. QED
    BY <1>1, <1>2, <2>3, <2>4, <2>5, OthersSafe
<1>4. CASE pc[w] # "cacheState"
  <2>1. /\ pc[w] = "cacheValid" /\ UNCHANGED m_powerStateBeforeReboot
        /\ pc' = [pc EXCEPT ![w] = "idle"] /\ local' = [local EXCEPT ![w] = NoCall]
    BY <1>4 DEF CacheState, Finish, Step
  <2>2. m_powerStateBeforeRebootValid' \in BOOLEAN
    BY <1>4 DEF CacheState
  <2>3. /\ CallsOK' /\ pc'[w] = "idle"
        /\ \A v \in Workers \ {w} : pc'[v] = pc[v] /\ local'[v] = local[v]
    <3>1. "idle" \notin CachePlaces
      BY DEF CachePlaces
    <3>2. MovesTo(w, "idle", NoCall)
      BY <2>1 DEF MovesTo
    <3>3. QED
      BY <1>2, <3>1, <3>2, CallsMove DEF Inv, TypeInv
  <2>4. CacheInv'
    <3>1. m_powerStateBeforeReboot = BeforeReboot
      BY <2>1 DEF Inv, CacheInv
    <3>2. QED
      BY <1>1, <2>1, <3>1 DEF Inv, CacheInv, BeforeReboot
  <2>5. QED
    BY <1>1, <1>2, <2>2, <2>3, <2>4, OthersSafe
<1>5. QED
  BY <1>3, <1>4

\* A call of one step that only asks PowerManager.
LEMMA AskedSafe ==
  ASSUME Inv, NEW w \in Workers, Instant(w, "wakeup"), NoticesInv', notices' \in Seq(Notices),
         pmTimer' \in Nat /\ pmTimer' <= 864000 /\ pmWakeup' \subseteq WakeupSources \ {"unknown"},
         UNCHANGED <<spoiled, pmPower, pmThermal, pmBeforeReboot, reasonVars, cacheVars>>
  PROVE  Inv'
<1>1. UNCHANGED <<pc, local, standbyReason, lastReason, m_powerStateBeforeRebootValid>>
  BY DEF Instant, reasonVars, cacheVars
<1>2. CallsOK'
  BY <1>1, CallsStay DEF Inv, TypeInv
<1>3. TypeInv'
  BY <1>1, <1>2 DEF Inv, TypeInv, PowerTypeOK
<1>4. ReasonInv'
  BY <1>1, ReasonStays DEF Inv
<1>5. CacheInv'
  BY <1>1, CacheStays DEF Inv
<1>6. QED
  BY <1>3, <1>4, <1>5 DEF Inv

LEMMA WakeupAndRebootSafe ==
  ASSUME Inv, NEW w \in Workers
  PROVE  /\ Reboot(w) => Inv'
         /\ \A seconds \in Seconds : SetDeepSleepTimer(w, seconds) => Inv'
         /\ \A sources \in SUBSET WakeupSources : SetWakeupSrcConfiguration(w, sources) => Inv'
<1>1. /\ pmTimer \in Nat /\ pmTimer <= 864000 /\ pmWakeup \subseteq WakeupSources \ {"unknown"}
      /\ notices \in Seq(Notices)
  BY DEF Inv, TypeInv, PowerTypeOK
<1>2. ASSUME Reboot(w) PROVE Inv'
  <2>1. /\ Instant(w, "wakeup")
        /\ UNCHANGED <<spoiled, pmPower, pmThermal, pmBeforeReboot, reasonVars, cacheVars>>
        /\ UNCHANGED <<pmTimer, pmWakeup, powerTold, thermalTold>>
        /\ \/ notices' = Append(notices, [kind |-> "reboot", old |-> "none", new |-> "none"])
           \/ UNCHANGED notices
    BY <1>2 DEF Reboot, toldVars
  <2>2. NoticesInv' /\ notices' \in Seq(Notices)
    <3>1. CASE UNCHANGED notices
      BY <1>1, <2>1, <3>1, NoticesKept DEF Inv
    <3>2. QED
      BY <2>1, <3>1, RebootTold DEF Inv
  <2>3. QED
    BY <1>1, <2>1, <2>2, AskedSafe
<1>3. ASSUME NEW seconds \in Seconds, SetDeepSleepTimer(w, seconds) PROVE Inv'
  <2>1. /\ Instant(w, "wakeup")
        /\ UNCHANGED <<spoiled, pmPower, pmThermal, pmBeforeReboot, reasonVars, cacheVars>>
        /\ UNCHANGED <<pmWakeup, powerTold, thermalTold, notices>>
        /\ pmTimer' \in {timeoutValue(seconds), pmTimer}
    BY <1>3 DEF SetDeepSleepTimer, toldVars
  <2>2. timeoutValue(seconds) \in Nat /\ timeoutValue(seconds) <= 864000
    BY PowerControlAssumption DEF timeoutValue
  <2>3. NoticesInv'
    BY <2>1, NoticesKept DEF Inv
  <2>4. QED
    BY <1>1, <2>1, <2>2, <2>3, AskedSafe
<1>4. ASSUME NEW sources \in SUBSET WakeupSources, SetWakeupSrcConfiguration(w, sources) PROVE Inv'
  <2>1. /\ Instant(w, "wakeup")
        /\ UNCHANGED <<spoiled, pmPower, pmThermal, pmBeforeReboot, reasonVars, cacheVars>>
        /\ UNCHANGED <<pmTimer, powerTold, thermalTold, notices>>
        /\ pmWakeup' \in {sources \ {"unknown"}, pmWakeup}
    BY <1>4 DEF SetWakeupSrcConfiguration, toldVars
  <2>2. NoticesInv'
    BY <2>1, NoticesKept DEF Inv
  <2>3. QED
    BY <1>1, <2>1, <2>2, AskedSafe
<1>5. QED
  BY <1>2, <1>3, <1>4

-----------------------------------------------------------------------------
(* Every step, and the theorems.                                           *)

LEMMA NextSafe == Inv /\ [PowerNext]_vars => Inv'
<1> SUFFICES ASSUME Inv, [PowerNext]_vars PROVE Inv'
  OBVIOUS
<1>1. CASE PowerManagerChanges \/ PowerRestarts
  BY <1>1, PowerManagerChangesSafe, RestartSafe
<1>2. CASE OnPowerModeChanged \/ OnThermalModeChanged \/ OnRebootBegin
  BY <1>2, EventsSafe
<1>3. ASSUME NEW w \in Workers, PowerStep(w) PROVE Inv'
  <2>1. CASE CallPower(w) \/ OpenReason(w) \/ WriteReason(w) \/ SetCurrent(w)
    BY <2>1, CallPowerSafe, OpenReasonSafe, WriteReasonSafe, SetCurrentSafe
  <2>2. CASE GetPowerStateBeforeReboot(w) \/ CacheState(w)
    BY <2>2, GetPowerStateBeforeRebootSafe, CacheStateSafe
  <2>3. CASE \E asked \in Sleeps \cup {"ON", "STANDBY"}, reason \in Reasons \cup {"none"} :
               SetPowerState(w, asked, reason)
    BY <2>3, SetPowerStateSafe DEF Asked
  <2>6. CASE SetUnknownState(w) \/ SetNoState(w)
    BY <2>6, OtherStatesSafe
  <2>4. CASE \/ Reboot(w)
             \/ \E seconds \in Seconds : SetDeepSleepTimer(w, seconds)
             \/ \E sources \in SUBSET WakeupSources : SetWakeupSrcConfiguration(w, sources)
    BY <2>4, WakeupAndRebootSafe
  <2>5. QED
    BY <1>3, <2>1, <2>2, <2>3, <2>4, <2>6 DEF PowerStep
<1>4. CASE UNCHANGED vars
  BY <1>4, NothingSafe DEF vars, requests
<1>5. QED
  BY <1>1, <1>2, <1>3, <1>4 DEF PowerNext

\* Every reachable state has what the steps of the power calls and the notices on
\* their way rely on (SetPowerState, GetPowerStateBeforeReboot, the handlers).
THEOREM Invariant == PowerSpec => []Inv
<1>1. PowerInit => Inv
  BY InitSafe
<1>2. Inv /\ [PowerNext]_vars => Inv'
  BY NextSafe
<1>3. QED
  BY <1>1, <1>2, PTL DEF PowerSpec

\* Whatever clients ask SetPowerState, SetDeepSleepTimer and
\* SetWakeupSrcConfiguration for, PowerManager gets a state it has, a time of
\* at most ten days and wake-up sources it knows.
THEOREM PowerTypes == PowerSpec => []PowerTypeOK
<1>1. Inv => PowerTypeOK
  BY DEF Inv, TypeInv
<1>2. QED
  BY <1>1, Invariant, PTL

\* For any number of threads: once the calls of SetPowerState that met neither
\* another call nor a failure are over, the standby reason file holds the reason
\* of the last sleep PowerManager took, over restarts of the process as well.
THEOREM ReasonIsKept == PowerSpec => []ReasonOfLastSleep
<1>1. Inv => ReasonOfLastSleep
  <2> SUFFICES ASSUME Inv, Undisturbed("power") PROVE standbyReason = lastReason
    BY DEF ReasonOfLastSleep
  <2>1. Clean
    BY DEF Undisturbed, Clean
  <2>2. \A w \in Workers : pc[w] \notin ReasonPlaces
    BY DEF Undisturbed, Busy, Inv, TypeInv, CallsOK, PowerCalls, PowerPlaces, ReasonPlaces
  <2>3. QED
    BY <2>1, <2>2 DEF Inv, ReasonInv
<1>2. QED
  BY <1>1, Invariant, PTL

\* However many threads fill the cache of GetPowerStateBeforeReboot and answer
\* from it, no answer is anything but the state PowerManager had before the reboot.
THEOREM AnswersBeforeReboot == PowerSpec => []BeforeRebootAnswered
<1>1. Inv => BeforeRebootAnswered
  BY DEF Inv, CacheInv, BeforeRebootAnswered, BeforeReboot
<1>2. QED
  BY <1>1, Invariant, PTL

\* Through any history of changes, with any number of notifications on their way
\* and restarts in between: once all have arrived, the last event of
\* OnPowerModeChanged and of OnThermalModeChanged tells what is the case.
THEOREM LastEventsAreTrue == PowerSpec => []LastEventsTellTruth
<1>1. Inv => LastEventsTellTruth
  <2> SUFFICES ASSUME Inv PROVE LastEventsTellTruth
    OBVIOUS
  <2>1. PowerEventsAgree
    <3> SUFFICES ASSUME powerTold # "none", notices = <<>>
                 PROVE  (powerTold = "ON") <=> (GetPowerState = "ON")
      BY DEF PowerEventsAgree
    <3>1. None(notices, Len(notices), "power")
      BY NoNotices DEF None
    <3>2. powerTold = powerModeEnumToString(pmPower) /\ pmPower \in Power
      BY <3>1 DEF Inv, NoticesInv, PowerToldOK, TypeInv, PowerTypeOK
    <3>3. QED
      BY <3>2 DEF powerModeEnumToString, GetPowerState, Power
  <2>2. LastThermalEventTellsLevel
    <3> SUFFICES ASSUME LevelTold # "none", notices = <<>> PROVE LevelTold = pmThermal
      BY DEF LastThermalEventTellsLevel
    <3>1. None(notices, Len(notices), "thermal")
      BY NoNotices DEF None
    <3>2. QED
      BY <3>1 DEF Inv, NoticesInv, ThermalToldOK
  <2>3. QED
    BY <2>1, <2>2 DEF LastEventsTellTruth
<1>2. QED
  BY <1>1, Invariant, PTL
=============================================================================
