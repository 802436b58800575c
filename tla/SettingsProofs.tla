---------------------------- MODULE SettingsProofs ----------------------------
(***************************************************************************)
(* For any number of threads and requests, any territories, regions, time  *)
(* zones, accuracies and names: the territory implements the register of   *)
(* TerritoryRegister, alone and next to the other settings; and what the   *)
(* events tell and the copies hold of the settings.                        *)
(***************************************************************************)
EXTENDS Settings, TLAPS

\* The places of the calls of each part, and the variables of the calls.
ZonePlaces == {"openZone", "writeZone", "removeLink", "makeLink", "readAccuracy",
               "openAccuracy", "writeAccuracy", "announce"}

NamePlaces == {"makeParams", "tellName", "readName", "setRFCParameter"}

FlagPlaces == {"setBlocklist", "tellBlocklist"}

TerritoryPlaces == {"writeTerritory", "announceTerritory"}

Places == {"idle"} \union TerritoryPlaces \union ZonePlaces \union NamePlaces \union FlagPlaces

Accepted == [territory : StandardTerritories, region : ValidRegions \union {"empty"}]

TerritoryCalls == [part : {"territory"}, new : Accepted]

ZoneCalls ==
  [part : {"timezone"}, zone : Zones, accuracy : Accuracies \union GoodAccuracy,
   oldZone : Zones \union {"empty", "mixed"}, oldAccuracy : GoodAccuracy \union {"empty"}]

NameCalls == [part : {"name"}, name : Names]

FlagCalls == [part : {"blocklist"}, flag : BOOLEAN, old : BOOLEAN]

Calls == {NoCall} \union TerritoryCalls \union ZoneCalls \union NameCalls \union FlagCalls

\* A worker's place says which call it serves.
CallsOK ==
  /\ pc \in [Workers -> Places] /\ local \in [Workers -> Calls]
  /\ \A w \in Workers :
       /\ pc[w] \in TerritoryPlaces => local[w] \in TerritoryCalls
       /\ pc[w] \in ZonePlaces => local[w] \in ZoneCalls
       /\ pc[w] \in NamePlaces => local[w] \in NameCalls
       /\ pc[w] \in FlagPlaces => local[w] \in FlagCalls

-----------------------------------------------------------------------------
(* Calls.                                                                  *)

LEMMA CallsInit ==
  ASSUME RequestsInit
  PROVE  CallsOK
  BY DEF RequestsInit, CallsOK, Places, Calls, TerritoryPlaces, ZonePlaces, NamePlaces, FlagPlaces

\* What a step of a call does to where the call is and to what it carries.
MovesTo(w, to, values) ==
  pc' = [pc EXCEPT ![w] = to] /\ local' = [local EXCEPT ![w] = values]

LEMMA CallsMove ==
  ASSUME CallsOK, NEW w \in Workers, NEW to \in Places, NEW values \in Calls,
         to \in TerritoryPlaces => values \in TerritoryCalls,
         to \in ZonePlaces => values \in ZoneCalls,
         to \in NamePlaces => values \in NameCalls,
         to \in FlagPlaces => values \in FlagCalls,
         MovesTo(w, to, values)
  PROVE  /\ CallsOK'
         /\ pc'[w] = to /\ local'[w] = values
         /\ \A v \in Workers \ {w} : pc'[v] = pc[v] /\ local'[v] = local[v]
<1>1. /\ pc'[w] = to /\ local'[w] = values
      /\ \A v \in Workers \ {w} : pc'[v] = pc[v] /\ local'[v] = local[v]
  BY DEF CallsOK, MovesTo
<1>2. pc' \in [Workers -> Places] /\ local' \in [Workers -> Calls]
  BY DEF CallsOK, MovesTo
<1>3. QED
  BY <1>1, <1>2 DEF CallsOK

LEMMA CallsStay ==
  ASSUME CallsOK, UNCHANGED <<pc, local>>
  PROVE  CallsOK'
  BY DEF CallsOK

LEMMA CallsAbandon ==
  ASSUME CallsOK, Abandon
  PROVE  CallsOK' /\ \A v \in Workers : pc'[v] = "idle"
  BY DEF CallsOK, Abandon, Places, Calls, TerritoryPlaces, ZonePlaces, NamePlaces, FlagPlaces

\* Which part a call is of can be told from its place.
LEMMA WhoseCall ==
  ASSUME CallsOK, NEW w \in Workers
  PROVE  /\ pc[w] \in ZonePlaces <=> pc[w] # "idle" /\ local[w].part = "timezone"
         /\ pc[w] \in NamePlaces <=> pc[w] # "idle" /\ local[w].part = "name"
         /\ pc[w] \in FlagPlaces <=> pc[w] # "idle" /\ local[w].part = "blocklist"
  BY DEF CallsOK, Places, TerritoryPlaces, ZonePlaces, NamePlaces, FlagPlaces, TerritoryCalls,
         ZoneCalls, NameCalls, FlagCalls

-----------------------------------------------------------------------------
(* The territory.                                                          *)

\* A worker is in the middle of a change exactly while it holds the mutex.
MutexOK ==
  /\ m_territoryMutex \in Mutexes
  /\ \A w \in Workers : pc[w] \in TerritoryPlaces <=> m_territoryMutex = {w}

\* While the mutex is held the members have what the setting was, as far as there
\* was one; the file is empty, and then has what the disk took.
WriteOK ==
  /\ m_territoryMutex # {} =>
       /\ replaced.territory # "empty" => m_strTerritory = replaced.territory
       /\ replaced.region # "empty" => m_strRegion = replaced.region
  /\ \A w \in Workers :
       /\ pc[w] = "writeTerritory" => territoryFile = Empty
       /\ pc[w] = "announceTerritory" => territoryFile \in Written(local[w].new)

\* Values that were in force since the process started.
FromPast(territory, region) ==
  /\ territory \in {"empty"} \cup {s.territory : s \in past}
  /\ region \in {"empty"} \cup {s.region : s \in past}

\* The setting in force is one of them, and the members have nothing else.
PastOK == InForce \in past /\ FromPast(m_strTerritory, m_strRegion)

TerritoryInv == TerritoryTypeOK /\ MutexOK /\ WriteOK /\ PastOK

IInv == CallsOK /\ TerritoryInv

tvars == <<requests, territoryVars>>

-----------------------------------------------------------------------------
(* What the file holds for a reader.                                       *)

\* A reader is told a setting, and the members are left with values that may
\* stand there.
LEMMA ReadIsSetting ==
  ASSUME territoryFile \in Contents
  PROVE  /\ Readable \in Register!Settings
         /\ \A members \in [territory : StandardTerritories \cup {"empty"},
                            region : ValidRegions \cup {"empty"}] :
              LET read == readTerritoryFromFile(members) IN
                /\ read \in [territory : StandardTerritories \cup {"empty"},
                             region : ValidRegions \cup {"empty"}]
                /\ Readable.territory # "empty" => read.territory = Readable.territory
                /\ Readable.region # "empty" => read.region = Readable.region
                /\ read.territory \in {members.territory, Readable.territory, "empty"}
                /\ read.region \in {members.region, Readable.region, "empty"}
<1> DEFINE Kept == [territory : StandardTerritories \cup {"empty"},
                    region : ValidRegions \cup {"empty"}]
           f == territoryFile
<1>1. f.territory \in StandardTerritories \cup {"empty", "torn"} /\ "empty" \notin StandardTerritories
  BY TerritoryAssumption DEF Contents
<1>2. Readable \in Register!Settings
  BY TerritoryAssumption
  DEF Readable, readTerritoryFromFile, Contents, Empty, isTerritoryValid, isRegionValid,
      Register!Settings, Register!Unset
<1>3. ASSUME NEW members \in Kept
      PROVE  LET read == readTerritoryFromFile(members) IN
               /\ read \in Kept
               /\ Readable.territory # "empty" => read.territory = Readable.territory
               /\ Readable.region # "empty" => read.region = Readable.region
               /\ read.territory \in {members.territory, Readable.territory, "empty"}
               /\ read.region \in {members.region, Readable.region, "empty"}
  <2>1. CASE f.territory = "empty"
    <3>1. ~isTerritoryValid(f.territory)
      BY <1>1, <2>1 DEF isTerritoryValid
    <3>2. readTerritoryFromFile(members) = members /\ Readable = Empty
      BY <2>1, <3>1 DEF Readable, readTerritoryFromFile
    <3>3. QED
      BY <3>2 DEF Empty
  <2>2. CASE f.territory # "empty" /\ ~isTerritoryValid(f.territory)
    <3>1. readTerritoryFromFile(members) = Empty /\ Readable = Empty
      BY <2>2 DEF Readable, readTerritoryFromFile
    <3>2. QED
      BY <3>1 DEF Empty
  <2>3. CASE isTerritoryValid(f.territory) /\ f.region = "empty"
    <3>1. f.territory # "empty" /\ f.territory \in StandardTerritories
      BY <1>1, <2>3 DEF isTerritoryValid
    <3>2. /\ readTerritoryFromFile(members) = [members EXCEPT !.territory = f.territory]
          /\ Readable = [Empty EXCEPT !.territory = f.territory]
      BY <2>3, <3>1, TerritoryAssumption DEF Readable, readTerritoryFromFile, isRegionValid
    <3>3. QED
      BY <3>1, <3>2 DEF Empty
  <2>4. CASE isTerritoryValid(f.territory) /\ f.region # "empty"
    <3>1. /\ f.territory # "empty" /\ f.territory \in StandardTerritories
          /\ readTerritoryFromFile(members) = IF isRegionValid(f.region) THEN f ELSE Empty
          /\ Readable = IF isRegionValid(f.region) THEN f ELSE Empty
      BY <1>1, <2>4 DEF Readable, readTerritoryFromFile, isTerritoryValid
    <3>2. isRegionValid(f.region) => f \in Kept
      BY <3>1 DEF Contents, isRegionValid
    <3>3. QED
      BY <3>1, <3>2 DEF Empty
  <2>5. QED
    BY <2>1, <2>2, <2>3, <2>4
<1>4. QED
  BY <1>2, <1>3

LEMMA SettingFields ==
  ASSUME NEW s \in Register!Settings
  PROVE  /\ s.territory \in StandardTerritories \cup {"empty"}
         /\ s.region \in ValidRegions \cup {"empty"}
<1>1. CASE s = Register!Unset
  BY <1>1 DEF Register!Unset
<1>2. CASE s \in [territory : StandardTerritories, region : ValidRegions \cup {"empty"}]
  BY <1>2
<1>3. QED
  BY <1>1, <1>2 DEF Register!Settings

\* What a read leaves in the members was there, or is in force.
LEMMA ReadFromPast ==
  ASSUME IInv, m_territoryMutex = {}
  PROVE  LET read == readTerritoryFromFile(Members) IN FromPast(read.territory, read.region)
<1> DEFINE read == readTerritoryFromFile(Members)
<1>1. /\ read.territory \in {m_strTerritory, Readable.territory, "empty"}
      /\ read.region \in {m_strRegion, Readable.region, "empty"}
  BY ReadIsSetting DEF IInv, TerritoryInv, TerritoryTypeOK, Members
<1>2. Readable \in past /\ FromPast(m_strTerritory, m_strRegion)
  BY DEF IInv, TerritoryInv, PastOK, InForce
<1> HIDE DEF read
<1>3. FromPast(read.territory, read.region)
  BY <1>1, <1>2 DEF FromPast
<1>4. QED
  BY <1>3 DEF read

-----------------------------------------------------------------------------
(* The invariant.                                                          *)

LEMMA InitIInv == RequestsInit /\ TerritoryInit => IInv
<1> SUFFICES ASSUME RequestsInit, TerritoryInit PROVE IInv
  OBVIOUS
<1>1. CallsOK
  BY CallsInit
<1>2. Readable \in Register!Settings
  BY ReadIsSetting DEF TerritoryInit
<1>3. TerritoryTypeOK
  BY <1>2, TerritoryAssumption
  DEF TerritoryInit, TerritoryTypeOK, Mutexes, Empty, Register!Settings, Register!Unset
<1>4. MutexOK /\ WriteOK
  BY DEF RequestsInit, TerritoryInit, MutexOK, WriteOK, Mutexes, TerritoryPlaces
<1>5. PastOK
  BY DEF TerritoryInit, PastOK, FromPast, InForce
<1>6. QED
  BY <1>1, <1>3, <1>4, <1>5 DEF IInv, TerritoryInv

\* A request that takes one step and leaves the file and the mutex alone.
LEMMA InstantIInv ==
  ASSUME IInv, NEW w \in Workers, Instant(w, "territory"), m_territoryMutex = {},
         UNCHANGED <<territoryFile, m_territoryMutex, replaced, past>>,
         m_strTerritory' \in StandardTerritories \cup {"empty"},
         m_strRegion' \in ValidRegions \cup {"empty"},
         FromPast(m_strTerritory', m_strRegion'),
         answer' \in Register!Settings
  PROVE  IInv'
<1>1. CallsOK' /\ UNCHANGED <<pc, local>>
  BY CallsStay DEF IInv, Instant
<1>2. TerritoryTypeOK'
  BY DEF IInv, TerritoryInv, TerritoryTypeOK, Contents, Mutexes, Register!Settings,
         Register!Unset
<1>3. MutexOK' /\ WriteOK'
  BY <1>1 DEF IInv, TerritoryInv, MutexOK, WriteOK, Mutexes, Written
<1>4. Readable' = Readable
  BY DEF Readable, readTerritoryFromFile, isTerritoryValid, isRegionValid
<1>5. PastOK'
  BY <1>4 DEF IInv, TerritoryInv, PastOK, FromPast, InForce
<1>6. QED
  BY <1>1, <1>2, <1>3, <1>5 DEF IInv, TerritoryInv

LEMMA GetTerritoryIInv ==
  ASSUME IInv, NEW w \in Workers, GetTerritory(w)
  PROVE  IInv'
<1>1. Readable \in Register!Settings
  BY ReadIsSetting DEF IInv, TerritoryInv, TerritoryTypeOK
<1>2. /\ Readable.territory \in StandardTerritories \cup {"empty"}
      /\ Readable.region \in ValidRegions \cup {"empty"}
  BY <1>1, SettingFields
<1>3. FromPast(Readable.territory, Readable.region)
  BY DEF GetTerritory, IInv, TerritoryInv, PastOK, InForce, FromPast
<1>4. QED
  BY <1>1, <1>2, <1>3, InstantIInv DEF GetTerritory, Remember

LEMMA SetTerritoryFailsIInv ==
  ASSUME IInv, NEW w \in Workers, SetTerritoryFails(w)
  PROVE  IInv'
<1> DEFINE read == readTerritoryFromFile(Members)
<1>1. read \in [territory : StandardTerritories \cup {"empty"},
                region : ValidRegions \cup {"empty"}]
  BY ReadIsSetting DEF IInv, TerritoryInv, TerritoryTypeOK, Members
<1>2. /\ m_strTerritory' \in StandardTerritories \cup {"empty"}
      /\ m_strRegion' \in ValidRegions \cup {"empty"}
  BY <1>1 DEF SetTerritoryFails, Remember, IInv, TerritoryInv, TerritoryTypeOK
<1>3. answer' \in Register!Settings
  BY DEF SetTerritoryFails, IInv, TerritoryInv, TerritoryTypeOK
<1>4. FromPast(m_strTerritory', m_strRegion')
  <2>1. FromPast(m_strTerritory, m_strRegion) /\ FromPast(read.territory, read.region)
    BY ReadFromPast DEF SetTerritoryFails, IInv, TerritoryInv, PastOK
  <2>2. QED
    BY <2>1 DEF SetTerritoryFails, Remember
<1>5. QED
  BY <1>2, <1>3, <1>4, InstantIInv DEF SetTerritoryFails

\* A worker moves on in its call, or out of it.
LEMMA TerritoryMoves ==
  ASSUME CallsOK, NEW w \in Workers, NEW to \in TerritoryPlaces \union {"idle"},
         NEW values \in TerritoryCalls \union {NoCall},
         to \in TerritoryPlaces => values \in TerritoryCalls,
         pc' = [pc EXCEPT ![w] = to], local' = [local EXCEPT ![w] = values]
  PROVE  /\ CallsOK'
         /\ pc'[w] = to /\ local'[w] = values
         /\ \A v \in Workers \ {w} : pc'[v] = pc[v] /\ local'[v] = local[v]
<1>1. to \in Places /\ values \in Calls
  BY DEF Places, Calls
<1>2. to \notin ZonePlaces \union NamePlaces \union FlagPlaces
  BY DEF TerritoryPlaces, ZonePlaces, NamePlaces, FlagPlaces
<1>3. MovesTo(w, to, values)
  BY DEF MovesTo
<1>4. QED
  BY <1>1, <1>2, <1>3, CallsMove

\* The mutex is taken; the members and the history are read from the same file.
LEMMA SetTerritoryIInv ==
  ASSUME IInv, NEW w \in Workers, NEW territory \in TerritoryInputs, NEW region \in RegionInputs,
         SetTerritory(w, territory, region)
  PROVE  IInv'
<1> DEFINE read == readTerritoryFromFile(Members)
           new == [territory |-> territory, region |-> region]
           values == [part |-> "territory", new |-> new]
<1>1. /\ Readable \in Register!Settings
      /\ read \in [territory : StandardTerritories \cup {"empty"},
                  region : ValidRegions \cup {"empty"}]
      /\ Readable.territory # "empty" => read.territory = Readable.territory
      /\ Readable.region # "empty" => read.region = Readable.region
  BY ReadIsSetting DEF IInv, TerritoryInv, TerritoryTypeOK, Members
<1>2. /\ m_strTerritory' = read.territory /\ m_strRegion' = read.region
      /\ replaced' = Readable /\ answer' = answer /\ past' = past
      /\ territoryFile' = Empty /\ m_territoryMutex' = {w} /\ m_territoryMutex = {}
  BY DEF SetTerritory, Remember, territoryVars
<1>3. values \in TerritoryCalls
  BY DEF SetTerritory, isTerritoryValid, isRegionValid, Accepted, TerritoryCalls
<1>4. TerritoryTypeOK'
  BY <1>1, <1>2
  DEF IInv, TerritoryInv, TerritoryTypeOK, Contents, Empty, Mutexes, Register!Settings,
      Register!Unset
<1>5. pc' = [pc EXCEPT ![w] = "writeTerritory"] /\ local' = [local EXCEPT ![w] = values]
  BY DEF SetTerritory, Start
<1>6. FromPast(read.territory, read.region) /\ Readable \in past
  BY <1>2, ReadFromPast DEF IInv, TerritoryInv, PastOK, InForce
<1> HIDE DEF values, read
<1>7. /\ CallsOK' /\ pc'[w] = "writeTerritory" /\ "writeTerritory" \in TerritoryPlaces
      /\ \A v \in Workers \ {w} : pc'[v] = pc[v]
  BY <1>3, <1>5, TerritoryMoves DEF IInv, TerritoryPlaces
<1>8. \A v \in Workers : pc[v] \notin TerritoryPlaces
  BY <1>2 DEF IInv, TerritoryInv, MutexOK
<1>9. MutexOK'
  BY <1>2, <1>7, <1>8 DEF MutexOK, Mutexes
<1>10. WriteOK'
  BY <1>1, <1>2, <1>7, <1>8 DEF WriteOK, TerritoryPlaces
<1>11. PastOK'
  BY <1>2, <1>6 DEF PastOK, FromPast, InForce
<1>12. QED
  BY <1>4, <1>7, <1>9, <1>10, <1>11 DEF IInv, TerritoryInv

\* The file takes what the disk has room for; the mutex stays.
LEMMA writeTerritoryIInv ==
  ASSUME IInv, NEW w \in Workers, writeTerritory(w)
  PROVE  IInv'
<1>1. /\ pc[w] = "writeTerritory" /\ "writeTerritory" \in TerritoryPlaces
      /\ territoryFile' \in Written(local[w].new)
      /\ pc' = [pc EXCEPT ![w] = "announceTerritory"]
      /\ local' = [local EXCEPT ![w] = local[w]]
      /\ UNCHANGED <<m_strTerritory, m_strRegion, m_territoryMutex, answer, replaced, past>>
  BY DEF writeTerritory, Step, TerritoryPlaces
<1>2. /\ m_territoryMutex = {w} /\ local[w] \in TerritoryCalls
      /\ \A v \in Workers \ {w} : pc[v] \notin TerritoryPlaces
  BY <1>1 DEF IInv, CallsOK, TerritoryInv, MutexOK
<1>3. /\ CallsOK' /\ pc'[w] = "announceTerritory" /\ local'[w] = local[w]
      /\ "announceTerritory" \in TerritoryPlaces
      /\ \A v \in Workers \ {w} : pc'[v] = pc[v] /\ local'[v] = local[v]
  BY <1>1, <1>2, TerritoryMoves DEF IInv, TerritoryPlaces
<1>4. MutexOK'
  BY <1>1, <1>2, <1>3 DEF IInv, TerritoryInv, MutexOK
<1>5. WriteOK'
  <2>1. territoryFile' \in Written(local'[w].new)
    BY <1>1, <1>3
  <2>2. QED
    BY <1>1, <1>2, <1>3, <2>1 DEF IInv, TerritoryInv, WriteOK, TerritoryPlaces, Written
<1>6. territoryFile' \in Contents
  BY <1>1, <1>2 DEF TerritoryCalls, Written, Accepted, Contents
<1>7. TerritoryTypeOK'
  BY <1>1, <1>6 DEF IInv, TerritoryInv, TerritoryTypeOK
<1>8. PastOK'
  BY <1>1, <1>2 DEF IInv, TerritoryInv, PastOK, FromPast, InForce
<1>9. QED
  BY <1>3, <1>4, <1>5, <1>7, <1>8 DEF IInv, TerritoryInv

\* The mutex is released, and what is in the file is in force.
LEMMA AnnounceIInv ==
  ASSUME IInv, NEW w \in Workers, OnTerritoryChanged(w)
  PROVE  IInv'
<1>1. /\ pc[w] = "announceTerritory" /\ "announceTerritory" \in TerritoryPlaces
      /\ pc' = [pc EXCEPT ![w] = "idle"] /\ local' = [local EXCEPT ![w] = NoCall]
      /\ m_territoryMutex' = {} /\ past' = past \cup {Readable}
      /\ UNCHANGED <<territoryFile, m_strTerritory, m_strRegion, answer, replaced>>
  BY DEF OnTerritoryChanged, Finish, Step, TerritoryPlaces
<1>2. \A v \in Workers \ {w} : pc[v] \notin TerritoryPlaces
  BY <1>1 DEF IInv, TerritoryInv, MutexOK
<1>3. /\ CallsOK' /\ pc'[w] = "idle" /\ "idle" \notin TerritoryPlaces
      /\ \A v \in Workers \ {w} : pc'[v] = pc[v]
  BY <1>1, TerritoryMoves DEF IInv, TerritoryPlaces
<1>4. MutexOK' /\ WriteOK'
  BY <1>1, <1>2, <1>3 DEF MutexOK, WriteOK, Mutexes, TerritoryPlaces
<1>5. Readable \in Register!Settings
  BY ReadIsSetting DEF IInv, TerritoryInv, TerritoryTypeOK
<1>6. TerritoryTypeOK'
  BY <1>1, <1>5 DEF IInv, TerritoryInv, TerritoryTypeOK, Mutexes, Register!Settings,
                   Register!Unset
<1>7. Readable' = Readable
  BY <1>1 DEF Readable, readTerritoryFromFile, isTerritoryValid, isRegionValid
<1>8. PastOK'
  BY <1>1, <1>7 DEF IInv, TerritoryInv, PastOK, FromPast, InForce
<1>9. QED
  BY <1>3, <1>4, <1>6, <1>8 DEF IInv, TerritoryInv

LEMMA RestartIInv ==
  ASSUME IInv, Abandon, TerritoryRestarts
  PROVE  IInv'
<1>1. CallsOK' /\ \A v \in Workers : pc'[v] = "idle"
  BY CallsAbandon DEF IInv
<1>2. Readable \in Register!Settings
  BY ReadIsSetting DEF IInv, TerritoryInv, TerritoryTypeOK
<1>3. TerritoryTypeOK'
  BY <1>2 DEF TerritoryRestarts, IInv, TerritoryInv, TerritoryTypeOK, Mutexes, Register!Settings,
              Register!Unset
<1>4. MutexOK' /\ WriteOK'
  BY <1>1 DEF TerritoryRestarts, MutexOK, WriteOK, Mutexes, TerritoryPlaces
<1>5. Readable' = Readable
  BY DEF TerritoryRestarts, Readable, readTerritoryFromFile, isTerritoryValid, isRegionValid
<1>6. PastOK'
  BY <1>5 DEF TerritoryRestarts, PastOK, FromPast, InForce
<1>7. QED
  BY <1>1, <1>3, <1>4, <1>6 DEF IInv, TerritoryInv

\* Nothing happens to the territory, and no worker moves in, to or from its calls.
LEMMA TerritoryStays ==
  ASSUME TerritoryInv, UNCHANGED territoryVars,
         \A v \in Workers : \/ pc'[v] = pc[v] /\ local'[v] = local[v]
                            \/ pc[v] \notin TerritoryPlaces /\ pc'[v] \notin TerritoryPlaces
  PROVE  TerritoryInv'
<1> USE DEF territoryVars
<1>1. TerritoryTypeOK' /\ MutexOK'
  BY DEF TerritoryInv, TerritoryTypeOK, MutexOK
<1>2. WriteOK'
  BY DEF TerritoryInv, WriteOK, TerritoryPlaces, Written
<1>3. Readable' = Readable
  BY DEF Readable, readTerritoryFromFile, isTerritoryValid, isRegionValid
<1>4. PastOK'
  BY <1>3 DEF TerritoryInv, PastOK, FromPast, InForce
<1>5. QED
  BY <1>1, <1>2, <1>4 DEF TerritoryInv

LEMMA StutterIInv ==
  ASSUME IInv, UNCHANGED tvars
  PROVE  IInv'
  BY CallsStay, TerritoryStays DEF IInv, tvars, requests

LEMMA TerritoryStepIInv ==
  ASSUME IInv, NEW w \in Workers, TerritoryStep(w)
  PROVE  IInv'
  BY GetTerritoryIInv, SetTerritoryFailsIInv, SetTerritoryIInv, writeTerritoryIInv, AnnounceIInv
  DEF TerritoryStep

\* Every step keeps the invariant.
LEMMA NextIInv == IInv /\ [TerritoryNext]_tvars => IInv'
<1> SUFFICES ASSUME IInv, [TerritoryNext]_tvars PROVE IInv'
  OBVIOUS
<1>1. CASE UNCHANGED tvars
  BY <1>1, StutterIInv
<1>2. CASE Abandon /\ TerritoryRestarts
  BY <1>2, RestartIInv
<1>3. ASSUME NEW w \in Workers, TerritoryStep(w)
      PROVE  IInv'
  BY <1>3, TerritoryStepIInv
<1>4. QED
  BY <1>1, <1>2, <1>3 DEF TerritoryNext

\* The territory, the region and the file hold what they may, and no worker
\* writes without the mutex (GetTerritory, SetTerritory, writeTerritory).
THEOREM TerritoryTypes == TerritorySpec => [](TerritoryTypeOK /\ CallsOK /\ MutexOK)
<1>1. TerritorySpec => []IInv
  BY InitIInv, NextIInv, PTL DEF TerritorySpec, tvars
<1>2. IInv => TerritoryTypeOK /\ CallsOK /\ MutexOK
  BY DEF IInv, TerritoryInv
<1>3. QED
  BY <1>1, <1>2, PTL

-----------------------------------------------------------------------------
(* The register.                                                           *)

registerVars == <<InForce, Asked, past, answer, announced>>

LEMMA InitRegister == RequestsInit /\ TerritoryInit => Register!RegisterInit
  BY ReadIsSetting, TerritoryAssumption
  DEF TerritoryInit, Register!RegisterInit, InForce, Asked, Register!Unset, Empty

\* What a reader finds depends on the file alone.
LEMMA ReadableStays == UNCHANGED territoryFile => Readable' = Readable
  BY DEF Readable, readTerritoryFromFile, isTerritoryValid, isRegionValid

\* The change under way is the one that the holder of the mutex makes.
LEMMA AskedOf ==
  ASSUME NEW w \in Workers
  PROVE  /\ m_territoryMutex = {w} => Asked = local[w].new
         /\ m_territoryMutex' = {w} => Asked' = local'[w].new
<1>1. m_territoryMutex = {w} => (CHOOSE v \in Workers : m_territoryMutex = {v}) = w
  OBVIOUS
<1>2. m_territoryMutex' = {w} => (CHOOSE v \in Workers : m_territoryMutex' = {v}) = w
  OBVIOUS
<1>3. QED
  BY <1>1, <1>2 DEF Asked

\* The change that a worker in the middle of a call makes.
LEMMA InTheMiddle ==
  ASSUME IInv, NEW w \in Workers, pc[w] \in TerritoryPlaces
  PROVE  /\ m_territoryMutex = {w} /\ InForce = replaced
         /\ Asked = local[w].new /\ Asked \in Accepted
         /\ Asked # Register!Unset /\ Asked.territory # "empty"
<1>1. m_territoryMutex = {w} /\ local[w].new \in Accepted
  BY DEF IInv, TerritoryInv, MutexOK, CallsOK, TerritoryCalls
<1>2. InForce = replaced /\ Asked = local[w].new
  BY <1>1, AskedOf DEF InForce
<1>3. Asked.territory \in StandardTerritories /\ Asked.territory # "empty"
  BY <1>1, <1>2, TerritoryAssumption DEF Accepted
<1>4. Register!Unset.territory = "empty"
  BY DEF Register!Unset
<1>5. QED
  BY <1>1, <1>2, <1>3, <1>4

\* A disk that takes what it has room for keeps a setting that a change may leave.
LEMMA WrittenIsKept ==
  ASSUME IInv, NEW w \in Workers, pc[w] \in TerritoryPlaces
  PROVE  Readable \in Register!Kept
<1> DEFINE new == local[w].new
<1>1. Asked = new /\ new \in Accepted /\ Asked # Register!Unset
  BY InTheMiddle
<1> HIDE DEF new
<1>2. Register!Unset \in Register!Kept /\ Register!Unset = Empty
  BY <1>1 DEF Register!Kept, Register!Unset, Empty
<1>3. CASE pc[w] = "writeTerritory"
  <2>1. territoryFile = Empty
    BY <1>3 DEF IInv, TerritoryInv, WriteOK
  <2>2. Readable = Empty
    BY <2>1 DEF Readable, readTerritoryFromFile, Empty
  <2>3. QED
    BY <1>2, <2>2
<1>4. CASE pc[w] = "announceTerritory"
  <2>1. territoryFile \in Written(new)
    BY <1>4 DEF IInv, TerritoryInv, WriteOK, new
  <2>2. Readable = Empty \/ Readable = territoryFile \/
          Readable = [territory |-> territoryFile.territory, region |-> "empty"]
    BY DEF Readable, readTerritoryFromFile, Empty
  <2>3. territoryFile.territory \in {"empty", "torn"} => Readable = Empty
    BY TerritoryAssumption DEF Readable, readTerritoryFromFile, isTerritoryValid, Empty
  <2>4. CASE territoryFile.territory \in {"empty", "torn"}
    BY <1>2, <2>3, <2>4
  <2>5. CASE territoryFile.territory \notin {"empty", "torn"}
    <3>1. \/ territoryFile = new
          \/ territoryFile \in [territory : {new.territory},
                                region : IF new.region = "empty" THEN {"empty"}
                                         ELSE {"empty", "torn"} \cup ValidRegions]
      BY <2>1, <2>5 DEF Written
    <3>2. Readable # Empty => Readable.region \in ValidRegions \cup {"empty"}
      <4>1. Readable \in Register!Settings
        BY ReadIsSetting DEF IInv, TerritoryInv, TerritoryTypeOK
      <4>2. QED
        BY <4>1, SettingFields
    <3>3. Readable # Empty =>
            Readable \in [territory : {new.territory},
                          region : IF new.region = "empty" THEN {"empty"}
                                   ELSE ValidRegions \cup {"empty"}]
      BY <1>1, <2>2, <3>1, <3>2 DEF Accepted, Empty
    <3>4. QED
      BY <1>1, <1>2, <3>3 DEF Register!Kept
  <2>6. QED
    BY <2>4, <2>5
<1>5. QED
  BY <1>3, <1>4 DEF TerritoryPlaces

\* GetTerritory answers the setting in force, and changes nothing.
LEMMA GetIsGet ==
  ASSUME IInv, NEW w \in Workers, GetTerritory(w)
  PROVE  Register!Get
<1>1. Readable' = Readable
  BY ReadableStays DEF GetTerritory
<1>2. Asked = Register!Unset /\ Asked' = Asked
  BY DEF GetTerritory, Asked, Register!Unset, Empty
<1>3. QED
  BY <1>1, <1>2 DEF GetTerritory, Register!Get, InForce

\* A request that fails leaves everything as it was.
LEMMA FailKeepsSetting ==
  ASSUME IInv, NEW w \in Workers, SetTerritoryFails(w)
  PROVE  UNCHANGED registerVars
<1>1. Readable' = Readable
  BY ReadableStays DEF SetTerritoryFails
<1>2. QED
  BY <1>1 DEF SetTerritoryFails, InForce, Asked, registerVars

\* One that begins to write asks for the change.
LEMMA BeginAsks ==
  ASSUME IInv, NEW w \in Workers, NEW territory \in TerritoryInputs, NEW region \in RegionInputs,
         SetTerritory(w, territory, region)
  PROVE  \E new \in Register!Settings \ {Register!Unset} : Register!Ask(new)
<1> DEFINE new == [territory |-> territory, region |-> region]
<1>1. /\ m_territoryMutex = {} /\ m_territoryMutex' = {w} /\ replaced' = Readable
      /\ UNCHANGED <<past, answer, announced>>
      /\ local' = [local EXCEPT ![w] = [part |-> "territory", new |-> new]]
  BY DEF SetTerritory, Start
<1>2. local'[w].new = new
  BY <1>1 DEF IInv, CallsOK
<1>3. Asked = Register!Unset /\ Asked' = new
  BY <1>1, <1>2, AskedOf DEF Asked, Register!Unset, Empty
<1>4. InForce' = InForce
  BY <1>1 DEF InForce
<1>5. new \in Register!Settings \ {Register!Unset}
  BY TerritoryAssumption
  DEF SetTerritory, isTerritoryValid, isRegionValid, Register!Settings, Register!Unset
<1> HIDE DEF new
<1>6. Register!Ask(new)
  BY <1>1, <1>3, <1>4 DEF Register!Ask
<1>7. QED
  BY <1>5, <1>6

\* While the file is written the setting that is replaced is in force.
LEMMA WriteKeepsSetting ==
  ASSUME IInv, NEW w \in Workers, writeTerritory(w)
  PROVE  UNCHANGED registerVars
<1>1. /\ pc[w] \in TerritoryPlaces
      /\ UNCHANGED <<m_territoryMutex, replaced, past, answer, announced>>
      /\ local' = [local EXCEPT ![w] = local[w]]
  BY DEF writeTerritory, Step, TerritoryPlaces
<1>2. m_territoryMutex = {w} /\ local'[w] = local[w]
  BY <1>1, InTheMiddle DEF IInv, CallsOK
<1>3. InForce' = InForce /\ Asked' = Asked
  BY <1>1, <1>2, AskedOf DEF InForce
<1>4. QED
  BY <1>1, <1>3 DEF registerVars

\* The event tells the change, and as the old one what was in force, or what the
\* members still have where there was nothing.
LEMMA EventTells ==
  ASSUME IInv, NEW w \in Workers, OnTerritoryChanged(w)
  PROVE  announced' \in [old : Register!Old, new : {Asked}]
<1> DEFINE new == local[w].new
           old == IF new.region = "empty" THEN [Members EXCEPT !.region = "empty"] ELSE Members
<1>1. /\ pc[w] \in TerritoryPlaces /\ announced' = [old |-> old, new |-> new]
  BY DEF OnTerritoryChanged, TerritoryPlaces
<1>2. m_territoryMutex = {w} /\ InForce = replaced /\ Asked = new
  BY <1>1, InTheMiddle
<1> HIDE DEF new
<1>3. /\ replaced.territory # "empty" => m_strTerritory = replaced.territory
      /\ replaced.region # "empty" => m_strRegion = replaced.region
      /\ FromPast(m_strTerritory, m_strRegion)
  BY <1>2 DEF IInv, TerritoryInv, WriteOK, PastOK
<1>4. m_strTerritory \in Register!Former("territory")
  BY <1>2, <1>3 DEF Register!Former, FromPast
<1>5. m_strRegion \in Register!Former("region")
  BY <1>2, <1>3 DEF Register!Former, FromPast
<1>6. old \in Register!Old
  <2>1. /\ old.territory = m_strTerritory
        /\ old.region = IF new.region = "empty" THEN "empty" ELSE m_strRegion
        /\ old = [territory |-> old.territory, region |-> old.region]
    BY DEF Members
  <2> HIDE DEF old
  <2>2. QED
    BY <1>2, <1>4, <1>5, <2>1 DEF Register!Old
<1>7. QED
  BY <1>1, <1>2, <1>6

\* With the event the change is in force, or what the disk took of it.
LEMMA AnnounceIsAccept ==
  ASSUME IInv, NEW w \in Workers, OnTerritoryChanged(w)
  PROVE  Register!Accept
<1>1. /\ pc[w] \in TerritoryPlaces /\ m_territoryMutex' = {}
      /\ past' = past \cup {Readable}
      /\ UNCHANGED <<territoryFile, answer>>
  BY DEF OnTerritoryChanged, TerritoryPlaces
<1>2. InForce' = Readable /\ Asked' = Register!Unset
  BY <1>1, ReadableStays DEF InForce, Asked, Register!Unset, Empty
<1>3. Readable \in Register!Kept /\ Asked # Register!Unset
  BY <1>1, WrittenIsKept, InTheMiddle
<1>4. QED
  BY <1>1, <1>2, <1>3, EventTells DEF Register!Accept

\* The end of the process leaves what is in the file, and tells nobody.
LEMMA RestartIsEnd ==
  ASSUME IInv, Abandon, TerritoryRestarts
  PROVE  Register!End
<1>1. Readable' = Readable /\ InForce' = Readable /\ Asked' = Register!Unset
  BY ReadableStays DEF TerritoryRestarts, InForce, Asked, Register!Unset, Empty
<1>2. Readable \in Register!Kept
  <2>1. CASE m_territoryMutex = {}
    BY <2>1 DEF Register!Kept, InForce, Asked, Register!Unset, Empty
  <2>2. CASE m_territoryMutex # {}
    <3>1. PICK w \in Workers : m_territoryMutex = {w}
      BY <2>2 DEF IInv, TerritoryInv, MutexOK, Mutexes
    <3>2. pc[w] \in TerritoryPlaces
      BY <3>1 DEF IInv, TerritoryInv, MutexOK
    <3>3. QED
      BY <3>2, WrittenIsKept
  <2>3. QED
    BY <2>1, <2>2
<1>3. QED
  BY <1>1, <1>2 DEF TerritoryRestarts, Register!End

\* A step of the territory is a step of the register, or none.
LEMMA NextRegister ==
  IInv /\ [TerritoryNext]_tvars => [Register!RegisterNext]_registerVars
<1> SUFFICES ASSUME IInv, [TerritoryNext]_tvars
             PROVE  [Register!RegisterNext]_registerVars
  OBVIOUS
<1>1. CASE UNCHANGED tvars
  BY <1>1, ReadableStays DEF tvars, requests, territoryVars, registerVars, InForce, Asked
<1>2. CASE Abandon /\ TerritoryRestarts
  BY <1>2, RestartIsEnd DEF Register!RegisterNext
<1>3. ASSUME NEW w \in Workers, TerritoryStep(w)
      PROVE  [Register!RegisterNext]_registerVars
  <2>1. CASE GetTerritory(w)
    BY <2>1, GetIsGet DEF Register!RegisterNext
  <2>2. CASE SetTerritoryFails(w)
    BY <2>2, FailKeepsSetting
  <2>3. CASE writeTerritory(w)
    BY <2>3, WriteKeepsSetting
  <2>4. CASE OnTerritoryChanged(w)
    BY <2>4, AnnounceIsAccept DEF Register!RegisterNext
  <2>5. CASE \E territory \in TerritoryInputs, region \in RegionInputs :
               SetTerritory(w, territory, region)
    BY <2>5, BeginAsks DEF Register!RegisterNext
  <2>6. QED
    BY <1>3, <2>1, <2>2, <2>3, <2>4, <2>5 DEF TerritoryStep
<1>4. QED
  BY <1>1, <1>2, <1>3 DEF TerritoryNext

\* The territory is the register of TerritoryRegister, for whoever asks and
\* whenever the process ends: no reader sees a change under way, and one that is
\* cut short, also between the file and the event, is told to nobody
\* (GetTerritory, SetTerritory, writeTerritory, OnTerritoryChanged).
THEOREM TerritoryImplementsRegister == TerritorySpec => TerritoryIsRegister
<1>1. TerritorySpec => []IInv
  BY InitIInv, NextIInv, PTL DEF TerritorySpec, tvars
<1>2. QED
  BY <1>1, InitRegister, NextRegister, PTL
  DEF TerritorySpec, tvars, registerVars, TerritoryIsRegister, Register!RegisterSpec

-----------------------------------------------------------------------------
(* Steps of one part next to the others.                                   *)

\* What is written down of overlaps and failures is of this part.
SpoilsOnly(part) ==
  spoiled \subseteq spoiled' /\ \A s \in spoiled' : s \in spoiled \/ s.part = part

\* One worker at most moves, between these places, and spoils this part only.
Within(places, part) ==
  /\ SpoilsOnly(part)
  /\ \A v \in Workers :
       \/ pc'[v] = pc[v] /\ local'[v] = local[v]
       \/ {pc[v], pc'[v]} \subseteq places \union {"idle"}

Clean(part) == \A s \in spoiled : s.part # part

\* A part that a step has nothing to do with: what is written down of it and the
\* calls of it stay.
Apart(places, part) ==
  /\ Clean(part)' => Clean(part)
  /\ spoiled \subseteq spoiled'
  /\ \A v \in Workers :
       \/ pc'[v] = pc[v] /\ local'[v] = local[v]
       \/ pc[v] \notin places /\ pc'[v] \notin places

LEMMA SpoilKinds ==
  ASSUME NEW part
  PROVE  /\ UNCHANGED spoiled => SpoilsOnly(part)
         /\ Overlaps(part) => SpoilsOnly(part) /\ (Busy(part) => ~Clean(part)')
         /\ \A cause : Spoil(part, cause) => SpoilsOnly(part) /\ ~Clean(part)'
<1>1. UNCHANGED spoiled => SpoilsOnly(part)
  BY DEF SpoilsOnly
<1>2. ASSUME NEW cause, Spoil(part, cause) PROVE SpoilsOnly(part) /\ ~Clean(part)'
  <2> DEFINE s == [part |-> part, cause |-> cause]
  <2>1. spoiled' = spoiled \union {s} /\ s.part = part
    BY <1>2 DEF Spoil
  <2> HIDE DEF s
  <2>2. QED
    BY <2>1 DEF SpoilsOnly, Clean
<1>3. Overlaps(part) => SpoilsOnly(part) /\ (Busy(part) => ~Clean(part)')
  BY <1>1, <1>2 DEF Overlaps
<1>4. QED
  BY <1>1, <1>2, <1>3

LEMMA CleanBefore ==
  ASSUME NEW part, spoiled \subseteq spoiled'
  PROVE  Clean(part)' => Clean(part)
  BY DEF Clean

\* Steps of other parts are apart.
LEMMA OthersApart ==
  ASSUME NEW places, NEW part, Within(places, part), NEW others, NEW other,
         others \intersect (places \union {"idle"}) = {}
  PROVE  Apart(others, other)
  BY DEF Within, SpoilsOnly, Apart, Clean

LEMMA PlacesApart ==
  /\ "idle" \notin ZonePlaces \union NamePlaces \union FlagPlaces
  /\ TerritoryPlaces \intersect (ZonePlaces \union NamePlaces \union FlagPlaces) = {}
  /\ "idle" \notin TerritoryPlaces
  /\ ZonePlaces \intersect NamePlaces = {} /\ ZonePlaces \intersect FlagPlaces = {}
  /\ NamePlaces \intersect FlagPlaces = {}
  BY DEF TerritoryPlaces, ZonePlaces, NamePlaces, FlagPlaces

\* The end of the process spoils the parts whose calls it cuts off.
LEMMA AbandonSpoils ==
  ASSUME Abandon, NEW part
  PROVE  /\ spoiled \subseteq spoiled'
         /\ Busy(part) => ~Clean(part)' /\ Met(part, "crash")'
<1>1. spoiled' = spoiled \union
        {[part |-> local[v].part, cause |-> "crash"] : v \in {u \in Workers : pc[u] # "idle"}}
  BY DEF Abandon
<1>2. ASSUME Busy(part) PROVE [part |-> part, cause |-> "crash"] \in spoiled'
  <2>1. PICK v \in Workers : pc[v] # "idle" /\ local[v].part = part
    BY <1>2 DEF Busy
  <2>2. [part |-> local[v].part, cause |-> "crash"] \in spoiled'
    BY <1>1, <2>1
  <2>3. QED
    BY <2>1, <2>2
<1>3. QED
  BY <1>1, <1>2 DEF Clean, Met

-----------------------------------------------------------------------------
(* The time zone: what its calls and its files hold.                       *)

Alone(places) == \A v, w \in Workers : pc[v] \in places /\ pc[w] \in places => v = w

AfterTheZone == {"removeLink", "makeLink", "readAccuracy", "openAccuracy", "writeAccuracy",
                 "announce"}

AfterTheAccuracy == {"openAccuracy", "writeAccuracy", "announce"}

\* The accuracy that a call has decided on is a known one or none, and a call
\* writes the zone file only with another zone.
CarriesOK ==
  \A w \in Workers :
    /\ pc[w] \in AfterTheAccuracy => local[w].accuracy \in GoodAccuracy \union {"empty"}
    /\ pc[w] \in {"openZone", "writeZone"} => local[w].oldZone # local[w].zone

\* A zone was told, or a call that found another one in the file is to tell it.
Told(zone) ==
  \/ zone \in {"empty", "mixed"} \union zonesAnnounced
  \/ \E w \in Workers : pc[w] \in ZonePlaces /\ local[w].zone = zone /\ local[w].oldZone # zone

ToldOK == Met("timezone", "crash") \/ Told(tzFile)

LinkOf(zone) == IF zone = "empty" THEN "none" ELSE zone

AccuracyTold == accuracyOf(tzAccuracyFile) = accuracyOf(tzAnnounced.newAccuracy)

\* What a call that meets nobody relies on at each of its places.
ZoneOwn(w) ==
  /\ local[w].oldZone = tzAnnounced.newZone
  /\ pc[w] = "openZone" => tzFile = local[w].oldZone
  /\ pc[w] = "writeZone" => tzFile = "empty"
  /\ pc[w] \in AfterTheZone => tzFile = local[w].zone
  /\ pc[w] \in {"openZone", "writeZone"} => localtime = LinkOf(local[w].oldZone)
  /\ pc[w] = "makeLink" => localtime = "none"
  /\ pc[w] \in {"readAccuracy"} \union AfterTheAccuracy => localtime = local[w].zone
  /\ pc[w] \notin AfterTheAccuracy => AccuracyTold
  /\ pc[w] \in AfterTheAccuracy => local[w].oldAccuracy = accuracyOf(tzAnnounced.newAccuracy)
  /\ pc[w] = "writeAccuracy" => tzAccuracyFile = "empty"
  /\ pc[w] = "announce" => accuracyOf(tzAccuracyFile) = accuracyOf(local[w].accuracy)

ZoneQuiet ==
  /\ tzFile = tzAnnounced.newZone /\ AccuracyTold
  /\ localtime = LinkOf(tzFile) /\ tzEnvironment = tzFile

ZoneCleanOK ==
  Clean("timezone") =>
    /\ Alone(ZonePlaces)
    /\ \A w \in Workers : pc[w] \in ZonePlaces => ZoneOwn(w)
    /\ (\A w \in Workers : pc[w] \notin ZonePlaces) => ZoneQuiet

ZoneInv == TimeZoneTypeOK /\ CarriesOK /\ ToldOK /\ ZoneCleanOK

LEMMA ZoneInit ==
  ASSUME RequestsInit, TimeZoneInit
  PROVE  ZoneInv
<1>1. \A w \in Workers : pc[w] = "idle"
  BY DEF RequestsInit
<1>2. TimeZoneTypeOK
  BY DEF TimeZoneInit, TimeZoneTypeOK, GoodAccuracy
<1>3. CarriesOK
  BY <1>1 DEF CarriesOK, AfterTheAccuracy
<1>4. ToldOK
  BY DEF TimeZoneInit, ToldOK, Told
<1>5. ZoneCleanOK
  BY <1>1, PlacesApart DEF TimeZoneInit, ZoneCleanOK, Alone, ZoneQuiet, LinkOf, AccuracyTold
<1>6. QED
  BY <1>2, <1>3, <1>4, <1>5 DEF ZoneInv

\* Nothing happens to the time zone.
LEMMA ZoneStays ==
  ASSUME ZoneInv, UNCHANGED timeZoneVars, Apart(ZonePlaces, "timezone")
  PROVE  ZoneInv'
<1> USE DEF Apart
<1>1. UNCHANGED <<tzFile, tzAccuracyFile, localtime, tzEnvironment, tzAnnounced, zonesAnnounced>>
  BY DEF timeZoneVars
<1>2. TimeZoneTypeOK'
  BY <1>1 DEF ZoneInv, TimeZoneTypeOK
<1>3. CarriesOK'
  BY DEF ZoneInv, CarriesOK, ZonePlaces, AfterTheAccuracy
<1>4. ToldOK'
  BY <1>1 DEF ZoneInv, ToldOK, Met, Told
<1>5. ZoneCleanOK'
  <2>1. ASSUME NEW w \in Workers, pc'[w] \in ZonePlaces, ZoneOwn(w) PROVE ZoneOwn(w)'
    <3>1. pc'[w] = pc[w] /\ local'[w] = local[w]
      BY <2>1
    <3>2. QED
      BY <1>1, <2>1, <3>1 DEF ZoneOwn, AccuracyTold
  <2>2. ZoneQuiet => ZoneQuiet'
    BY <1>1 DEF ZoneQuiet, AccuracyTold
  <2>3. \A w \in Workers : pc'[w] \in ZonePlaces <=> pc[w] \in ZonePlaces
    OBVIOUS
  <2>4. QED
    BY <2>1, <2>2, <2>3 DEF ZoneInv, ZoneCleanOK, Alone
<1>6. QED
  BY <1>2, <1>3, <1>4, <1>5 DEF ZoneInv

\* A call of the time zone comes to another place, or to its end.
LEMMA ZoneMoves ==
  ASSUME CallsOK, NEW w \in Workers, pc[w] \in ZonePlaces \union {"idle"}, SpoilsOnly("timezone"),
         NEW to \in ZonePlaces \union {"idle"}, NEW values \in ZoneCalls \union {NoCall},
         to \in ZonePlaces => values \in ZoneCalls,
         MovesTo(w, to, values)
  PROVE  /\ CallsOK' /\ Within(ZonePlaces, "timezone")
         /\ pc'[w] = to /\ local'[w] = values
         /\ \A v \in Workers \ {w} : pc'[v] = pc[v] /\ local'[v] = local[v]
<1>1. to \in Places /\ values \in Calls
  BY DEF Places, Calls
<1>2. to \notin TerritoryPlaces /\ to \notin NamePlaces \union FlagPlaces
  BY PlacesApart DEF NamePlaces, FlagPlaces
<1>3. /\ to \in TerritoryPlaces => values \in TerritoryCalls
      /\ to \in NamePlaces => values \in NameCalls
      /\ to \in FlagPlaces => values \in FlagCalls
  BY <1>2
<1>4. /\ CallsOK' /\ pc'[w] = to /\ local'[w] = values
      /\ \A v \in Workers \ {w} : pc'[v] = pc[v] /\ local'[v] = local[v]
  BY <1>1, <1>3, CallsMove
<1>5. QED
  BY <1>4 DEF Within

\* A call of the time zone comes to another place and goes on.
LEMMA ZoneMovesOn ==
  ASSUME CallsOK, NEW w \in Workers, pc[w] \in ZonePlaces, SpoilsOnly("timezone"),
         NEW to \in ZonePlaces, NEW values \in ZoneCalls, MovesTo(w, to, values)
  PROVE  /\ CallsOK' /\ Within(ZonePlaces, "timezone")
         /\ pc'[w] = to /\ local'[w] = values
         /\ \A v \in Workers \ {w} : pc'[v] = pc[v] /\ local'[v] = local[v]
<1>1. pc[w] \in ZonePlaces \union {"idle"} /\ to \in ZonePlaces \union {"idle"}
  OBVIOUS
<1>2. values \in ZoneCalls \union {NoCall}
  OBVIOUS
<1>3. QED
  BY <1>1, <1>2, ZoneMoves

\* A zone stays told, unless the call that is to tell it ends without.
LEMMA ToldStays ==
  ASSUME CallsOK, NEW w \in Workers,
         \A v \in Workers \ {w} : pc'[v] = pc[v] /\ local'[v] = local[v],
         zonesAnnounced \subseteq zonesAnnounced',
         \/ pc[w] \notin ZonePlaces
         \/ /\ pc'[w] \in ZonePlaces /\ local'[w].zone = local[w].zone
            /\ local'[w].oldZone = local[w].oldZone
         \/ local[w].oldZone = local[w].zone
         \/ local[w].zone \in zonesAnnounced'
  PROVE  \A zone : Told(zone) => Told(zone)'
<1> SUFFICES ASSUME NEW zone, Told(zone) PROVE Told(zone)'
  OBVIOUS
<1>1. CASE zone \in {"empty", "mixed"} \union zonesAnnounced
  BY <1>1 DEF Told
<1>2. ASSUME NEW v \in Workers, pc[v] \in ZonePlaces, local[v].zone = zone, local[v].oldZone # zone
      PROVE  Told(zone)'
  <2>1. CASE v = w
    BY <1>2, <2>1 DEF Told
  <2>2. CASE v # w
    BY <1>2, <2>2 DEF Told
  <2>3. QED
    BY <2>1, <2>2
<1>3. QED
  BY <1>1, <1>2 DEF Told

\* Where nobody is met, only the call that moves counts.
LEMMA ZoneAlone ==
  ASSUME CallsOK, ZoneCleanOK, NEW w \in Workers, SpoilsOnly("timezone"), pc[w] \in ZonePlaces,
         \A v \in Workers \ {w} : pc'[v] = pc[v] /\ local'[v] = local[v],
         Clean("timezone") /\ Clean("timezone")' /\ ZoneOwn(w) =>
           IF pc'[w] \in ZonePlaces THEN ZoneOwn(w)' ELSE ZoneQuiet'
  PROVE  ZoneCleanOK'
<1> SUFFICES ASSUME Clean("timezone")'
             PROVE  /\ Alone(ZonePlaces)'
                    /\ \A v \in Workers : pc'[v] \in ZonePlaces => ZoneOwn(v)'
                    /\ (\A v \in Workers : pc'[v] \notin ZonePlaces) => ZoneQuiet'
  BY DEF ZoneCleanOK
<1>1. Clean("timezone")
  BY CleanBefore DEF SpoilsOnly
<1>2. ZoneOwn(w) /\ \A v \in Workers : pc[v] \in ZonePlaces => v = w
  BY <1>1 DEF ZoneCleanOK, Alone
<1>3. \A v \in Workers : pc'[v] \in ZonePlaces => v = w
  BY <1>2
<1>4. IF pc'[w] \in ZonePlaces THEN ZoneOwn(w)' ELSE ZoneQuiet'
  BY <1>1, <1>2
<1>5. \A v \in Workers : pc'[v] \in ZonePlaces => ZoneOwn(v)'
  BY <1>3, <1>4
<1>6. QED
  BY <1>3, <1>4, <1>5 DEF Alone

\* What a worker at a place of SetTimeZoneDST carries.
LEMMA ZoneCall ==
  ASSUME CallsOK, NEW w \in Workers, pc[w] \in ZonePlaces
  PROVE  /\ local[w] \in ZoneCalls /\ local[w].zone \in Zones
         /\ local[w].zone \notin {"empty", "none", "mixed"}
         /\ local[w].oldZone \in Zones \union {"empty", "mixed"}
  BY TimeZoneAssumption DEF CallsOK, ZoneCalls

-----------------------------------------------------------------------------
(* SetTimeZoneDST, step by step.                                           *)

LEMMA SetUnknownZoneSafe ==
  ASSUME CallsOK, ZoneInv, NEW w \in Workers, NEW zone \in OtherZones, SetUnknownZone(w, zone)
  PROVE  CallsOK' /\ ZoneInv' /\ Within(ZonePlaces, "timezone")
<1>1. /\ UNCHANGED <<pc, local, tzFile, tzAccuracyFile, localtime, tzAnnounced, zonesAnnounced>>
      /\ tzEnvironment' = zone /\ Spoil("timezone", "refused")
  BY DEF SetUnknownZone, Instant
<1>2. SpoilsOnly("timezone") /\ ~Clean("timezone")'
  BY <1>1, SpoilKinds
<1>3. CallsOK' /\ Within(ZonePlaces, "timezone")
  BY <1>1, <1>2, CallsStay DEF Within
<1>4. TimeZoneTypeOK' /\ CarriesOK'
  BY <1>1 DEF ZoneInv, TimeZoneTypeOK, CarriesOK
<1>5. ToldOK'
  BY <1>1, <1>2 DEF ZoneInv, ToldOK, Met, Told, SpoilsOnly
<1>6. ZoneCleanOK'
  BY <1>2 DEF ZoneCleanOK
<1>7. QED
  BY <1>3, <1>4, <1>5, <1>6 DEF ZoneInv

LEMMA SetTimeZoneDSTSafe ==
  ASSUME CallsOK, ZoneInv, NEW w \in Workers, NEW zone \in Zones, NEW accuracy \in Accuracies,
         SetTimeZoneDST(w, zone, accuracy)
  PROVE  CallsOK' /\ ZoneInv' /\ Within(ZonePlaces, "timezone")
<1> DEFINE values == [part |-> "timezone", zone |-> zone, accuracy |-> accuracy,
                      oldZone |-> tzFile, oldAccuracy |-> "empty"]
           to == IF tzFile # zone THEN "openZone" ELSE "readAccuracy"
<1>1. /\ pc[w] = "idle" /\ pc' = [pc EXCEPT ![w] = to] /\ local' = [local EXCEPT ![w] = values]
      /\ Overlaps("timezone") /\ UNCHANGED timeZoneVars
  BY DEF SetTimeZoneDST, Start
<1>2. UNCHANGED <<tzFile, tzAccuracyFile, localtime, tzEnvironment, tzAnnounced, zonesAnnounced>>
  BY <1>1 DEF timeZoneVars
<1>3. tzFile \in Zones \union {"empty", "mixed"}
  BY DEF ZoneInv, TimeZoneTypeOK
<1>4. values \in ZoneCalls /\ values.zone = zone /\ values.oldZone = tzFile
  BY <1>3 DEF ZoneCalls
<1>5. to \in {"openZone", "readAccuracy"} /\ to \in ZonePlaces
      /\ (to = "openZone" <=> tzFile # zone)
  BY DEF ZonePlaces
<1> HIDE DEF values, to
<1>6. SpoilsOnly("timezone") /\ (Busy("timezone") => ~Clean("timezone")')
  BY <1>1, SpoilKinds
<1>7. /\ CallsOK' /\ Within(ZonePlaces, "timezone") /\ pc'[w] = to /\ local'[w] = values
      /\ \A v \in Workers \ {w} : pc'[v] = pc[v] /\ local'[v] = local[v]
  <2>1. MovesTo(w, to, values)
    BY <1>1 DEF MovesTo
  <2>2. QED
    BY <1>1, <1>4, <1>5, <1>6, <2>1, ZoneMoves
<1>8. TimeZoneTypeOK'
  BY <1>2 DEF ZoneInv, TimeZoneTypeOK
<1>9. CarriesOK'
  BY <1>4, <1>5, <1>7 DEF ZoneInv, CarriesOK, AfterTheAccuracy
<1>10. ToldOK'
  <2>1. \A z : Told(z) => Told(z)'
    BY <1>1, <1>2, <1>7, PlacesApart, ToldStays
  <2>2. Told(tzFile) => Told(tzFile)'
    BY <1>2, <2>1 DEF Told
  <2>3. Met("timezone", "crash") => Met("timezone", "crash")'
    BY <1>6 DEF Met, SpoilsOnly
  <2>4. QED
    BY <2>2, <2>3 DEF ZoneInv, ToldOK
<1>11. ZoneCleanOK'
  <2> SUFFICES ASSUME Clean("timezone")'
               PROVE  /\ Alone(ZonePlaces)'
                      /\ \A v \in Workers : pc'[v] \in ZonePlaces => ZoneOwn(v)'
                      /\ (\A v \in Workers : pc'[v] \notin ZonePlaces) => ZoneQuiet'
    BY DEF ZoneCleanOK
  <2>1. Clean("timezone") /\ ~Busy("timezone")
    BY <1>6, CleanBefore DEF SpoilsOnly
  <2>2. \A v \in Workers : pc[v] \notin ZonePlaces
    BY <2>1, WhoseCall DEF Busy
  <2>3. ZoneQuiet
    BY <2>1, <2>2 DEF ZoneInv, ZoneCleanOK
  <2>4. \A v \in Workers : pc'[v] \in ZonePlaces => v = w
    BY <1>7, <2>2
  <2>5. ZoneOwn(w)'
    <3>1. zone \notin {"empty", "none", "mixed"}
      BY TimeZoneAssumption
    <3>2. pc'[w] = to /\ local'[w].zone = zone /\ local'[w].oldZone = tzFile
      BY <1>4, <1>7
    <3>3. AccuracyTold'
      BY <1>2, <2>3 DEF ZoneQuiet, AccuracyTold
    <3>4. QED
      BY <1>2, <1>5, <2>3, <3>1, <3>2, <3>3
      DEF ZoneOwn, ZoneQuiet, AfterTheZone, AfterTheAccuracy, LinkOf
  <2>6. QED
    BY <1>5, <1>7, <2>4, <2>5 DEF Alone
<1>12. QED
  BY <1>7, <1>8, <1>9, <1>10, <1>11 DEF ZoneInv

\* A step of a call that is not its last.
LEMMA ZoneGoesOn ==
  ASSUME CallsOK, ZoneInv, NEW w \in Workers, pc[w] \in ZonePlaces, SpoilsOnly("timezone"),
         NEW to \in ZonePlaces, NEW values \in ZoneCalls,
         values.zone = local[w].zone, values.oldZone = local[w].oldZone,
         to \in AfterTheAccuracy => values.accuracy \in GoodAccuracy \union {"empty"},
         to \in {"openZone", "writeZone"} => pc[w] = "openZone",
         pc' = [pc EXCEPT ![w] = to], local' = [local EXCEPT ![w] = values],
         TimeZoneTypeOK', UNCHANGED <<zonesAnnounced, tzAnnounced>>,
         \/ tzFile' \in {tzFile, "empty", "mixed"}
         \/ tzFile' = local[w].zone /\ pc[w] = "writeZone",
         /\ Clean("timezone") /\ Clean("timezone")' /\ ZoneOwn(w)
         /\ pc'[w] = to /\ local'[w] = values
         => ZoneOwn(w)'
  PROVE  CallsOK' /\ ZoneInv' /\ Within(ZonePlaces, "timezone")
<1>1. /\ CallsOK' /\ Within(ZonePlaces, "timezone") /\ pc'[w] = to /\ local'[w] = values
      /\ \A v \in Workers \ {w} : pc'[v] = pc[v] /\ local'[v] = local[v]
  <2>1. MovesTo(w, to, values)
    BY DEF MovesTo
  <2>2. QED
    BY <2>1, ZoneMovesOn
<1>2. CarriesOK'
  BY <1>1 DEF ZoneInv, CarriesOK
<1>3. ToldOK'
  <2>1. \A zone : Told(zone) => Told(zone)'
    BY <1>1, ToldStays
  <2>2. Met("timezone", "crash") => Met("timezone", "crash")'
    BY DEF Met, SpoilsOnly
  <2>3. CASE tzFile' = tzFile
    BY <2>1, <2>2, <2>3 DEF ZoneInv, ToldOK, Told
  <2>4. CASE tzFile' \in {"empty", "mixed"}
    BY <2>4 DEF ToldOK, Told
  <2>5. CASE tzFile' = local[w].zone /\ pc[w] = "writeZone"
    <3>1. pc'[w] \in ZonePlaces /\ local'[w].zone = tzFile' /\ local'[w].oldZone # tzFile'
      BY <1>1, <2>5 DEF ZoneInv, CarriesOK
    <3>2. QED
      BY <3>1 DEF ToldOK, Told
  <2>6. QED
    BY <2>3, <2>4, <2>5
<1>4. ZoneCleanOK'
  BY <1>1, ZoneAlone DEF ZoneInv
<1>5. QED
  BY <1>1, <1>2, <1>3, <1>4 DEF ZoneInv

LEMMA OpenZoneSafe ==
  ASSUME CallsOK, ZoneInv, NEW w \in Workers, OpenZone(w)
  PROVE  CallsOK' /\ ZoneInv' /\ Within(ZonePlaces, "timezone")
<1>1. /\ pc[w] = "openZone" /\ pc[w] \in ZonePlaces
      /\ UNCHANGED <<tzAccuracyFile, localtime, tzEnvironment, tzAnnounced, zonesAnnounced>>
  BY DEF OpenZone, ZonePlaces
<1>2. local[w] \in ZoneCalls
  BY <1>1, ZoneCall
<1>3. {"writeZone", "readAccuracy"} \subseteq ZonePlaces \ AfterTheAccuracy
  BY DEF ZonePlaces, AfterTheAccuracy
<1>4. CASE tzFile' = "empty" /\ Step(w, "writeZone", local[w]) /\ UNCHANGED spoiled
  <2>1. pc' = [pc EXCEPT ![w] = "writeZone"] /\ local' = [local EXCEPT ![w] = local[w]]
    BY <1>4 DEF Step
  <2>2. SpoilsOnly("timezone")
    BY <1>4, SpoilKinds
  <2>3. TimeZoneTypeOK'
    BY <1>1, <1>4 DEF ZoneInv, TimeZoneTypeOK
  <2>4. /\ Clean("timezone") /\ Clean("timezone")' /\ ZoneOwn(w)
        /\ pc'[w] = "writeZone" /\ local'[w] = local[w]
        => ZoneOwn(w)'
    BY <1>1, <1>4 DEF ZoneOwn, AfterTheZone, AfterTheAccuracy, AccuracyTold
  <2>5. QED
    BY <1>1, <1>2, <1>3, <1>4, <2>1, <2>2, <2>3, <2>4, ZoneGoesOn
<1>5. CASE UNCHANGED tzFile /\ Step(w, "readAccuracy", local[w]) /\ Spoil("timezone", "failure")
  <2>1. pc' = [pc EXCEPT ![w] = "readAccuracy"] /\ local' = [local EXCEPT ![w] = local[w]]
    BY <1>5 DEF Step
  <2>2. SpoilsOnly("timezone") /\ ~Clean("timezone")'
    BY <1>5, SpoilKinds
  <2>3. TimeZoneTypeOK'
    BY <1>1, <1>5 DEF ZoneInv, TimeZoneTypeOK
  <2>4. QED
    BY <1>1, <1>2, <1>3, <1>5, <2>1, <2>2, <2>3, ZoneGoesOn
<1>6. QED
  BY <1>4, <1>5 DEF OpenZone

LEMMA WriteZoneSafe ==
  ASSUME CallsOK, ZoneInv, NEW w \in Workers, WriteZone(w)
  PROVE  CallsOK' /\ ZoneInv' /\ Within(ZonePlaces, "timezone")
<1>1. /\ pc[w] = "writeZone" /\ pc[w] \in ZonePlaces
      /\ UNCHANGED <<tzAccuracyFile, localtime, tzEnvironment, tzAnnounced, zonesAnnounced>>
      /\ pc' = [pc EXCEPT ![w] = "removeLink"] /\ local' = [local EXCEPT ![w] = local[w]]
  BY DEF WriteZone, ZonePlaces, Step
<1>2. local[w] \in ZoneCalls /\ local[w].zone \in Zones
  BY <1>1, ZoneCall
<1>3. "removeLink" \in ZonePlaces \ AfterTheAccuracy
  BY DEF ZonePlaces, AfterTheAccuracy
<1>4. CASE /\ tzFile' \in IF tzFile = "empty" THEN {local[w].zone} ELSE {local[w].zone, "mixed"}
           /\ UNCHANGED spoiled
  <2>1. /\ tzFile' \in {local[w].zone, "mixed"}
        /\ tzFile = "empty" => tzFile' = local[w].zone
    BY <1>4
  <2>2. SpoilsOnly("timezone")
    BY <1>4, SpoilKinds
  <2>3. TimeZoneTypeOK'
    BY <1>1, <1>2, <2>1 DEF ZoneInv, TimeZoneTypeOK
  <2>4. /\ Clean("timezone") /\ Clean("timezone")' /\ ZoneOwn(w)
        /\ pc'[w] = "removeLink" /\ local'[w] = local[w]
        => ZoneOwn(w)'
    BY <1>1, <2>1 DEF ZoneOwn, AfterTheZone, AfterTheAccuracy, AccuracyTold
  <2>5. QED
    BY <1>1, <1>2, <1>3, <2>1, <2>2, <2>3, <2>4, ZoneGoesOn
<1>5. CASE UNCHANGED tzFile /\ Spoil("timezone", "failure")
  <2>1. SpoilsOnly("timezone") /\ ~Clean("timezone")'
    BY <1>5, SpoilKinds
  <2>2. TimeZoneTypeOK'
    BY <1>1, <1>5 DEF ZoneInv, TimeZoneTypeOK
  <2>3. QED
    BY <1>1, <1>2, <1>3, <1>5, <2>1, <2>2, ZoneGoesOn
<1>6. QED
  BY <1>4, <1>5 DEF WriteZone

LEMMA RemoveLinkSafe ==
  ASSUME CallsOK, ZoneInv, NEW w \in Workers, RemoveLink(w)
  PROVE  CallsOK' /\ ZoneInv' /\ Within(ZonePlaces, "timezone")
<1>1. /\ pc[w] = "removeLink" /\ pc[w] \in ZonePlaces
      /\ UNCHANGED <<tzFile, tzAccuracyFile, tzEnvironment, tzAnnounced, zonesAnnounced>>
      /\ pc' = [pc EXCEPT ![w] = "makeLink"] /\ local' = [local EXCEPT ![w] = local[w]]
  BY DEF RemoveLink, ZonePlaces, Step
<1>2. local[w] \in ZoneCalls
  BY <1>1, ZoneCall
<1>3. "makeLink" \in ZonePlaces \ AfterTheAccuracy
  BY DEF ZonePlaces, AfterTheAccuracy
<1>4. TimeZoneTypeOK'
  BY <1>1 DEF RemoveLink, ZoneInv, TimeZoneTypeOK
<1>5. CASE localtime' = "none" /\ UNCHANGED spoiled
  <2>1. SpoilsOnly("timezone")
    BY <1>5, SpoilKinds
  <2>2. /\ Clean("timezone") /\ Clean("timezone")' /\ ZoneOwn(w)
        /\ pc'[w] = "makeLink" /\ local'[w] = local[w]
        => ZoneOwn(w)'
    BY <1>1, <1>5 DEF ZoneOwn, AfterTheZone, AfterTheAccuracy, AccuracyTold
  <2>3. QED
    BY <1>1, <1>2, <1>3, <1>4, <2>1, <2>2, ZoneGoesOn
<1>6. CASE UNCHANGED localtime /\ Spoil("timezone", "failure")
  <2>1. SpoilsOnly("timezone") /\ ~Clean("timezone")'
    BY <1>6, SpoilKinds
  <2>2. QED
    BY <1>1, <1>2, <1>3, <1>4, <2>1, ZoneGoesOn
<1>7. QED
  BY <1>5, <1>6 DEF RemoveLink

LEMMA MakeLinkSafe ==
  ASSUME CallsOK, ZoneInv, NEW w \in Workers, MakeLink(w)
  PROVE  CallsOK' /\ ZoneInv' /\ Within(ZonePlaces, "timezone")
<1>1. /\ pc[w] = "makeLink" /\ pc[w] \in ZonePlaces
      /\ UNCHANGED <<spoiled, tzFile, tzAccuracyFile, tzEnvironment, tzAnnounced, zonesAnnounced>>
      /\ pc' = [pc EXCEPT ![w] = "readAccuracy"] /\ local' = [local EXCEPT ![w] = local[w]]
      /\ localtime' = IF localtime = "none" THEN local[w].zone ELSE localtime
  BY DEF MakeLink, ZonePlaces, Step
<1>2. local[w] \in ZoneCalls /\ local[w].zone \in Zones
  BY <1>1, ZoneCall
<1>3. "readAccuracy" \in ZonePlaces \ AfterTheAccuracy
  BY DEF ZonePlaces, AfterTheAccuracy
<1>4. TimeZoneTypeOK'
  BY <1>1, <1>2 DEF ZoneInv, TimeZoneTypeOK
<1>5. SpoilsOnly("timezone")
  BY <1>1, SpoilKinds
<1>6. /\ Clean("timezone") /\ Clean("timezone")' /\ ZoneOwn(w)
      /\ pc'[w] = "readAccuracy" /\ local'[w] = local[w]
      => ZoneOwn(w)'
  BY <1>1 DEF ZoneOwn, AfterTheZone, AfterTheAccuracy, AccuracyTold
<1>7. QED
  BY <1>1, <1>2, <1>3, <1>4, <1>5, <1>6, ZoneGoesOn

LEMMA AccuracyKnown ==
  /\ \A line : accuracyOf(line) \in GoodAccuracy
  /\ \A accuracy \in GoodAccuracy : accuracyOf(accuracy) = accuracy
  /\ "empty" \notin GoodAccuracy
  BY DEF accuracyOf, GoodAccuracy

Choosing(l, current, old) == [l EXCEPT !.accuracy = current, !.oldAccuracy = old]

LEMMA AccuracyChosen ==
  ASSUME NEW l \in ZoneCalls, NEW current \in Accuracies \union GoodAccuracy,
         NEW old \in GoodAccuracy
  PROVE  /\ Choosing(l, current, old) \in ZoneCalls
         /\ Choosing(l, current, old).zone = l.zone
         /\ Choosing(l, current, old).oldZone = l.oldZone
         /\ Choosing(l, current, old).accuracy = current
         /\ Choosing(l, current, old).oldAccuracy = old
<1>1. /\ l = [part |-> l.part, zone |-> l.zone, accuracy |-> l.accuracy,
              oldZone |-> l.oldZone, oldAccuracy |-> l.oldAccuracy]
      /\ l.part = "timezone" /\ l.zone \in Zones /\ l.oldZone \in Zones \union {"empty", "mixed"}
  BY DEF ZoneCalls
<1> DEFINE values == Choosing(l, current, old)
<1>2. values = [part |-> "timezone", zone |-> l.zone, accuracy |-> current,
                oldZone |-> l.oldZone, oldAccuracy |-> old]
  <2>1. values = [[part |-> "timezone", zone |-> l.zone, accuracy |-> l.accuracy,
                   oldZone |-> l.oldZone, oldAccuracy |-> l.oldAccuracy]
                  EXCEPT !.accuracy = current, !.oldAccuracy = old]
    BY <1>1, Zenon DEF Choosing
  <2>2. QED
    BY <2>1
<1> HIDE DEF values
<1>3. values \in ZoneCalls
  BY <1>1, <1>2 DEF ZoneCalls
<1>4. /\ values.zone = l.zone /\ values.oldZone = l.oldZone
      /\ values.accuracy = current /\ values.oldAccuracy = old
  BY <1>2
<1>5. QED
  BY <1>3, <1>4 DEF values

LEMMA ReadAccuracySafe ==
  ASSUME CallsOK, ZoneInv, NEW w \in Workers, ReadAccuracy(w)
  PROVE  CallsOK' /\ ZoneInv' /\ Within(ZonePlaces, "timezone")
<1> DEFINE old == accuracyOf(tzAccuracyFile)
           current == currentAccuracy(local[w].accuracy, old)
           to == IF current # old THEN "openAccuracy" ELSE "announce"
           values == Choosing(local[w], current, old)
<1>1. /\ pc[w] = "readAccuracy" /\ pc[w] \in ZonePlaces /\ UNCHANGED <<spoiled, timeZoneVars>>
      /\ pc' = [pc EXCEPT ![w] = to] /\ local' = [local EXCEPT ![w] = values]
  BY DEF ReadAccuracy, ZonePlaces, Step, Choosing
<1>2. UNCHANGED <<tzFile, tzAccuracyFile, localtime, tzEnvironment, tzAnnounced, zonesAnnounced>>
  BY <1>1 DEF timeZoneVars
<1>3. /\ old \in GoodAccuracy /\ current \in GoodAccuracy \union {"empty"}
      /\ current \in {local[w].accuracy} \union GoodAccuracy
  BY AccuracyKnown DEF currentAccuracy
<1>4. /\ to \in AfterTheAccuracy /\ to \in ZonePlaces /\ to \notin {"openZone", "writeZone"}
      /\ to = "announce" => current = old
      /\ to \in AfterTheZone /\ to \notin {"makeLink", "writeAccuracy"}
  BY DEF ZonePlaces, AfterTheAccuracy, AfterTheZone
<1> HIDE DEF old, current, to
<1>5. /\ values \in ZoneCalls /\ values.zone = local[w].zone
      /\ values.oldZone = local[w].oldZone /\ values.accuracy = current
      /\ values.oldAccuracy = old
  <2>1. local[w] \in ZoneCalls
    BY <1>1, ZoneCall
  <2>2. current \in Accuracies \union GoodAccuracy
    BY <1>3, <2>1 DEF ZoneCalls
  <2>3. QED
    BY <1>3, <2>1, <2>2, AccuracyChosen
<1> HIDE DEF values
<1>6. TimeZoneTypeOK'
  BY <1>2 DEF ZoneInv, TimeZoneTypeOK
<1>7. SpoilsOnly("timezone")
  BY <1>1, SpoilKinds
<1>8. ASSUME Clean("timezone"), Clean("timezone")', ZoneOwn(w), pc'[w] = to, local'[w] = values
      PROVE  ZoneOwn(w)'
  <2>1. /\ local[w].oldZone = tzAnnounced.newZone /\ tzFile = local[w].zone
        /\ localtime = local[w].zone /\ old = accuracyOf(tzAnnounced.newAccuracy)
    BY <1>1, <1>8 DEF ZoneOwn, AfterTheZone, AfterTheAccuracy, AccuracyTold, old
  <2>2. /\ pc'[w] \in AfterTheAccuracy /\ pc'[w] \notin {"openZone", "writeZone", "makeLink"}
        /\ pc'[w] # "writeAccuracy"
    BY <1>4, <1>8
  <2>3. pc'[w] = "announce" => accuracyOf(tzAccuracyFile') = accuracyOf(local'[w].accuracy)
    BY <1>2, <1>3, <1>4, <1>5, <1>8, AccuracyKnown DEF old
  <2>4. local'[w].oldAccuracy = old /\ local'[w].zone = local[w].zone
        /\ local'[w].oldZone = local[w].oldZone
    BY <1>5, <1>8
  <2>5. QED
    BY <1>2, <2>1, <2>2, <2>3, <2>4 DEF ZoneOwn
<1>9. QED
  BY <1>1, <1>2, <1>3, <1>4, <1>5, <1>6, <1>7, <1>8, ZoneGoesOn
LEMMA OpenAccuracySafe ==
  ASSUME CallsOK, ZoneInv, NEW w \in Workers, OpenAccuracy(w)
  PROVE  CallsOK' /\ ZoneInv' /\ Within(ZonePlaces, "timezone")
<1>1. /\ pc[w] = "openAccuracy" /\ pc[w] \in ZonePlaces \intersect AfterTheAccuracy
      /\ UNCHANGED <<tzFile, localtime, tzEnvironment, tzAnnounced, zonesAnnounced>>
  BY DEF OpenAccuracy, ZonePlaces, AfterTheAccuracy
<1>2. local[w] \in ZoneCalls /\ local[w].accuracy \in GoodAccuracy \union {"empty"}
  BY <1>1, ZoneCall DEF ZoneInv, CarriesOK
<1>3. {"writeAccuracy", "announce"} \subseteq ZonePlaces \ {"openZone", "writeZone"}
  BY DEF ZonePlaces
<1>4. CASE tzAccuracyFile' = "empty" /\ Step(w, "writeAccuracy", local[w]) /\ UNCHANGED spoiled
  <2>1. pc' = [pc EXCEPT ![w] = "writeAccuracy"] /\ local' = [local EXCEPT ![w] = local[w]]
    BY <1>4 DEF Step
  <2>2. SpoilsOnly("timezone")
    BY <1>4, SpoilKinds
  <2>3. TimeZoneTypeOK'
    BY <1>1, <1>4 DEF ZoneInv, TimeZoneTypeOK
  <2>4. /\ Clean("timezone") /\ Clean("timezone")' /\ ZoneOwn(w)
        /\ pc'[w] = "writeAccuracy" /\ local'[w] = local[w]
        => ZoneOwn(w)'
    BY <1>1, <1>4 DEF ZoneOwn, AfterTheZone, AfterTheAccuracy, AccuracyTold
  <2>5. QED
    BY <1>1, <1>2, <1>3, <1>4, <2>1, <2>2, <2>3, <2>4, ZoneGoesOn
<1>5. CASE UNCHANGED tzAccuracyFile /\ Step(w, "announce", local[w]) /\ Spoil("timezone", "failure")
  <2>1. pc' = [pc EXCEPT ![w] = "announce"] /\ local' = [local EXCEPT ![w] = local[w]]
    BY <1>5 DEF Step
  <2>2. SpoilsOnly("timezone") /\ ~Clean("timezone")'
    BY <1>5, SpoilKinds
  <2>3. TimeZoneTypeOK'
    BY <1>1, <1>5 DEF ZoneInv, TimeZoneTypeOK
  <2>4. QED
    BY <1>1, <1>2, <1>3, <1>5, <2>1, <2>2, <2>3, ZoneGoesOn
<1>6. QED
  BY <1>4, <1>5 DEF OpenAccuracy

LEMMA WriteAccuracySafe ==
  ASSUME CallsOK, ZoneInv, NEW w \in Workers, WriteAccuracy(w)
  PROVE  CallsOK' /\ ZoneInv' /\ Within(ZonePlaces, "timezone")
<1>1. /\ pc[w] = "writeAccuracy" /\ pc[w] \in ZonePlaces \intersect AfterTheAccuracy
      /\ UNCHANGED <<tzFile, localtime, tzEnvironment, tzAnnounced, zonesAnnounced>>
      /\ pc' = [pc EXCEPT ![w] = "announce"] /\ local' = [local EXCEPT ![w] = local[w]]
  BY DEF WriteAccuracy, ZonePlaces, AfterTheAccuracy, Step
<1>2. local[w] \in ZoneCalls /\ local[w].accuracy \in GoodAccuracy \union {"empty"}
  BY <1>1, ZoneCall DEF ZoneInv, CarriesOK
<1>3. "announce" \in ZonePlaces \ {"openZone", "writeZone"}
  BY DEF ZonePlaces
<1>4. CASE /\ tzAccuracyFile' \in
                IF tzAccuracyFile = "empty" THEN {local[w].accuracy}
                ELSE {local[w].accuracy, "mixed"}
           /\ UNCHANGED spoiled
  <2>1. /\ tzAccuracyFile' \in {local[w].accuracy, "mixed"}
        /\ tzAccuracyFile = "empty" => tzAccuracyFile' = local[w].accuracy
    BY <1>4
  <2>2. SpoilsOnly("timezone")
    BY <1>4, SpoilKinds
  <2>3. TimeZoneTypeOK'
    BY <1>1, <1>2, <2>1 DEF ZoneInv, TimeZoneTypeOK
  <2>4. /\ Clean("timezone") /\ Clean("timezone")' /\ ZoneOwn(w)
        /\ pc'[w] = "announce" /\ local'[w] = local[w]
        => ZoneOwn(w)'
    BY <1>1, <2>1 DEF ZoneOwn, AfterTheZone, AfterTheAccuracy, AccuracyTold
  <2>5. QED
    BY <1>1, <1>2, <1>3, <2>2, <2>3, <2>4, ZoneGoesOn
<1>5. CASE UNCHANGED tzAccuracyFile /\ Spoil("timezone", "failure")
  <2>1. SpoilsOnly("timezone") /\ ~Clean("timezone")'
    BY <1>5, SpoilKinds
  <2>2. TimeZoneTypeOK'
    BY <1>1, <1>5 DEF ZoneInv, TimeZoneTypeOK
  <2>3. QED
    BY <1>1, <1>2, <1>3, <1>5, <2>1, <2>2, ZoneGoesOn
<1>6. QED
  BY <1>4, <1>5 DEF WriteAccuracy

\* The last step of a call: what it has of old and new is told, or is the same.
LEMMA AnnounceSafe ==
  ASSUME CallsOK, ZoneInv, NEW w \in Workers, Announce(w)
  PROVE  CallsOK' /\ ZoneInv' /\ Within(ZonePlaces, "timezone")
<1> DEFINE l == local[w]
           told == [oldZone |-> l.oldZone, newZone |-> l.zone,
                    oldAccuracy |-> l.oldAccuracy, newAccuracy |-> l.accuracy]
<1>1. /\ pc[w] = "announce" /\ pc[w] \in ZonePlaces \intersect AfterTheAccuracy
      /\ UNCHANGED <<spoiled, tzFile, tzAccuracyFile, localtime>>
      /\ tzEnvironment' = l.zone
      /\ pc' = [pc EXCEPT ![w] = "idle"] /\ local' = [local EXCEPT ![w] = NoCall]
  BY DEF Announce, ZonePlaces, AfterTheAccuracy, Finish, Step
<1>2. \/ tzAnnounced' = told /\ zonesAnnounced' = zonesAnnounced \union {l.zone}
      \/ /\ UNCHANGED <<tzAnnounced, zonesAnnounced>>
         /\ l.oldZone = l.zone /\ l.oldAccuracy = l.accuracy
  BY DEF Announce, OnTimeZoneDSTChanged
<1>3. told.newZone = l.zone /\ told.newAccuracy = l.accuracy
  OBVIOUS
<1> HIDE DEF told
<1>4. l.zone \in Zones /\ l.zone \notin {"empty", "none", "mixed"}
  BY <1>1, ZoneCall
<1>5. l.accuracy \in GoodAccuracy \union {"empty"}
  BY <1>1 DEF ZoneInv, CarriesOK
<1>6. SpoilsOnly("timezone")
  BY <1>1, SpoilKinds
<1>7. /\ CallsOK' /\ Within(ZonePlaces, "timezone") /\ pc'[w] = "idle"
      /\ \A v \in Workers \ {w} : pc'[v] = pc[v] /\ local'[v] = local[v]
  <2>1. "idle" \notin ZonePlaces
    BY PlacesApart
  <2>2. MovesTo(w, "idle", NoCall)
    BY <1>1 DEF MovesTo
  <2>3. QED
    BY <1>1, <1>6, <2>1, <2>2, ZoneMoves
<1>8. TimeZoneTypeOK'
  BY <1>1, <1>2, <1>4 DEF ZoneInv, TimeZoneTypeOK
<1>9. CarriesOK'
  BY <1>7 DEF ZoneInv, CarriesOK, AfterTheAccuracy
<1>10. ToldOK'
  <2>1. /\ zonesAnnounced \subseteq zonesAnnounced'
        /\ l.oldZone = l.zone \/ l.zone \in zonesAnnounced'
    BY <1>2
  <2>2. \A zone : Told(zone) => Told(zone)'
    BY <1>7, <2>1, ToldStays
  <2>3. Met("timezone", "crash") => Met("timezone", "crash")'
    BY <1>1 DEF Met
  <2>4. Told(tzFile) => Told(tzFile)'
    BY <1>1, <2>2 DEF Told
  <2>5. QED
    BY <2>3, <2>4 DEF ZoneInv, ToldOK
<1>11. ZoneOwn(w) => ZoneQuiet'
  <2> SUFFICES ASSUME ZoneOwn(w) PROVE ZoneQuiet'
    OBVIOUS
  <2>1. /\ l.oldZone = tzAnnounced.newZone /\ tzFile = l.zone /\ localtime = l.zone
        /\ l.oldAccuracy = accuracyOf(tzAnnounced.newAccuracy)
        /\ accuracyOf(tzAccuracyFile) = accuracyOf(l.accuracy)
    BY <1>1 DEF ZoneOwn, AfterTheZone, AfterTheAccuracy
  <2>2. tzAnnounced'.newZone = l.zone
    BY <1>2, <1>3, <2>1
  <2>3. accuracyOf(l.accuracy) = accuracyOf(tzAnnounced'.newAccuracy)
    <3>1. CASE tzAnnounced' = told
      BY <1>3, <3>1
    <3>2. CASE UNCHANGED tzAnnounced /\ l.oldAccuracy = l.accuracy
      BY <2>1, <3>2, AccuracyKnown
    <3>3. QED
      BY <1>2, <3>1, <3>2
  <2>4. QED
    BY <1>1, <1>4, <2>1, <2>2, <2>3 DEF ZoneQuiet, AccuracyTold, LinkOf
<1>12. ZoneCleanOK'
  <2>1. pc'[w] \notin ZonePlaces
    BY <1>7, PlacesApart
  <2>2. QED
    BY <1>1, <1>6, <1>7, <1>11, <2>1, ZoneAlone DEF ZoneInv
<1>13. QED
  BY <1>7, <1>8, <1>9, <1>10, <1>12 DEF ZoneInv

\* The process ends: a call of the time zone that it cuts off is written down.
LEMMA ZoneRestartSafe ==
  ASSUME CallsOK, ZoneInv, Abandon, TimeZoneRestarts
  PROVE  ZoneInv'
<1>1. /\ \A v \in Workers : pc'[v] = "idle" /\ pc'[v] \notin ZonePlaces
      /\ UNCHANGED <<tzFile, tzAccuracyFile, localtime, tzAnnounced, zonesAnnounced>>
      /\ tzEnvironment' = tzFile
  BY PlacesApart DEF Abandon, TimeZoneRestarts
<1>2. /\ spoiled \subseteq spoiled'
      /\ Busy("timezone") => ~Clean("timezone")' /\ Met("timezone", "crash")'
  BY AbandonSpoils
<1>3. (\E v \in Workers : pc[v] \in ZonePlaces) => Busy("timezone")
  BY WhoseCall DEF Busy
<1>4. TimeZoneTypeOK'
  BY <1>1 DEF ZoneInv, TimeZoneTypeOK
<1>5. CarriesOK'
  BY <1>1 DEF CarriesOK, AfterTheAccuracy
<1>6. ToldOK'
  <2>1. Met("timezone", "crash") => Met("timezone", "crash")'
    BY <1>2 DEF Met
  <2>2. CASE \E v \in Workers : pc[v] \in ZonePlaces
    BY <1>2, <1>3, <2>2 DEF ToldOK
  <2>3. CASE \A v \in Workers : pc[v] \notin ZonePlaces
    BY <1>1, <2>1, <2>3 DEF ZoneInv, ToldOK, Told
  <2>4. QED
    BY <2>2, <2>3
<1>7. ZoneCleanOK'
  <2> SUFFICES ASSUME Clean("timezone")' PROVE ZoneQuiet'
    BY <1>1 DEF ZoneCleanOK, Alone
  <2>1. Clean("timezone") /\ \A v \in Workers : pc[v] \notin ZonePlaces
    BY <1>2, <1>3, CleanBefore
  <2>2. ZoneQuiet
    BY <2>1 DEF ZoneInv, ZoneCleanOK
  <2>3. QED
    BY <1>1, <2>2 DEF ZoneQuiet, AccuracyTold
<1>8. QED
  BY <1>4, <1>5, <1>6, <1>7 DEF ZoneInv

LEMMA TimeZoneStepSafe ==
  ASSUME CallsOK, ZoneInv, NEW w \in Workers, TimeZoneStep(w)
  PROVE  CallsOK' /\ ZoneInv' /\ Within(ZonePlaces, "timezone")
  BY OpenZoneSafe, WriteZoneSafe, RemoveLinkSafe, MakeLinkSafe, ReadAccuracySafe,
     OpenAccuracySafe, WriteAccuracySafe, AnnounceSafe, SetUnknownZoneSafe, SetTimeZoneDSTSafe
  DEF TimeZoneStep

-----------------------------------------------------------------------------
(* The friendly name.                                                      *)

NameTypes ==
  /\ m_friendlyName \in Names /\ nameAnnounced \in Names /\ nameTold \in BOOLEAN
  /\ rfcFriendlyName \in Names \union {"unset"}

\* A name that was not told since it was stored is in the hands of a call that
\* will tell it: one that reads the member, or one that has read it.
ToldLater ==
  \/ nameTold
  \/ \E w \in Workers : \/ pc[w] = "makeParams"
                        \/ pc[w] = "tellName" /\ local[w].name = m_friendlyName

NoOverlap == ~Met("name", "overlap")

\* While calls meet nobody there is one at most, and it tells the member.
NameOrderOK ==
  NoOverlap =>
    /\ Alone(NamePlaces)
    /\ \A w \in Workers : pc[w] = "tellName" => local[w].name = m_friendlyName
    /\ TellingName \/ nameAnnounced = m_friendlyName

\* With no failure either, the one that stores has the member in its hands, and
\* between calls a restart would take the same name.
NameCleanOK ==
  Clean("name") =>
    /\ Alone(NamePlaces)
    /\ \A w \in Workers : pc[w] = "setRFCParameter" => local[w].name = m_friendlyName
    /\ (\A w \in Workers : pc[w] \notin NamePlaces) =>
         m_friendlyName = ConfigureName(rfcFriendlyName)

NameInv == NameTypes /\ ToldLater /\ NameOrderOK /\ NameCleanOK

memberVars == <<m_friendlyName, rfcFriendlyName, nameAnnounced, nameTold>>

LEMMA NameInitSafe ==
  ASSUME RequestsInit, NameInit
  PROVE  NameInv
<1>1. \A w \in Workers : pc[w] = "idle"
  BY DEF RequestsInit
<1>2. NameTypes
  BY NamesAssumption DEF NameInit, NameTypes, ConfigureName
<1>3. ToldLater
  BY DEF NameInit, ToldLater
<1>4. NameOrderOK
  BY <1>1 DEF NameInit, NameOrderOK, Alone, NamePlaces
<1>5. NameCleanOK
  BY <1>1, PlacesApart DEF NameInit, NameCleanOK, Alone, NamePlaces
<1>6. QED
  BY <1>2, <1>3, <1>4, <1>5 DEF NameInv

\* What is not excused was not excused before.
LEMMA StillNoOverlap ==
  ASSUME spoiled \subseteq spoiled'
  PROVE  NoOverlap' => NoOverlap
  BY DEF NoOverlap, Met

\* Nothing happens to the name.
LEMMA NameStays ==
  ASSUME NameInv, UNCHANGED memberVars, Apart(NamePlaces, "name")
  PROVE  NameInv'
<1> USE DEF Apart
<1>1. UNCHANGED <<m_friendlyName, rfcFriendlyName, nameAnnounced, nameTold>>
  BY DEF memberVars
<1>2. NameTypes'
  BY <1>1 DEF NameInv, NameTypes
<1>3. ToldLater'
  BY <1>1 DEF NameInv, ToldLater, NamePlaces
<1>4. NameOrderOK'
  <2>1. NoOverlap' => NoOverlap
    BY StillNoOverlap
  <2>2. QED
    BY <1>1, <2>1 DEF NameInv, NameOrderOK, Alone, TellingName, NamePlaces
<1>5. NameCleanOK'
  BY <1>1 DEF NameInv, NameCleanOK, Alone, NamePlaces
<1>6. QED
  BY <1>2, <1>3, <1>4, <1>5 DEF NameInv

LEMMA NameMoves ==
  ASSUME CallsOK, NEW w \in Workers, pc[w] \in NamePlaces \union {"idle"}, SpoilsOnly("name"),
         NEW to \in NamePlaces \union {"idle"}, NEW values \in NameCalls \union {NoCall},
         to \in NamePlaces => values \in NameCalls,
         MovesTo(w, to, values)
  PROVE  /\ CallsOK' /\ Within(NamePlaces, "name")
         /\ pc'[w] = to /\ local'[w] = values
         /\ \A v \in Workers \ {w} : pc'[v] = pc[v] /\ local'[v] = local[v]
<1>1. to \in Places /\ values \in Calls
  BY DEF Places, Calls
<1>2. to \notin TerritoryPlaces /\ to \notin ZonePlaces \union FlagPlaces
  BY PlacesApart DEF ZonePlaces, FlagPlaces
<1>3. /\ to \in TerritoryPlaces => values \in TerritoryCalls
      /\ to \in ZonePlaces => values \in ZoneCalls
      /\ to \in FlagPlaces => values \in FlagCalls
  BY <1>2
<1>4. /\ CallsOK' /\ pc'[w] = to /\ local'[w] = values
      /\ \A v \in Workers \ {w} : pc'[v] = pc[v] /\ local'[v] = local[v]
  BY <1>1, <1>3, CallsMove
<1>5. QED
  BY <1>4 DEF Within

\* One call at most is in these places, if it was so before and only one moves.
LEMMA StayAlone ==
  ASSUME Alone(NamePlaces), NEW w \in Workers, pc[w] \in NamePlaces,
         \A v \in Workers \ {w} : pc'[v] = pc[v]
  PROVE  Alone(NamePlaces)' /\ \A v \in Workers \ {w} : pc'[v] \notin NamePlaces
  BY DEF Alone

LEMMA SetFriendlyNameSafe ==
  ASSUME CallsOK, NameInv, NEW w \in Workers, NEW name \in Names, SetFriendlyName(w, name)
  PROVE  CallsOK' /\ NameInv' /\ Within(NamePlaces, "name") /\ UNCHANGED flagVars
<1> DEFINE values == [part |-> "name", name |-> name]
<1>1. /\ pc[w] = "idle" /\ pc' = [pc EXCEPT ![w] = "makeParams"]
      /\ local' = [local EXCEPT ![w] = values]
      /\ Overlaps("name") /\ m_friendlyName' = name /\ nameTold' = FALSE
      /\ UNCHANGED <<rfcFriendlyName, nameAnnounced, flagVars>>
  BY DEF SetFriendlyName, Start
<1>2. values \in NameCalls
  BY DEF NameCalls
<1> HIDE DEF values
<1>3. /\ SpoilsOnly("name")
      /\ Busy("name") => ~Clean("name")' /\ ~NoOverlap'
  <2>1. SpoilsOnly("name") /\ (Busy("name") => ~Clean("name")')
    BY <1>1, SpoilKinds
  <2>2. Busy("name") => ~NoOverlap'
    BY <1>1 DEF Overlaps, Spoil, NoOverlap, Met
  <2>3. QED
    BY <2>1, <2>2
<1>4. "makeParams" \in NamePlaces
  BY DEF NamePlaces
<1>5. /\ CallsOK' /\ Within(NamePlaces, "name") /\ pc'[w] = "makeParams"
      /\ \A v \in Workers \ {w} : pc'[v] = pc[v] /\ local'[v] = local[v]
  <2>1. MovesTo(w, "makeParams", values)
    BY <1>1 DEF MovesTo
  <2>2. QED
    BY <1>1, <1>2, <1>3, <1>4, <2>1, NameMoves
<1>6. NameTypes'
  BY <1>1 DEF NameInv, NameTypes
<1>7. ToldLater'
  BY <1>5 DEF ToldLater
<1>8. ~Busy("name") => \A v \in Workers \ {w} : pc'[v] \notin NamePlaces
  BY <1>5, WhoseCall DEF Busy
<1>9. NameOrderOK'
  <2> SUFFICES ASSUME NoOverlap'
               PROVE  /\ \A v \in Workers \ {w} : pc'[v] \notin NamePlaces
                      /\ pc'[w] = "makeParams"
    BY DEF NameOrderOK, Alone, TellingName, NamePlaces
  <2>1. QED
    BY <1>3, <1>5, <1>8
<1>10. NameCleanOK'
  <2> SUFFICES ASSUME Clean("name")'
               PROVE  /\ \A v \in Workers : pc'[v] \in NamePlaces => v = w
                      /\ pc'[w] \in NamePlaces /\ pc'[w] # "setRFCParameter"
    BY DEF NameCleanOK, Alone, NamePlaces
  <2>1. QED
    BY <1>3, <1>4, <1>5, <1>8
<1>11. QED
  BY <1>1, <1>5, <1>6, <1>7, <1>9, <1>10 DEF NameInv

\* A call past its store that leaves what is written down alone, and the copy in
\* the RFC parameter: while nothing is excused it is the only one.
LEMMA CleanAsBefore ==
  ASSUME NameInv, NEW w \in Workers, {pc[w], pc'[w]} \subseteq NamePlaces,
         UNCHANGED <<spoiled, m_friendlyName, rfcFriendlyName>>,
         \A v \in Workers \ {w} : pc'[v] = pc[v] /\ local'[v] = local[v],
         pc'[w] = "setRFCParameter" => local'[w].name = m_friendlyName
  PROVE  NameCleanOK'
<1> SUFFICES ASSUME Clean("name")'
             PROVE  /\ Alone(NamePlaces)' /\ pc'[w] \in NamePlaces
                    /\ \A v \in Workers : pc'[v] = "setRFCParameter" =>
                         local'[v].name = m_friendlyName'
  BY DEF NameCleanOK
<1>1. Clean("name") /\ NameCleanOK
  BY DEF Clean, NameInv
<1>2. Alone(NamePlaces)'
  BY <1>1, StayAlone DEF NameCleanOK
<1>3. QED
  BY <1>1, <1>2 DEF NameCleanOK

\* The member is read for the event.
LEMMA MakeParamsSafe ==
  ASSUME CallsOK, NameInv, NEW w \in Workers, MakeParams(w)
  PROVE  CallsOK' /\ NameInv' /\ Within(NamePlaces, "name") /\ UNCHANGED flagVars
<1> DEFINE values == [local[w] EXCEPT !.name = m_friendlyName]
<1>1. /\ pc[w] = "makeParams" /\ pc' = [pc EXCEPT ![w] = "tellName"]
      /\ local' = [local EXCEPT ![w] = values]
      /\ UNCHANGED <<spoiled, memberVars, flagVars>>
  BY DEF MakeParams, Step, nameVars, memberVars, flagVars
<1>2. {"makeParams", "tellName"} \subseteq NamePlaces
  BY DEF NamePlaces
<1>3. SpoilsOnly("name") /\ local[w] \in NameCalls
  BY <1>1, <1>2, SpoilKinds DEF CallsOK
<1>4. m_friendlyName \in Names
  BY DEF NameInv, NameTypes
<1>5. values \in NameCalls /\ values.name = m_friendlyName
  BY <1>3, <1>4 DEF NameCalls
<1> HIDE DEF values
<1>6. /\ CallsOK' /\ Within(NamePlaces, "name") /\ pc'[w] = "tellName"
      /\ local'[w] = values
      /\ \A v \in Workers \ {w} : pc'[v] = pc[v] /\ local'[v] = local[v]
  <2>1. MovesTo(w, "tellName", values)
    BY <1>1 DEF MovesTo
  <2>2. QED
    BY <1>1, <1>2, <1>3, <1>5, <2>1, NameMoves
<1>7. NameTypes'
  BY <1>1 DEF NameInv, NameTypes, memberVars
<1>8. ToldLater'
  BY <1>1, <1>5, <1>6 DEF ToldLater, memberVars
<1>9. NameOrderOK'
  <2> SUFFICES ASSUME NoOverlap'
               PROVE  /\ Alone(NamePlaces)' /\ pc'[w] = "tellName"
                      /\ \A v \in Workers : pc'[v] = "tellName" =>
                           local'[v].name = m_friendlyName'
    BY DEF NameOrderOK, TellingName
  <2>1. NoOverlap /\ NameOrderOK
    BY <1>1 DEF NoOverlap, Met, NameInv
  <2>2. Alone(NamePlaces)'
    BY <1>1, <1>2, <1>6, <2>1, StayAlone DEF NameOrderOK
  <2>3. QED
    BY <1>1, <1>5, <1>6, <2>1, <2>2 DEF NameOrderOK, memberVars
<1>10. NameCleanOK'
  BY <1>1, <1>2, <1>6, CleanAsBefore DEF memberVars
<1>11. QED
  BY <1>1, <1>6, <1>7, <1>8, <1>9, <1>10 DEF NameInv

LEMMA TellNameSafe ==
  ASSUME CallsOK, NameInv, NEW w \in Workers, TellName(w)
  PROVE  CallsOK' /\ NameInv' /\ Within(NamePlaces, "name") /\ UNCHANGED flagVars
<1>1. /\ pc[w] = "tellName" /\ pc' = [pc EXCEPT ![w] = "readName"]
      /\ local' = [local EXCEPT ![w] = local[w]]
      /\ nameAnnounced' = local[w].name
      /\ nameTold' = (nameTold \/ local[w].name = m_friendlyName)
      /\ UNCHANGED <<spoiled, m_friendlyName, rfcFriendlyName, flagVars>>
  BY DEF TellName, Step
<1>2. {"tellName", "readName"} \subseteq NamePlaces
  BY DEF NamePlaces
<1>3. SpoilsOnly("name") /\ local[w] \in NameCalls
  BY <1>1, <1>2, SpoilKinds DEF CallsOK
<1>4. /\ CallsOK' /\ Within(NamePlaces, "name") /\ pc'[w] = "readName"
      /\ \A v \in Workers \ {w} : pc'[v] = pc[v] /\ local'[v] = local[v]
  <2>1. MovesTo(w, "readName", local[w])
    BY <1>1 DEF MovesTo
  <2>2. QED
    BY <1>1, <1>2, <1>3, <2>1, NameMoves
<1>5. NameTypes'
  BY <1>1, <1>3 DEF NameInv, NameTypes, NameCalls
<1>6. ToldLater'
  <2>1. CASE nameTold \/ local[w].name = m_friendlyName
    BY <1>1, <2>1 DEF ToldLater
  <2>2. CASE ~nameTold /\ local[w].name # m_friendlyName
    <3>1. PICK v \in Workers :
            pc[v] = "makeParams" \/ (pc[v] = "tellName" /\ local[v].name = m_friendlyName)
      BY <2>2 DEF NameInv, ToldLater
    <3>2. v # w
      BY <1>1, <2>2, <3>1
    <3>3. QED
      BY <1>1, <1>4, <3>1, <3>2 DEF ToldLater
  <2>3. QED
    BY <2>1, <2>2
<1>7. NameOrderOK'
  <2> SUFFICES ASSUME NoOverlap'
               PROVE  /\ Alone(NamePlaces)' /\ nameAnnounced' = m_friendlyName'
                      /\ \A v \in Workers : pc'[v] # "tellName"
    BY DEF NameOrderOK
  <2>1. NoOverlap /\ NameOrderOK
    BY <1>1 DEF NoOverlap, Met, NameInv
  <2>2. Alone(NamePlaces)' /\ \A v \in Workers \ {w} : pc'[v] \notin NamePlaces
    BY <1>1, <1>2, <1>4, <2>1, StayAlone DEF NameOrderOK
  <2>3. QED
    BY <1>1, <1>2, <1>4, <2>1, <2>2 DEF NameOrderOK
<1>8. NameCleanOK'
  BY <1>1, <1>2, <1>4, CleanAsBefore
<1>9. QED
  BY <1>1, <1>4, <1>5, <1>6, <1>7, <1>8 DEF NameInv

\* A call that has told its name goes on.
LEMMA ToldAlready ==
  ASSUME NameInv, NEW w \in Workers, pc[w] \in NamePlaces \ {"makeParams", "tellName"},
         pc'[w] \notin {"makeParams", "tellName"},
         spoiled \subseteq spoiled', UNCHANGED <<m_friendlyName, toldVars>>,
         \A v \in Workers \ {w} : pc'[v] = pc[v] /\ local'[v] = local[v]
  PROVE  ToldLater' /\ NameOrderOK'
<1>1. ToldLater'
  BY DEF NameInv, ToldLater, toldVars
<1>2. NameOrderOK'
  <2> SUFFICES ASSUME NoOverlap' PROVE NameOrderOK'
    BY DEF NameOrderOK
  <2>1. NoOverlap /\ NameOrderOK
    BY StillNoOverlap DEF NameInv
  <2>2. Alone(NamePlaces)' /\ \A v \in Workers \ {w} : pc'[v] \notin NamePlaces
    BY <2>1, StayAlone DEF NameOrderOK
  <2>3. ~TellingName
    BY <2>1 DEF NameOrderOK, TellingName, Alone, NamePlaces
  <2>4. nameAnnounced' = m_friendlyName'
    BY <2>1, <2>3 DEF NameOrderOK, toldVars
  <2>5. \A v \in Workers : pc'[v] # "tellName"
    BY <2>2 DEF NamePlaces
  <2>6. QED
    BY <2>2, <2>4, <2>5 DEF NameOrderOK
<1>3. QED
  BY <1>1, <1>2

LEMMA ReadNameSafe ==
  ASSUME CallsOK, NameInv, NEW w \in Workers, ReadName(w)
  PROVE  CallsOK' /\ NameInv' /\ Within(NamePlaces, "name") /\ UNCHANGED flagVars
<1> DEFINE values == [local[w] EXCEPT !.name = m_friendlyName]
<1>1. /\ pc[w] = "readName" /\ pc' = [pc EXCEPT ![w] = "setRFCParameter"]
      /\ local' = [local EXCEPT ![w] = values]
      /\ UNCHANGED <<spoiled, m_friendlyName, rfcFriendlyName, toldVars, flagVars>>
  BY DEF ReadName, Step, nameVars, toldVars, flagVars
<1>2. {"readName", "setRFCParameter"} \subseteq NamePlaces
  BY DEF NamePlaces
<1>3. SpoilsOnly("name") /\ local[w] \in NameCalls
  BY <1>1, <1>2, SpoilKinds DEF CallsOK
<1>4. m_friendlyName \in Names
  BY DEF NameInv, NameTypes
<1>5. values \in NameCalls /\ values.name = m_friendlyName
  BY <1>3, <1>4 DEF NameCalls
<1> HIDE DEF values
<1>6. /\ CallsOK' /\ Within(NamePlaces, "name") /\ pc'[w] = "setRFCParameter"
      /\ local'[w] = values
      /\ \A v \in Workers \ {w} : pc'[v] = pc[v] /\ local'[v] = local[v]
  <2>1. MovesTo(w, "setRFCParameter", values)
    BY <1>1 DEF MovesTo
  <2>2. QED
    BY <1>1, <1>2, <1>3, <1>5, <2>1, NameMoves
<1>7. NameTypes'
  BY <1>1 DEF NameInv, NameTypes, toldVars
<1>8. ToldLater' /\ NameOrderOK'
  BY <1>1, <1>2, <1>6, ToldAlready
<1>9. NameCleanOK'
  BY <1>1, <1>2, <1>5, <1>6, CleanAsBefore
<1>10. QED
  BY <1>1, <1>6, <1>7, <1>8, <1>9 DEF NameInv

\* The name is stored, or the failure is written down.
LEMMA SetRFCParameterSafe ==
  ASSUME CallsOK, NameInv, NEW w \in Workers, SetRFCParameter(w)
  PROVE  CallsOK' /\ NameInv' /\ Within(NamePlaces, "name") /\ UNCHANGED flagVars
<1>1. /\ pc[w] = "setRFCParameter" /\ pc' = [pc EXCEPT ![w] = "idle"]
      /\ local' = [local EXCEPT ![w] = NoCall]
      /\ UNCHANGED <<m_friendlyName, toldVars, flagVars>>
      /\ \/ rfcFriendlyName' = local[w].name /\ UNCHANGED spoiled
         \/ UNCHANGED rfcFriendlyName /\ Spoil("name", "failure")
  BY DEF SetRFCParameter, Finish, Step
<1>2. "setRFCParameter" \in NamePlaces /\ "idle" \notin NamePlaces
  BY DEF NamePlaces
<1>3. SpoilsOnly("name") /\ (UNCHANGED spoiled \/ ~Clean("name")')
  BY <1>1, SpoilKinds
<1>4. local[w] \in NameCalls /\ local[w].name \in Names /\ local[w].name # "unset"
  BY <1>1, <1>2, NamesAssumption DEF CallsOK, NameCalls
<1>5. /\ CallsOK' /\ Within(NamePlaces, "name") /\ pc'[w] = "idle"
      /\ \A v \in Workers \ {w} : pc'[v] = pc[v] /\ local'[v] = local[v]
  <2>1. MovesTo(w, "idle", NoCall)
    BY <1>1 DEF MovesTo
  <2>2. QED
    BY <1>1, <1>2, <1>3, <2>1, NameMoves
<1>6. NameTypes'
  BY <1>1, <1>4 DEF NameInv, NameTypes, toldVars
<1>7. ToldLater' /\ NameOrderOK'
  BY <1>1, <1>3, <1>5, ToldAlready DEF SpoilsOnly, NamePlaces
<1>8. NameCleanOK'
  <2> SUFFICES ASSUME Clean("name")'
               PROVE  /\ \A v \in Workers : pc'[v] \notin NamePlaces
                      /\ m_friendlyName' = ConfigureName(rfcFriendlyName')
    BY DEF NameCleanOK, Alone, NamePlaces
  <2>1. Clean("name") /\ NameCleanOK /\ UNCHANGED spoiled
    BY <1>3, CleanBefore DEF SpoilsOnly, NameInv
  <2>2. rfcFriendlyName' = m_friendlyName
    <3>1. ~Spoil("name", "failure")
      BY SpoilKinds
    <3>2. QED
      BY <1>1, <2>1, <3>1 DEF NameCleanOK
  <2>3. m_friendlyName' = ConfigureName(rfcFriendlyName')
    BY <1>1, <1>4, <2>1, <2>2 DEF ConfigureName, NameCleanOK
  <2>4. \A v \in Workers : pc'[v] \notin NamePlaces
    BY <1>1, <1>2, <1>5, <2>1 DEF NameCleanOK, Alone
  <2>5. QED
    BY <2>3, <2>4
<1>9. QED
  BY <1>1, <1>5, <1>6, <1>7, <1>8 DEF NameInv

LEMMA NameRestartSafe ==
  ASSUME NameInv, Abandon, NameRestarts
  PROVE  NameInv' /\ UNCHANGED flagVars
<1>1. /\ \A v \in Workers : pc'[v] = "idle"
      /\ m_friendlyName' = ConfigureName(rfcFriendlyName) /\ nameAnnounced' = m_friendlyName'
      /\ nameTold' = TRUE
      /\ UNCHANGED <<rfcFriendlyName, flagVars>>
  BY DEF Abandon, NameRestarts
<1>2. NameTypes'
  BY <1>1, NamesAssumption DEF NameInv, NameTypes, ConfigureName
<1>3. ToldLater' /\ NameOrderOK'
  BY <1>1 DEF ToldLater, NameOrderOK, Alone, NamePlaces
<1>4. NameCleanOK'
  BY <1>1 DEF NameCleanOK, Alone, NamePlaces
<1>5. QED
  BY <1>1, <1>2, <1>3, <1>4 DEF NameInv

-----------------------------------------------------------------------------
(* The flags of the manufacturer library.                                  *)

FlagTypes == blocklist \in BOOLEAN /\ fsrFlag \in BOOLEAN /\ blocklistAnnounced \in BOOLEAN

\* While calls meet nobody, the last event has the flag of before the call
\* under way, and the call knows it.
FlagCleanOK ==
  Clean("blocklist") =>
    /\ Alone(FlagPlaces)
    /\ \A w \in Workers :
         /\ pc[w] = "setBlocklist" => blocklistAnnounced = blocklist /\ local[w].old = blocklist
         /\ pc[w] = "tellBlocklist" =>
              blocklistAnnounced = local[w].old /\ local[w].flag = blocklist
    /\ (\A w \in Workers : pc[w] \notin FlagPlaces) => blocklistAnnounced = blocklist

FlagInv == FlagTypes /\ FlagCleanOK

LEMMA FlagInitSafe ==
  ASSUME RequestsInit, NameInit
  PROVE  FlagInv
<1>1. \A w \in Workers : pc[w] = "idle"
  BY DEF RequestsInit
<1>2. blocklist \in BOOLEAN /\ fsrFlag \in BOOLEAN /\ blocklistAnnounced = blocklist
  BY DEF NameInit
<1>3. FlagTypes
  BY <1>2 DEF FlagTypes
<1>4. FlagCleanOK
  BY <1>1, <1>2, PlacesApart DEF FlagCleanOK, Alone, FlagPlaces
<1>5. QED
  BY <1>3, <1>4 DEF FlagInv

\* Nothing happens to the flags.
LEMMA FlagStays ==
  ASSUME FlagInv, UNCHANGED flagVars, Apart(FlagPlaces, "blocklist")
  PROVE  FlagInv'
<1> USE DEF Apart
<1>1. UNCHANGED <<blocklist, fsrFlag, blocklistAnnounced>>
  BY DEF flagVars
<1>2. FlagTypes'
  BY <1>1 DEF FlagInv, FlagTypes
<1>3. FlagCleanOK'
  BY <1>1 DEF FlagInv, FlagCleanOK, Alone, FlagPlaces
<1>4. QED
  BY <1>2, <1>3 DEF FlagInv

LEMMA FlagMoves ==
  ASSUME CallsOK, NEW w \in Workers, pc[w] \in FlagPlaces \union {"idle"}, SpoilsOnly("blocklist"),
         NEW to \in FlagPlaces \union {"idle"}, NEW values \in FlagCalls \union {NoCall},
         to \in FlagPlaces => values \in FlagCalls,
         MovesTo(w, to, values)
  PROVE  /\ CallsOK' /\ Within(FlagPlaces, "blocklist")
         /\ pc'[w] = to /\ local'[w] = values
         /\ \A v \in Workers \ {w} : pc'[v] = pc[v] /\ local'[v] = local[v]
<1>1. to \in Places /\ values \in Calls
  BY DEF Places, Calls
<1>2. to \notin TerritoryPlaces /\ to \notin ZonePlaces \union NamePlaces
  BY PlacesApart DEF ZonePlaces, NamePlaces
<1>3. /\ to \in TerritoryPlaces => values \in TerritoryCalls
      /\ to \in ZonePlaces => values \in ZoneCalls
      /\ to \in NamePlaces => values \in NameCalls
  BY <1>2
<1>4. /\ CallsOK' /\ pc'[w] = to /\ local'[w] = values
      /\ \A v \in Workers \ {w} : pc'[v] = pc[v] /\ local'[v] = local[v]
  BY <1>1, <1>3, CallsMove
<1>5. QED
  BY <1>4 DEF Within

LEMMA SetBlocklistFlagSafe ==
  ASSUME CallsOK, FlagInv, NEW w \in Workers, NEW flag \in BOOLEAN, SetBlocklistFlag(w, flag)
  PROVE  CallsOK' /\ FlagInv' /\ Within(FlagPlaces, "blocklist") /\ UNCHANGED memberVars
<1>1. PICK old \in {blocklist, FALSE} :
        /\ Start(w, "setBlocklist", [part |-> "blocklist", flag |-> flag, old |-> old])
        /\ IF old # blocklist THEN Spoil("blocklist", "failure") ELSE Overlaps("blocklist")
        /\ UNCHANGED nameVars
  BY DEF SetBlocklistFlag
<1> DEFINE values == [part |-> "blocklist", flag |-> flag, old |-> old]
<1>2. /\ pc[w] = "idle" /\ pc' = [pc EXCEPT ![w] = "setBlocklist"]
      /\ local' = [local EXCEPT ![w] = values]
  BY <1>1 DEF Start
<1>3. UNCHANGED <<memberVars, blocklist, fsrFlag, blocklistAnnounced>>
  BY <1>1 DEF nameVars, memberVars
<1>4. old \in BOOLEAN
  BY <1>1 DEF FlagInv, FlagTypes
<1>5. values \in FlagCalls /\ values.old = old
  BY <1>4 DEF FlagCalls
<1> HIDE DEF values
<1>6. /\ SpoilsOnly("blocklist")
      /\ Clean("blocklist")' => old = blocklist /\ ~Busy("blocklist")
  BY <1>1, SpoilKinds
<1>7. "setBlocklist" \in FlagPlaces
  BY DEF FlagPlaces
<1>8. /\ CallsOK' /\ Within(FlagPlaces, "blocklist") /\ pc'[w] = "setBlocklist"
      /\ local'[w] = values
      /\ \A v \in Workers \ {w} : pc'[v] = pc[v] /\ local'[v] = local[v]
  <2>1. MovesTo(w, "setBlocklist", values)
    BY <1>2 DEF MovesTo
  <2>2. QED
    BY <1>2, <1>5, <1>6, <1>7, <2>1, FlagMoves
<1>9. FlagTypes'
  BY <1>3 DEF FlagInv, FlagTypes
<1>10. FlagCleanOK'
  <2> SUFFICES ASSUME Clean("blocklist")'
               PROVE  /\ \A v \in Workers : pc'[v] \in FlagPlaces => v = w
                      /\ pc'[w] = "setBlocklist"
                      /\ blocklistAnnounced' = blocklist' /\ local'[w].old = blocklist'
    BY DEF FlagCleanOK, Alone, FlagPlaces
  <2>1. \A v \in Workers : pc[v] \notin FlagPlaces
    BY <1>6, WhoseCall DEF Busy
  <2>2. Clean("blocklist")
    BY <1>6, CleanBefore DEF SpoilsOnly
  <2>3. blocklistAnnounced = blocklist
    BY <2>1, <2>2 DEF FlagInv, FlagCleanOK
  <2>4. blocklistAnnounced' = blocklist' /\ local'[w].old = blocklist'
    BY <1>3, <1>5, <1>6, <1>8, <2>3
  <2>5. QED
    BY <1>8, <2>1, <2>4
<1>11. QED
  BY <1>3, <1>8, <1>9, <1>10 DEF FlagInv

LEMMA SetBlocklistSafe ==
  ASSUME CallsOK, FlagInv, NEW w \in Workers, SetBlocklist(w)
  PROVE  CallsOK' /\ FlagInv' /\ Within(FlagPlaces, "blocklist") /\ UNCHANGED memberVars
<1>1. /\ pc[w] = "setBlocklist" /\ SpoilsOnly("blocklist")
      /\ UNCHANGED <<spoiled, memberVars, fsrFlag, blocklistAnnounced>>
  BY SpoilKinds DEF SetBlocklist, memberVars, toldVars
<1>2. {"setBlocklist", "tellBlocklist"} \subseteq FlagPlaces /\ "idle" \notin FlagPlaces
  BY DEF FlagPlaces
<1>3. local[w] \in FlagCalls /\ local[w].flag \in BOOLEAN
  BY <1>1, <1>2 DEF CallsOK, FlagCalls
<1>4. Clean("blocklist")' =>
        /\ \A v \in Workers : pc[v] \in FlagPlaces => v = w
        /\ blocklistAnnounced = blocklist /\ local[w].old = blocklist
  BY <1>1, <1>2 DEF FlagInv, FlagCleanOK, Alone, Clean
<1>5. CASE blocklist' = local[w].flag /\ Step(w, "tellBlocklist", local[w])
  <2>1. pc' = [pc EXCEPT ![w] = "tellBlocklist"] /\ local' = [local EXCEPT ![w] = local[w]]
    BY <1>5 DEF Step
  <2>2. /\ CallsOK' /\ Within(FlagPlaces, "blocklist") /\ pc'[w] = "tellBlocklist"
        /\ local'[w] = local[w]
        /\ \A v \in Workers \ {w} : pc'[v] = pc[v] /\ local'[v] = local[v]
    <3>1. MovesTo(w, "tellBlocklist", local[w])
      BY <2>1 DEF MovesTo
    <3>2. QED
      BY <1>1, <1>2, <1>3, <2>1, <3>1, FlagMoves
  <2>3. FlagTypes'
    BY <1>1, <1>3, <1>5 DEF FlagInv, FlagTypes
  <2>4. FlagCleanOK'
    <3> SUFFICES ASSUME Clean("blocklist")'
                 PROVE  /\ \A v \in Workers : pc'[v] \in FlagPlaces => v = w
                        /\ pc'[w] = "tellBlocklist"
                        /\ blocklistAnnounced' = local'[w].old /\ local'[w].flag = blocklist'
      BY DEF FlagCleanOK, Alone, FlagPlaces
    <3>1. blocklistAnnounced' = local'[w].old /\ local'[w].flag = blocklist'
      BY <1>1, <1>4, <1>5, <2>2
    <3>2. QED
      BY <1>4, <2>2, <3>1
  <2>5. QED
    BY <1>1, <2>2, <2>3, <2>4 DEF FlagInv
<1>6. CASE UNCHANGED blocklist /\ Finish(w)
  <2>1. pc' = [pc EXCEPT ![w] = "idle"] /\ local' = [local EXCEPT ![w] = NoCall]
    BY <1>6 DEF Finish, Step
  <2>2. /\ CallsOK' /\ Within(FlagPlaces, "blocklist") /\ pc'[w] = "idle"
        /\ \A v \in Workers \ {w} : pc'[v] = pc[v] /\ local'[v] = local[v]
    <3>1. MovesTo(w, "idle", NoCall)
      BY <2>1 DEF MovesTo
    <3>2. QED
      BY <1>1, <1>2, <2>1, <3>1, FlagMoves
  <2>3. FlagTypes'
    BY <1>1, <1>6 DEF FlagInv, FlagTypes
  <2>4. FlagCleanOK'
    <3> SUFFICES ASSUME Clean("blocklist")'
                 PROVE  /\ \A v \in Workers : pc'[v] \notin FlagPlaces
                        /\ blocklistAnnounced' = blocklist'
      BY DEF FlagCleanOK, Alone, FlagPlaces
    <3>1. \A v \in Workers : pc'[v] \notin FlagPlaces
      BY <1>2, <1>4, <2>2
    <3>2. blocklistAnnounced' = blocklist'
      BY <1>1, <1>4, <1>6
    <3>3. QED
      BY <3>1, <3>2
  <2>5. QED
    BY <1>1, <2>2, <2>3, <2>4 DEF FlagInv
<1>7. QED
  BY <1>5, <1>6 DEF SetBlocklist

LEMMA TellBlocklistSafe ==
  ASSUME CallsOK, FlagInv, NEW w \in Workers, TellBlocklist(w)
  PROVE  CallsOK' /\ FlagInv' /\ Within(FlagPlaces, "blocklist") /\ UNCHANGED memberVars
<1>1. /\ pc[w] = "tellBlocklist" /\ SpoilsOnly("blocklist")
      /\ UNCHANGED <<spoiled, memberVars, blocklist, fsrFlag>>
      /\ pc' = [pc EXCEPT ![w] = "idle"] /\ local' = [local EXCEPT ![w] = NoCall]
  BY SpoilKinds DEF TellBlocklist, memberVars, toldVars, Finish, Step
<1>2. blocklistAnnounced' =
        IF local[w].old # local[w].flag THEN local[w].flag ELSE blocklistAnnounced
  BY DEF TellBlocklist
<1>3. "tellBlocklist" \in FlagPlaces /\ "idle" \notin FlagPlaces
  BY DEF FlagPlaces
<1>4. local[w].flag \in BOOLEAN
  BY <1>1, <1>3 DEF CallsOK, FlagCalls
<1>5. Clean("blocklist")' =>
        /\ \A v \in Workers : pc[v] \in FlagPlaces => v = w
        /\ blocklistAnnounced = local[w].old /\ local[w].flag = blocklist
  BY <1>1, <1>3 DEF FlagInv, FlagCleanOK, Alone, Clean
<1>6. /\ CallsOK' /\ Within(FlagPlaces, "blocklist") /\ pc'[w] = "idle"
      /\ \A v \in Workers \ {w} : pc'[v] = pc[v] /\ local'[v] = local[v]
  <2>1. MovesTo(w, "idle", NoCall)
    BY <1>1 DEF MovesTo
  <2>2. QED
    BY <1>1, <1>3, <2>1, FlagMoves
<1>7. FlagTypes'
  <2>1. blocklistAnnounced' \in BOOLEAN
    BY <1>2, <1>4 DEF FlagInv, FlagTypes
  <2>2. QED
    BY <1>1, <2>1 DEF FlagInv, FlagTypes
<1>8. FlagCleanOK'
  <2> SUFFICES ASSUME Clean("blocklist")'
               PROVE  /\ \A v \in Workers : pc'[v] \notin FlagPlaces
                      /\ blocklistAnnounced' = blocklist'
    BY DEF FlagCleanOK, Alone, FlagPlaces
  <2>1. \A v \in Workers : pc'[v] \notin FlagPlaces
    BY <1>3, <1>5, <1>6
  <2>2. blocklistAnnounced' = blocklist'
    BY <1>1, <1>2, <1>5
  <2>3. QED
    BY <2>1, <2>2
<1>9. QED
  BY <1>1, <1>6, <1>7, <1>8 DEF FlagInv

LEMMA SetFSRFlagSafe ==
  ASSUME CallsOK, FlagInv, NEW w \in Workers, NEW flag \in BOOLEAN, SetFSRFlag(w, flag)
  PROVE  CallsOK' /\ FlagInv' /\ Within(FlagPlaces, "blocklist") /\ UNCHANGED memberVars
<1>1. UNCHANGED <<pc, local, spoiled, memberVars, blocklist, blocklistAnnounced>>
  BY DEF SetFSRFlag, Instant, memberVars, toldVars
<1>2. fsrFlag' \in BOOLEAN
  BY DEF SetFSRFlag, FlagInv, FlagTypes
<1>3. CallsOK' /\ Within(FlagPlaces, "blocklist")
  BY <1>1, CallsStay DEF Within, SpoilsOnly
<1>4. FlagTypes'
  BY <1>1, <1>2 DEF FlagInv, FlagTypes
<1>5. FlagCleanOK'
  BY <1>1 DEF FlagInv, FlagCleanOK, Alone, Clean
<1>6. QED
  BY <1>1, <1>3, <1>4, <1>5 DEF FlagInv

\* The library keeps the flags; a call that the end of the process cuts off is
\* written down.
LEMMA FlagRestartSafe ==
  ASSUME CallsOK, FlagInv, Abandon, UNCHANGED flagVars
  PROVE  FlagInv'
<1>1. \A v \in Workers : pc'[v] = "idle" /\ pc'[v] \notin FlagPlaces
  BY PlacesApart DEF Abandon
<1>2. UNCHANGED <<blocklist, fsrFlag, blocklistAnnounced>>
  BY DEF flagVars
<1>3. FlagTypes'
  BY <1>2 DEF FlagInv, FlagTypes
<1>4. spoiled \subseteq spoiled' /\ (Busy("blocklist") => ~Clean("blocklist")')
  BY AbandonSpoils
<1>5. FlagCleanOK'
  <2> SUFFICES ASSUME Clean("blocklist")' PROVE blocklistAnnounced' = blocklist'
    BY <1>1 DEF FlagCleanOK, Alone, FlagPlaces
  <2>1. Clean("blocklist") /\ \A v \in Workers : pc[v] \notin FlagPlaces
    BY <1>4, CleanBefore, WhoseCall DEF Busy
  <2>2. blocklistAnnounced = blocklist
    BY <2>1 DEF FlagInv, FlagCleanOK
  <2>3. QED
    BY <1>2, <2>2
<1>6. QED
  BY <1>3, <1>5 DEF FlagInv

-----------------------------------------------------------------------------
(* All of them together.                                                   *)

SettingsInv == CallsOK /\ TerritoryInv /\ ZoneInv /\ NameInv /\ FlagInv

LEMMA SettingsInvInit ==
  ASSUME SettingsInit
  PROVE  SettingsInv
<1>1. RequestsInit /\ TerritoryInit /\ TimeZoneInit /\ NameInit
  BY DEF SettingsInit
<1>2. IInv
  BY <1>1, InitIInv
<1>3. QED
  BY <1>1, <1>2, ZoneInit, NameInitSafe, FlagInitSafe DEF SettingsInv, IInv

\* A step of one part leaves what the others rely on.
LEMMA ApartFromOthers ==
  /\ Within(TerritoryPlaces, "territory") =>
       /\ Apart(ZonePlaces, "timezone") /\ Apart(NamePlaces, "name")
       /\ Apart(FlagPlaces, "blocklist")
  /\ Within(ZonePlaces, "timezone") =>
       /\ Apart(TerritoryPlaces, "territory") /\ Apart(NamePlaces, "name")
       /\ Apart(FlagPlaces, "blocklist")
  /\ Within(NamePlaces, "name") =>
       /\ Apart(TerritoryPlaces, "territory") /\ Apart(ZonePlaces, "timezone")
       /\ Apart(FlagPlaces, "blocklist")
  /\ Within(FlagPlaces, "blocklist") =>
       /\ Apart(TerritoryPlaces, "territory") /\ Apart(ZonePlaces, "timezone")
       /\ Apart(NamePlaces, "name")
<1>1. /\ ZonePlaces \intersect (TerritoryPlaces \union {"idle"}) = {}
      /\ NamePlaces \intersect (TerritoryPlaces \union {"idle"}) = {}
      /\ FlagPlaces \intersect (TerritoryPlaces \union {"idle"}) = {}
      /\ ZonePlaces \intersect NamePlaces = {} /\ ZonePlaces \intersect FlagPlaces = {}
      /\ NamePlaces \intersect FlagPlaces = {}
      /\ TerritoryPlaces \intersect (ZonePlaces \union {"idle"}) = {}
      /\ TerritoryPlaces \intersect (NamePlaces \union {"idle"}) = {}
      /\ TerritoryPlaces \intersect (FlagPlaces \union {"idle"}) = {}
  BY PlacesApart
<1>2. ASSUME Within(TerritoryPlaces, "territory")
      PROVE  /\ Apart(ZonePlaces, "timezone") /\ Apart(NamePlaces, "name")
             /\ Apart(FlagPlaces, "blocklist")
  BY <1>1, <1>2, OthersApart
<1>3. ASSUME Within(ZonePlaces, "timezone")
      PROVE  /\ Apart(TerritoryPlaces, "territory") /\ Apart(NamePlaces, "name")
             /\ Apart(FlagPlaces, "blocklist")
  BY <1>1, <1>3, OthersApart
<1>4. ASSUME Within(NamePlaces, "name")
      PROVE  /\ Apart(TerritoryPlaces, "territory") /\ Apart(ZonePlaces, "timezone")
             /\ Apart(FlagPlaces, "blocklist")
  BY <1>1, <1>4, OthersApart
<1>5. ASSUME Within(FlagPlaces, "blocklist")
      PROVE  /\ Apart(TerritoryPlaces, "territory") /\ Apart(ZonePlaces, "timezone")
             /\ Apart(NamePlaces, "name")
  BY <1>1, <1>5, OthersApart
<1>6. QED
  BY <1>2, <1>3, <1>4, <1>5

LEMMA TerritoryWithin ==
  ASSUME IInv, NEW w \in Workers, TerritoryStep(w)
  PROVE  Within(TerritoryPlaces, "territory")
<1>1. CallsOK /\ pc \in [Workers -> Places] /\ local \in [Workers -> Calls]
  BY DEF IInv, CallsOK
<1>2. ASSUME UNCHANGED <<pc, local, spoiled>> PROVE Within(TerritoryPlaces, "territory")
  BY <1>2 DEF Within, SpoilsOnly
<1>3. ASSUME {pc[w], pc'[w]} \subseteq TerritoryPlaces \union {"idle"}, UNCHANGED spoiled,
             \A v \in Workers \ {w} : pc'[v] = pc[v] /\ local'[v] = local[v]
      PROVE  Within(TerritoryPlaces, "territory")
  BY <1>3 DEF Within, SpoilsOnly
<1>4. CASE GetTerritory(w)
  BY <1>2, <1>4 DEF GetTerritory, Instant
<1>5. CASE SetTerritoryFails(w)
  BY <1>2, <1>5 DEF SetTerritoryFails, Instant
<1>6. ASSUME NEW to \in TerritoryPlaces \union {"idle"}, NEW values,
             pc[w] \in TerritoryPlaces \union {"idle"}, UNCHANGED spoiled,
             pc' = [pc EXCEPT ![w] = to], local' = [local EXCEPT ![w] = values]
      PROVE  Within(TerritoryPlaces, "territory")
  <2>1. pc'[w] = to /\ \A v \in Workers \ {w} : pc'[v] = pc[v] /\ local'[v] = local[v]
    BY <1>1, <1>6
  <2>2. QED
    BY <1>3, <1>6, <2>1
<1>7. CASE writeTerritory(w)
  BY <1>6, <1>7 DEF writeTerritory, Step, TerritoryPlaces
<1>8. CASE OnTerritoryChanged(w)
  BY <1>6, <1>8 DEF OnTerritoryChanged, Finish, Step, TerritoryPlaces
<1>9. ASSUME NEW territory \in TerritoryInputs, NEW region \in RegionInputs,
             SetTerritory(w, territory, region)
      PROVE  Within(TerritoryPlaces, "territory")
  BY <1>6, <1>9 DEF SetTerritory, Start, TerritoryPlaces
<1>10. QED
  BY <1>4, <1>5, <1>7, <1>8, <1>9 DEF TerritoryStep

LEMMA TerritoryAside ==
  ASSUME TerritoryInv, UNCHANGED territoryVars, Apart(TerritoryPlaces, "territory")
  PROVE  TerritoryInv'
  BY TerritoryStays DEF Apart

LEMMA NameOrFlagStep ==
  ASSUME CallsOK, NameInv, FlagInv, NEW w \in Workers, NameStep(w)
  PROVE  \/ CallsOK' /\ NameInv' /\ Within(NamePlaces, "name") /\ UNCHANGED flagVars
         \/ CallsOK' /\ FlagInv' /\ Within(FlagPlaces, "blocklist") /\ UNCHANGED memberVars
  BY MakeParamsSafe, TellNameSafe, ReadNameSafe, SetRFCParameterSafe, SetFriendlyNameSafe, SetBlocklistSafe,
     TellBlocklistSafe, SetBlocklistFlagSafe, SetFSRFlagSafe
  DEF NameStep

LEMMA SettingsInvNext == SettingsInv /\ [SettingsNext]_vars => SettingsInv'
<1> SUFFICES ASSUME SettingsInv, [SettingsNext]_vars PROVE SettingsInv'
  OBVIOUS
<1>1. CallsOK /\ TerritoryInv /\ ZoneInv /\ NameInv /\ FlagInv /\ IInv
  BY DEF SettingsInv, IInv
<1>2. CASE Restart
  <2>1. Abandon /\ TerritoryRestarts /\ TimeZoneRestarts /\ NameRestarts
    BY <1>2 DEF Restart
  <2>2. IInv'
    BY <1>1, <2>1, RestartIInv
  <2>3. ZoneInv'
    BY <1>1, <2>1, ZoneRestartSafe
  <2>4. NameInv' /\ UNCHANGED flagVars
    BY <1>1, <2>1, NameRestartSafe
  <2>5. FlagInv'
    BY <1>1, <2>1, <2>4, FlagRestartSafe
  <2>6. QED
    BY <2>2, <2>3, <2>4, <2>5 DEF SettingsInv, IInv
<1>3. ASSUME NEW w \in Workers, TerritoryStep(w), UNCHANGED <<timeZoneVars, nameVars>>
      PROVE  SettingsInv'
  <2>1. IInv' /\ Within(TerritoryPlaces, "territory")
    BY <1>1, <1>3, TerritoryStepIInv, TerritoryWithin
  <2>2. UNCHANGED timeZoneVars /\ UNCHANGED memberVars /\ UNCHANGED flagVars
    BY <1>3 DEF nameVars, memberVars, flagVars
  <2>3. ZoneInv' /\ NameInv' /\ FlagInv'
    BY <1>1, <2>1, <2>2, ApartFromOthers, ZoneStays, NameStays, FlagStays
  <2>4. QED
    BY <2>1, <2>3 DEF SettingsInv, IInv
<1>4. ASSUME NEW w \in Workers, TimeZoneStep(w), UNCHANGED <<territoryVars, nameVars>>
      PROVE  SettingsInv'
  <2>1. CallsOK' /\ ZoneInv' /\ Within(ZonePlaces, "timezone")
    BY <1>1, <1>4, TimeZoneStepSafe
  <2>2. UNCHANGED territoryVars /\ UNCHANGED memberVars /\ UNCHANGED flagVars
    BY <1>4 DEF nameVars, memberVars, flagVars
  <2>3. TerritoryInv' /\ NameInv' /\ FlagInv'
    BY <1>1, <2>1, <2>2, ApartFromOthers, TerritoryAside, NameStays, FlagStays
  <2>4. QED
    BY <2>1, <2>3 DEF SettingsInv
<1>5. ASSUME NEW w \in Workers, NameStep(w), UNCHANGED <<territoryVars, timeZoneVars>>
      PROVE  SettingsInv'
  <2>1. UNCHANGED territoryVars /\ UNCHANGED timeZoneVars
    BY <1>5
  <2>2. CASE CallsOK' /\ NameInv' /\ Within(NamePlaces, "name") /\ UNCHANGED flagVars
    <3>1. TerritoryInv' /\ ZoneInv' /\ FlagInv'
      BY <1>1, <2>1, <2>2, ApartFromOthers, TerritoryAside, ZoneStays, FlagStays
    <3>2. QED
      BY <2>2, <3>1 DEF SettingsInv
  <2>3. CASE CallsOK' /\ FlagInv' /\ Within(FlagPlaces, "blocklist") /\ UNCHANGED memberVars
    <3>1. TerritoryInv' /\ ZoneInv' /\ NameInv'
      BY <1>1, <2>1, <2>3, ApartFromOthers, TerritoryAside, ZoneStays, NameStays
    <3>2. QED
      BY <2>3, <3>1 DEF SettingsInv
  <2>4. QED
    BY <1>1, <1>5, <2>2, <2>3, NameOrFlagStep
<1>6. CASE UNCHANGED vars
  <2>1. /\ UNCHANGED <<pc, local, spoiled>> /\ UNCHANGED territoryVars
        /\ UNCHANGED timeZoneVars /\ UNCHANGED memberVars /\ UNCHANGED flagVars
    BY <1>6 DEF vars, requests, nameVars, memberVars, flagVars
  <2>2. CallsOK' /\ Within(TerritoryPlaces, "territory") /\ Within(ZonePlaces, "timezone")
    BY <1>1, <2>1, CallsStay DEF Within, SpoilsOnly
  <2>3. QED
    BY <1>1, <2>1, <2>2, ApartFromOthers, TerritoryAside, ZoneStays, NameStays, FlagStays
    DEF SettingsInv
<1>7. QED
  BY <1>2, <1>3, <1>4, <1>5, <1>6 DEF SettingsNext

\* Every reachable state has what the steps of the four parts rely on, however
\* their calls interleave and whenever the process ends (Configure, and the
\* setters and readers of the settings).
THEOREM SettingsInvariant == SettingsSpec => []SettingsInv
<1>1. SettingsInit => SettingsInv
  BY SettingsInvInit
<1>2. QED
  BY <1>1, SettingsInvNext, PTL DEF SettingsSpec

-----------------------------------------------------------------------------
(* What follows.                                                           *)

\* Whatever threads and requests there are, the members, the files and the last
\* events hold what the code can put there (SetTerritory, SetTimeZoneDST,
\* SetFriendlyName, SetBlocklistFlag and the readers of what they write).
THEOREM SettingsTypes == SettingsSpec => []SettingsTypeOK
<1>1. SettingsInv => SettingsTypeOK
  <2> SUFFICES ASSUME SettingsInv PROVE SettingsTypeOK
    OBVIOUS
  <2>1. TerritoryTypeOK /\ TimeZoneTypeOK
    BY DEF SettingsInv, TerritoryInv, ZoneInv
  <2>2. NameTypes /\ FlagTypes
    BY DEF SettingsInv, NameInv, FlagInv
  <2>3. NameTypeOK
    BY <2>2 DEF NameTypes, FlagTypes, NameTypeOK
  <2>4. QED
    BY <2>1, <2>3 DEF SettingsTypeOK
<1>2. QED
  BY <1>1, SettingsInvariant, PTL

\* No other part's step changes what the holder of the mutex is making.
LEMMA AskedStays ==
  ASSUME SettingsInv, UNCHANGED territoryVars,
         NEW w \in Workers, TimeZoneStep(w) \/ NameStep(w)
  PROVE  Asked' = Asked
<1>1. Within(ZonePlaces, "timezone") \/ Within(NamePlaces, "name")
        \/ Within(FlagPlaces, "blocklist")
  BY TimeZoneStepSafe, NameOrFlagStep DEF SettingsInv
<1>2. Apart(TerritoryPlaces, "territory")
  BY <1>1, ApartFromOthers
<1>3. CASE m_territoryMutex = {}
  BY <1>3 DEF territoryVars, Asked
<1>4. CASE m_territoryMutex # {}
  <2>1. PICK v \in Workers : m_territoryMutex = {v}
    BY <1>4 DEF SettingsInv, TerritoryInv, MutexOK, Mutexes
  <2>2. pc[v] \in TerritoryPlaces /\ m_territoryMutex' = {v}
    BY <2>1 DEF SettingsInv, TerritoryInv, MutexOK, territoryVars
  <2>3. local'[v] = local[v]
    BY <1>2, <2>2 DEF Apart
  <2>4. QED
    BY <2>1, <2>2, <2>3, AskedOf
<1>5. QED
  BY <1>3, <1>4

\* Next to the other settings, and through restarts that they all share, the
\* territory is the same register (GetTerritory, SetTerritory).
THEOREM SettingsImplementRegister == SettingsSpec => TerritoryIsRegister
<1>1. SettingsInit => Register!RegisterInit
  BY InitRegister DEF SettingsInit
<1>2. SettingsInv /\ [SettingsNext]_vars => [Register!RegisterNext]_registerVars
  <2> SUFFICES ASSUME SettingsInv, [SettingsNext]_vars
               PROVE  [Register!RegisterNext]_registerVars
    OBVIOUS
  <2>1. IInv
    BY DEF SettingsInv, IInv
  <2>2. CASE TerritoryNext
    BY <2>1, <2>2, NextRegister
  <2>3. CASE UNCHANGED territoryVars /\ (UNCHANGED requests \/
               \E v \in Workers : TimeZoneStep(v) \/ NameStep(v))
    <3>1. InForce' = InForce
      BY <2>3, ReadableStays DEF territoryVars, InForce
    <3>2. Asked' = Asked
      BY <2>3, AskedStays DEF territoryVars, requests, Asked
    <3>3. QED
      BY <2>3, <3>1, <3>2 DEF territoryVars, registerVars
  <2>4. QED
    BY <2>2, <2>3 DEF SettingsNext, Restart, TerritoryNext, vars
<1>3. QED
  BY <1>1, <1>2, SettingsInvariant, PTL
  DEF SettingsSpec, registerVars, TerritoryIsRegister, Register!RegisterSpec

\* A zone that clients can read was told by an event, or the call that wrote it
\* is still to tell it, unless a call was cut off: SetTimeZoneDST takes no lock,
\* and a write or the opening of a file can fail.
THEOREM ZonesAreTold == SettingsSpec => []ZoneAnnounced
<1>1. SettingsInv => ZoneAnnounced
  <2> SUFFICES ASSUME SettingsInv PROVE ZoneAnnounced
    OBVIOUS
  <2>1. CASE Met("timezone", "crash")
    BY <2>1 DEF ZoneAnnounced
  <2>2. CASE Told(tzFile)
    <3>1. CASE tzFile \in {"empty", "mixed"} \union zonesAnnounced
      BY <3>1 DEF ZoneAnnounced
    <3>2. ASSUME NEW w \in Workers, pc[w] \in ZonePlaces, local[w].zone = tzFile
          PROVE  ZoneAnnounced
      BY <3>2, WhoseCall DEF SettingsInv, ZoneAnnounced
    <3>3. QED
      BY <2>2, <3>1, <3>2 DEF Told
  <2>3. QED
    BY <2>1, <2>2 DEF SettingsInv, ZoneInv, ToldOK
<1>2. QED
  BY <1>1, SettingsInvariant, PTL

\* What holds of a part that no call disturbs, nor ever did.
LEMMA UndisturbedQuiet ==
  ASSUME SettingsInv
  PROVE  /\ Undisturbed("timezone") => ZoneQuiet
         /\ Undisturbed("name") => m_friendlyName = ConfigureName(rfcFriendlyName)
         /\ Undisturbed("blocklist") => blocklistAnnounced = blocklist
<1>1. CallsOK
  BY DEF SettingsInv
<1>2. Undisturbed("timezone") => ZoneQuiet
  <2>1. Undisturbed("timezone") =>
          Clean("timezone") /\ \A w \in Workers : pc[w] \notin ZonePlaces
    BY <1>1, WhoseCall DEF Undisturbed, Busy, Clean
  <2>2. QED
    BY <2>1 DEF SettingsInv, ZoneInv, ZoneCleanOK
<1>3. Undisturbed("name") => m_friendlyName = ConfigureName(rfcFriendlyName)
  <2>1. Undisturbed("name") => Clean("name") /\ \A w \in Workers : pc[w] \notin NamePlaces
    BY <1>1, WhoseCall DEF Undisturbed, Busy, Clean
  <2>2. QED
    BY <2>1 DEF SettingsInv, NameInv, NameCleanOK
<1>4. Undisturbed("blocklist") => blocklistAnnounced = blocklist
  <2>1. Undisturbed("blocklist") =>
          Clean("blocklist") /\ \A w \in Workers : pc[w] \notin FlagPlaces
    BY <1>1, WhoseCall DEF Undisturbed, Busy, Clean
  <2>2. QED
    BY <2>1 DEF SettingsInv, FlagInv, FlagCleanOK
<1>5. QED
  BY <1>2, <1>3, <1>4

\* What clients were last told is what they read: of the zone, its accuracy, the
\* blocklist and the friendly name after calls that met nobody, for the name also
\* if one failed or was cut off.  However calls overlap, the name that clients
\* read was told since it was stored, though perhaps not last
\* (OnTimeZoneDSTChanged, OnBlocklistChanged, SetFriendlyName).
THEOREM EventsAreTrue == SettingsSpec => []EventsTellSettings
<1>1. SettingsInv => EventsTellSettings
  <2> SUFFICES ASSUME SettingsInv PROVE EventsTellSettings
    OBVIOUS
  <2>1. LastEventIsZone
    BY UndisturbedQuiet DEF LastEventIsZone, GetTimeZoneDST, ZoneQuiet, AccuracyTold
  <2>2. BlocklistAnnounced
    BY UndisturbedQuiet DEF BlocklistAnnounced, GetBlocklistFlag
  <2>3. NameAnnounced /\ NameTold
    BY DEF SettingsInv, NameInv, NameAnnounced, NameTold, NameOrderOK, NoOverlap, ToldLater,
           TellingName, GetFriendlyName
  <2>4. QED
    BY <2>1, <2>2, <2>3 DEF EventsTellSettings
<1>2. QED
  BY <1>1, SettingsInvariant, PTL

\* After calls that met nobody and no failure, the link of the local time and the
\* environment of the process follow the zone file, and a restart would take the
\* friendly name that is in force.
THEOREM CopiesFollow == SettingsSpec => []CopiesFollowSettings
<1>1. SettingsInv => CopiesFollowSettings
  BY UndisturbedQuiet
  DEF CopiesFollowSettings, ClockFollowsZone, NamePersists, ZoneQuiet, LinkOf
<1>2. QED
  BY <1>1, SettingsInvariant, PTL
=============================================================================
