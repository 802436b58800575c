------------------------------ MODULE Territory ------------------------------
(***************************************************************************)
(* The territory and region, kept in a file.  A call holds m_territoryMutex *)
(* from its first line to its last, so that the truncation of the file and *)
(* the write that follows are steps only for the end of the process, and so *)
(* are the write and the event.  The two members are what                  *)
(* readTerritoryFromFile left there the last time.                         *)
(***************************************************************************)
EXTENDS Requests

CONSTANTS
  TerritoryInputs, RegionInputs,      \* what clients ask for
  StandardTerritories, ValidRegions   \* what the plugin accepts

ASSUME TerritoryAssumption ==
  /\ StandardTerritories \subseteq TerritoryInputs \ {"empty", "torn"}
  /\ ValidRegions \subseteq RegionInputs \ {"empty", "torn"}
  /\ "torn" \notin TerritoryInputs \cup RegionInputs

VARIABLES
  territoryFile,                 \* its two values; "empty" for a line that is missing
  m_strTerritory, m_strRegion,
  m_territoryMutex,              \* {} or the worker that holds it
  answer, announced,             \* the last answer and the last event
  replaced,                      \* history: the setting a write replaces
  past                           \* history: those in force since the process started

territoryVars ==
  <<territoryFile, m_strTerritory, m_strRegion, m_territoryMutex, answer, announced,
    replaced, past>>

\* A line that a full disk cut short is "torn".
Contents == [territory : StandardTerritories \cup {"empty", "torn"},
             region    : ValidRegions \cup {"empty", "torn"}]

Empty == [territory |-> "empty", region |-> "empty"]

Members == [territory |-> m_strTerritory, region |-> m_strRegion]

\* Mutant: a file that is refused is not cleared from the members.
RememberRaw(setting) ==
  /\ m_strTerritory' = IF setting = Empty THEN territoryFile.territory ELSE setting.territory
  /\ m_strRegion' = setting.region

Remember(setting) ==
  /\ m_strTerritory' = setting.territory
  /\ m_strRegion' = setting.region

isRegionValid(region) == region \in ValidRegions

isTerritoryValid(territory) == territory \in StandardTerritories

Mutexes == {{}} \cup {{w} : w \in Workers}

\* What the members hold after a read: an empty file leaves them alone, a
\* missing region leaves the region alone, a value not valid clears both.
readTerritoryFromFile(members) ==
  CASE territoryFile.territory = "empty" -> members
    [] territoryFile.territory # "empty" /\ ~isTerritoryValid(territoryFile.territory) -> Empty
    [] isTerritoryValid(territoryFile.territory) /\ territoryFile.region = "empty" ->
         [members EXCEPT !.territory = territoryFile.territory]
    [] isTerritoryValid(territoryFile.territory) /\ isRegionValid(territoryFile.region) ->
         territoryFile
    [] OTHER -> Empty

Readable == readTerritoryFromFile(Empty)

TerritoryInit ==
  /\ territoryFile \in Contents
  /\ m_strTerritory = "empty" /\ m_strRegion = "empty"
  /\ m_territoryMutex = {}
  /\ answer = Empty /\ replaced = Empty /\ past = {Readable}
  /\ announced = [old |-> Empty, new |-> Empty]

\* Mutant: the reader does not take the mutex.
GetTerritoryUnlocked(w) ==
  /\ Instant(w, "territory")
  /\ Remember(Readable)
  /\ answer' = Readable
  /\ UNCHANGED <<spoiled, territoryFile, m_territoryMutex, announced, replaced, past>>

GetTerritory(w) ==
  /\ m_territoryMutex = {}
  /\ Instant(w, "territory")
  /\ Remember(Readable)
  /\ answer' = Readable
  /\ UNCHANGED <<spoiled, territoryFile, m_territoryMutex, announced, replaced, past>>

-----------------------------------------------------------------------------
(* SetTerritory.                                                           *)

\* A request that is refused, or whose file cannot be opened, has read it.
SetTerritoryFails(w) ==
  /\ m_territoryMutex = {}
  /\ Instant(w, "territory")
  /\ \/ "empty" \in TerritoryInputs /\ UNCHANGED <<m_strTerritory, m_strRegion>>
     \/ Remember(readTerritoryFromFile(Members))
  /\ UNCHANGED <<spoiled, territoryFile, m_territoryMutex, answer, announced, replaced,
                 past>>

\* A valid pair: the old one is read, and the file is opened, which empties it.
SetTerritory(w, territory, region) ==
  /\ m_territoryMutex = {}
  /\ isTerritoryValid(territory)
  /\ region = "empty" \/ isRegionValid(region)
  /\ Start(w, "writeTerritory",
       [part |-> "territory", new |-> [territory |-> territory, region |-> region]])
  /\ Remember(readTerritoryFromFile(Members))
  /\ territoryFile' = Empty
  /\ m_territoryMutex' = {w}
  /\ replaced' = Readable
  /\ UNCHANGED <<spoiled, answer, announced, past>>

\* What is in the file after close(): both lines, or as much as a full disk
\* takes.  A region that is cut can be another one that is valid.
Written(new) ==
  {new} \cup [territory : {"empty", "torn"}, region : {"empty"}]
        \cup [territory : {new.territory},
              region : IF new.region = "empty" THEN {"empty"}
                       ELSE {"empty", "torn"} \cup ValidRegions]

\* The failure of close() goes unnoticed.
writeTerritory(w) ==
  /\ pc[w] = "writeTerritory"
  /\ territoryFile' \in Written(local[w].new)
  /\ Step(w, "announceTerritory", local[w])
  /\ UNCHANGED <<spoiled, m_strTerritory, m_strRegion, m_territoryMutex, answer, announced,
                 replaced, past>>

\* The event has the members as the old values, and the regions only when one
\* was set.  The mutex is released.
OnTerritoryChanged(w) ==
  LET new == local[w].new IN
    /\ pc[w] = "announceTerritory"
    /\ announced' = [old |-> IF new.region = "empty" THEN [Members EXCEPT !.region = "empty"]
                             ELSE Members,
                     new |-> new]
    /\ m_territoryMutex' = {}
    /\ past' = past \cup {Readable}
    /\ Finish(w)
    /\ UNCHANGED <<spoiled, territoryFile, m_strTerritory, m_strRegion, answer, replaced>>

\* The process ends and another one starts: the file stays, as it is.
TerritoryRestarts ==
  /\ m_strTerritory' = "empty" /\ m_strRegion' = "empty"
  /\ m_territoryMutex' = {}
  /\ past' = {Readable}
  /\ UNCHANGED <<territoryFile, answer, announced, replaced>>

TerritoryStep(w) ==
  \/ GetTerritory(w) \/ SetTerritoryFails(w)
  \/ writeTerritory(w) \/ OnTerritoryChanged(w)
  \/ \E territory \in TerritoryInputs, region \in RegionInputs :
       SetTerritory(w, territory, region)

TerritoryNext ==
  \/ \E w \in Workers : TerritoryStep(w)
  \/ Abandon /\ TerritoryRestarts

TerritorySpec ==
  /\ RequestsInit /\ TerritoryInit
  /\ [][TerritoryNext]_<<requests, territoryVars>>

-----------------------------------------------------------------------------
(* Properties.                                                             *)

\* The setting in force: the file, or what it was before a write under way.
InForce == IF m_territoryMutex = {} THEN Readable ELSE replaced

\* The change that its holder of the mutex is making.
Asked ==
  IF m_territoryMutex = {} THEN Empty
  ELSE local[CHOOSE w \in Workers : m_territoryMutex = {w}].new

Register == INSTANCE TerritoryRegister WITH setting <- InForce, asked <- Asked

TerritoryTypeOK ==
  /\ territoryFile \in Contents
  /\ m_strTerritory \in StandardTerritories \cup {"empty"}
  /\ m_strRegion \in ValidRegions \cup {"empty"}
  /\ m_territoryMutex \in Mutexes
  /\ {answer, replaced} \cup past \subseteq Register!Settings

\* Clients see a register: an answer is what was last accepted, never a change
\* under way, and an event tells a change that was asked for and the setting it
\* replaces.  The old values of an event may be left over from earlier only where
\* there was none, and a change that the end of the process cuts short is told to
\* nobody, also when the file has it already (GetTerritory, SetTerritory).
TerritoryIsRegister == Register!RegisterSpec
=============================================================================
