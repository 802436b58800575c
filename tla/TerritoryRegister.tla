-------------------------- MODULE TerritoryRegister --------------------------
(***************************************************************************)
(* What the territory promises: a register that answers what was last      *)
(* accepted, whoever asks.  A change is asked for, and then accepted and   *)
(* told, or cut short by the end of the process: then nobody is told.  A   *)
(* full disk may keep less of a change than was asked for.                 *)
(***************************************************************************)
CONSTANTS StandardTerritories, ValidRegions

VARIABLES
  setting,     \* the territory and region in force
  asked,       \* the change under way, or Unset
  past,        \* the settings that were in force since the process started
  answer,      \* what GetTerritory answered last
  announced    \* the last event: the setting before and after

Unset == [territory |-> "empty", region |-> "empty"]

\* The pairs a client can be told: no territory, or one with or without region.
Settings ==
  {Unset} \cup [territory : StandardTerritories, region : ValidRegions \cup {"empty"}]

RegisterInit ==
  /\ setting \in Settings
  /\ asked = Unset
  /\ past = {setting}
  /\ answer = Unset
  /\ announced = [old |-> Unset, new |-> Unset]

\* What is in force after a change: the disk may keep the territory without its
\* region, with another one that a cut makes of it, or nothing.
Kept ==
  IF asked = Unset THEN {setting}
  ELSE {Unset} \cup [territory : {asked.territory},
                     region : IF asked.region = "empty" THEN {"empty"}
                              ELSE ValidRegions \cup {"empty"}]

\* What an event may call the old value: the one in force and, where there was
\* none, also one that was in force at some time in this process.
Former(field) ==
  IF setting[field] # "empty" THEN {setting[field]}
  ELSE {"empty"} \cup {s[field] : s \in past}

\* The region is in the event only when one is asked for.
Old == [territory : Former("territory"),
        region : IF asked.region = "empty" THEN {"empty"} ELSE Former("region")]

Ask(new) ==
  /\ asked = Unset
  /\ asked' = new
  /\ UNCHANGED <<setting, past, answer, announced>>

Accept ==
  /\ asked # Unset
  /\ setting' \in Kept
  /\ past' = past \cup {setting'}
  /\ asked' = Unset
  /\ announced' \in [old : Old, new : {asked}]
  /\ UNCHANGED answer

\* The process ends, and what is kept of a change under way is told to nobody.
End ==
  /\ setting' \in Kept
  /\ past' = {setting'}
  /\ asked' = Unset
  /\ UNCHANGED <<answer, announced>>

Get ==
  /\ asked = Unset
  /\ answer' = setting
  /\ UNCHANGED <<setting, asked, past, announced>>

RegisterNext ==
  \/ Accept \/ End \/ Get
  \/ \E new \in Settings \ {Unset} : Ask(new)

RegisterSpec ==
  RegisterInit /\ [][RegisterNext]_<<setting, asked, past, answer, announced>>
=============================================================================
