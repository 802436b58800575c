------------------------------ MODULE Settings ------------------------------
(***************************************************************************)
(* The settings the plugin persists, served by the same threads and lost   *)
(* or kept together when the process ends between two of their steps.      *)
(***************************************************************************)
EXTENDS Territory, TimeZone, NameAndFlags

vars == <<requests, territoryVars, timeZoneVars, nameVars>>

\* Parts that the behaviour leaves alone are as a new device has them.
SettingsInit ==
  /\ RequestsInit /\ TerritoryInit /\ TimeZoneInit /\ NameInit
  /\ left["territory"] = 0 => territoryFile = Empty
  /\ left["timezone"] = 0 => tzFile = "empty" /\ tzAccuracyFile = "empty"
  /\ left["name"] = 0 => rfcFriendlyName = "unset"
  /\ left["blocklist"] = 0 => ~blocklist /\ ~fsrFlag

\* The framework starts the process again, and Configure runs.
Restart == Abandon /\ TerritoryRestarts /\ TimeZoneRestarts /\ NameRestarts

SettingsNext ==
  \/ Restart
  \/ \E w \in Workers :
       \/ TerritoryStep(w) /\ UNCHANGED <<timeZoneVars, nameVars>>
       \/ TimeZoneStep(w) /\ UNCHANGED <<territoryVars, nameVars>>
       \/ NameStep(w) /\ UNCHANGED <<territoryVars, timeZoneVars>>

SettingsSpec == SettingsInit /\ [][SettingsNext]_vars

-----------------------------------------------------------------------------
(* Properties.                                                             *)

\* The members, files and last events of the three parts hold what the code
\* can put there: only whole territories, zones that exist, known accuracies.
SettingsTypeOK == TerritoryTypeOK /\ TimeZoneTypeOK /\ NameTypeOK

\* What clients were last told of a setting is what they read: after calls
\* that met nobody for the zone and the blocklist, and for the friendly name even
\* if one of them failed or was cut off; and however calls overlap, the name that
\* clients read is one they were told.
EventsTellSettings ==
  LastEventIsZone /\ BlocklistAnnounced /\ NameAnnounced /\ NameTold

\* What is kept of a setting in a second place follows it, after calls that met
\* nobody and no failure: the link of the time zone and the environment of the
\* process, and the RFC parameter that a restart takes the name from.
CopiesFollowSettings == ClockFollowsZone /\ NamePersists
=============================================================================
