----------------------------- MODULE Forwarding -----------------------------
(***************************************************************************)
(* The methods that only pass a request on: telemetry opt-out, migration   *)
(* status, boot type, serial number and automatic reboot.                  *)
(***************************************************************************)
EXTENDS OtherPlugins

CONSTANT Statuses   \* what a client gives SetMigrationStatus, known or not

VARIABLES
  migrationStatus,   \* the Migration plugin's own
  statusSet,         \* history: the argument of the last SetMigrationStatus done
  statusTold,        \* history: the last GetMigrationStatus since then
  result             \* errCode and success of the last request passed on

forwardVars == <<migrationStatus, statusSet, statusTold, result>>

Target ==
  [IsOptOutTelemetry |-> "Telemetry", SetOptOutTelemetry |-> "Telemetry",
   SetMigrationStatus |-> "Migration", GetMigrationStatus |-> "Migration",
   GetBootTypeInfo |-> "Migration", GetSerialNumber |-> "DeviceInfo",
   SetFirmwareAutoReboot |-> "FirmwareUpdate"]

stringToStatus ==
  [NOT_STARTED |-> 0, NOT_NEEDED |-> 1, STARTED |-> 2, PRIORITY_SETTINGS_MIGRATED |-> 3,
   DEVICE_SETTINGS_MIGRATED |-> 4, CLOUD_SETTINGS_MIGRATED |-> 5, APP_DATA_MIGRATED |-> 6,
   MIGRATION_COMPLETED |-> 7]

\* A status that the table does not have is passed on as NOT_STARTED.
StatusOf(status) == IF status \in DOMAIN stringToStatus THEN stringToStatus[status] ELSE 0

\* The table of GetMigrationStatus.
statusToString(n) == CHOOSE s \in DOMAIN stringToStatus : stringToStatus[s] = n

\* What a call that was served leaves in success: TRUE by itself, the word of
\* the plugin, or nothing where the answer is a status.
ServedSuccess(method) ==
  IF method = "GetSerialNumber" THEN {TRUE}
  ELSE IF method \in {"GetMigrationStatus", "GetBootTypeInfo"} THEN {FALSE} ELSE BOOLEAN

Error == [errCode |-> "ERROR_GENERAL", success |-> FALSE]

ForwardInit ==
  /\ migrationStatus = 0
  /\ statusSet = "none" /\ statusTold = "none" /\ result = Error

\* Without the plugin the answer is an error; with it, its reference is held.
Forward(w, method, argument) ==
  /\ IF Target[method] \in active
     THEN /\ Start(w, "forward", [part |-> "forward", method |-> method, argument |-> argument])
          /\ Acquire({Target[method]})
          /\ Overlaps("forward")
          /\ UNCHANGED <<active, forwardVars>>
     ELSE /\ Instant(w, "forward")
          /\ result' = Error
          /\ UNCHANGED <<spoiled, otherVars, migrationStatus, statusSet, statusTold>>

\* The plugin fails, or does what it is asked; its success counts only when its
\* code says that the call was served, except for the opt-out, whose answer the
\* plugin writes itself; the reference goes back either way.
Relay(w) ==
  /\ pc[w] = "forward"
  /\ LET call == local[w] IN
       /\ Release({Target[call.method]})
       /\ \/ /\ \E success \in IF call.method = "IsOptOutTelemetry" THEN BOOLEAN ELSE {FALSE} :
                  result' = [Error EXCEPT !.success = success]
             /\ UNCHANGED <<migrationStatus, statusSet, statusTold>>
          \/ /\ \E success \in ServedSuccess(call.method) :
                  result' = [errCode |-> "ERROR_NONE", success |-> success]
             /\ IF call.method = "SetMigrationStatus" /\ result'.success
                THEN /\ migrationStatus' = StatusOf(call.argument)
                     /\ statusSet' = call.argument /\ statusTold' = "none"
                ELSE UNCHANGED <<migrationStatus, statusSet>> /\
                     statusTold' = IF call.method = "GetMigrationStatus"
                                   THEN statusToString(migrationStatus) ELSE statusTold
  /\ Finish(w)
  /\ UNCHANGED <<spoiled, active>>

ForwardNext ==
  \E w \in Workers :
    \/ \E method \in DOMAIN Target :
         \E argument \in IF method = "SetMigrationStatus" THEN Statuses ELSE {"none"} :
           Forward(w, method, argument)
    \/ Relay(w)

-----------------------------------------------------------------------------
(* Properties.                                                             *)

ForwardTypeOK ==
  /\ migrationStatus \in 0 .. 7
  /\ statusTold \in DOMAIN stringToStatus \cup {"none"}

\* GetMigrationStatus gives back what SetMigrationStatus was last given, as
\* long as that was one of the eight statuses: the two tables are inverse.
StatusToldIsStatusSet ==
  statusTold # "none" /\ statusSet \in DOMAIN stringToStatus => statusTold = statusSet
=============================================================================
