--------------------------- MODULE PluginQueriesMC ---------------------------
(* An instance of PluginQueries for TLC.                                   *)
EXTENDS PluginQueries, TLC

CONSTANTS w1, w2

TwoWorkers == {w1, w2}

WorkerSymmetry == Permutations(TwoWorkers)

QueryParts == {"forward", "device", "serial", "versions", "caps", "others"}

Budget(forward, device, serial, versions, caps, others) ==
  [forward |-> forward, device |-> device, serial |-> serial, versions |-> versions,
   caps |-> caps, others |-> others]

\* Calls of one kind next to each other, and of different kinds.
QueryBudgets ==
  {Budget(3, 0, 0, 0, 0, 1), Budget(0, 2, 0, 0, 0, 1), Budget(0, 1, 2, 0, 0, 0),
   Budget(0, 0, 0, 4, 0, 2), Budget(0, 0, 0, 0, 2, 1), Budget(1, 1, 0, 0, 0, 0),
   Budget(1, 0, 1, 0, 1, 0)}

OtherPluginSet ==
  {"Telemetry", "Migration", "DeviceInfo", "FirmwareUpdate", "AuthService",
   "DisplaySettings", "Network"}

\* One section of each kind, in the order of the code.
DeviceSections == <<"make", "build_type", "modelName", "bluetooth_mac", "estb_mac", "eth_mac">>

AccountInfoFields == <<"accountId">>

DeviceInfoFields == <<"mimeTypeExclusions", "features", "deviceType", "HdrCapability", "publicIP">>

\* Two known ones, the one that begins the table, and one that it does not have.
StatusArguments == {"NOT_STARTED", "STARTED", "MIGRATION_COMPLETED", "unknown"}
=============================================================================
