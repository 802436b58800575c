---------------------------- MODULE PlatformCaps ----------------------------
(***************************************************************************)
(* GetPlatformConfiguration.  Each of its two objects, AccountInfo and     *)
(* DeviceInfo, is filled field by field through a PlatformCapsData that    *)
(* holds the shell, AuthService and the JSON-RPC links it made; making a   *)
(* link activates the plugin it leads to.                                  *)
(***************************************************************************)
EXTENDS OtherPlugins, Sequences

CONSTANTS
  AccountFields,   \* the fields of AccountInfo in an instance, in their order
  DeviceFields     \* the fields of DeviceInfo in an instance, in their order

\* Those that plugins answer are asked by these callsigns.
ASSUME PlatformCapsAssumption == {"AuthService", "DisplaySettings", "Network"} \subseteq Plugins

VARIABLES
  deviceDecodes,   \* UHD_4K_DECODE of the properties files
  propertiesGiven, \* getDeviceProperties: what asked, in order; call_once
  decodeTold,      \* the last uhd_4k_decode of features
  typeTold         \* the last deviceType

capsVars == <<deviceDecodes, propertiesGiven, decodeTold, typeTold>>

\* Bound: the property differs only in behaviours with a call that reads it.
CapsInit ==
  /\ deviceDecodes \in IF left["caps"] > 0 THEN BOOLEAN ELSE {FALSE}
  /\ propertiesGiven = <<>>
  /\ decodeTold = "none" /\ typeTold = "none"

\* The links of the fields that are asked for over JSON-RPC.
LinkOf == [HdrCapability |-> "DisplaySettings", publicIP |-> "Network"]

Fields(object) == IF object = "AccountInfo" THEN AccountFields ELSE DeviceFields

\* The object and the field of it that a query names; no name is "all" of them,
\* and a name that the object does not have fills nothing.
Queries ==
  [object : {"all", "AccountInfo"}, field : {"all"}]
    \cup [object : {"AccountInfo"}, field : {AccountFields[i] : i \in DOMAIN AccountFields}]
    \cup [object : {"DeviceInfo"}, field : {"all"} \cup {DeviceFields[i] : i \in DOMAIN DeviceFields}]
    \cup [object : {"AccountInfo", "DeviceInfo"}, field : {"unknown"}]

Named(object, field) ==
  CASE field = "all" -> Fields(object)
    [] field = "unknown" -> <<>>
    [] OTHER -> <<field>>

Objects(query) ==
  IF query.object = "all" THEN <<"AccountInfo", "DeviceInfo">> ELSE <<query.object>>

\* What a call has: the field it names, the fields and the objects that it still
\* has to fill, and what its PlatformCapsData holds.
Loading(field, todo, objects, holds) ==
  [part |-> "caps", field |-> field, todo |-> todo, objects |-> objects, holds |-> holds]

\* A bad query loads nothing.
GetPlatformConfiguration(w) ==
  /\ \/ \E query \in Queries :
          Start(w, "construct", Loading(query.field, <<>>, Objects(query), {}))
     \/ Instant(w, "caps")
  /\ UNCHANGED <<spoiled, otherVars, capsVars>>

\* PlatformCapsData: the shell, and AuthService if it is there.
Construct(w) ==
  /\ pc[w] = "construct"
  /\ LET call == local[w]
         holds == {Shell} \cup ({"AuthService"} \cap active)
     IN /\ Acquire(holds)
        /\ Step(w, "load", Loading(call.field, Named(Head(call.objects), call.field),
                                   call.objects, holds))
  /\ UNCHANGED <<spoiled, active, capsVars>>

\* ~PlatformCapsData, and ~JSONRPCDirectLink for each of its links.
Destruct(w) ==
  /\ pc[w] = "load" /\ local[w].todo = <<>>
  /\ LET rest == Tail(local[w].objects) IN
       /\ Release(local[w].holds)
       /\ IF rest = <<>> THEN Finish(w)
          ELSE Step(w, "construct", Loading(local[w].field, <<>>, rest, {}))
  /\ UNCHANGED <<spoiled, active, capsVars>>

-----------------------------------------------------------------------------
(* One field.                                                              *)

NextField(w, more) ==
  LET call == local[w] IN
    Step(w, "load", Loading(call.field, Tail(call.todo), call.objects, call.holds \cup more))

Loads(w, fields) ==
  pc[w] = "load" /\ local[w].todo # <<>> /\ Head(local[w].todo) \in fields

\* The first that asks in the process gets the properties, all others get none.
getDeviceProperties(asker) == propertiesGiven' = Append(propertiesGiven, asker)

\* Bound: a longer history would not tell anything apart.
Asks == 4

AddDashExclusionList(w) ==
  /\ Loads(w, {"mimeTypeExclusions"}) /\ Len(propertiesGiven) < Asks
  /\ getDeviceProperties("mimeTypeExclusions")
  /\ NextField(w, {})
  /\ UNCHANGED <<spoiled, otherVars, deviceDecodes, decodeTold, typeTold>>

\* Mutant: the properties are asked for once more to look up UHD_4K_DECODE.
DeviceCapsFeaturesTwice(w) ==
  /\ Loads(w, {"features"}) /\ Len(propertiesGiven) < Asks
  /\ getDeviceProperties("features")
  /\ decodeTold' = "no"
  /\ NextField(w, {})
  /\ UNCHANGED <<spoiled, otherVars, deviceDecodes, typeTold>>

\* Properties that are not there count as no 4K decoding.
DeviceCapsFeatures(w) ==
  /\ Loads(w, {"features"}) /\ Len(propertiesGiven) < Asks
  /\ getDeviceProperties("features")
  /\ decodeTold' = IF propertiesGiven = <<>> /\ deviceDecodes THEN "yes" ELSE "no"
  /\ NextField(w, {})
  /\ UNCHANGED <<spoiled, otherVars, deviceDecodes, typeTold>>

\* AuthService decides if it is there, even when it has no type; else DeviceInfo
\* is asked, and "TV" stands for everything that goes wrong with it.
GetDeviceType(w) ==
  /\ Loads(w, {"deviceType"})
  /\ \E type \in {"empty", "auth", "device"} :
       typeTold' = IF "AuthService" \in local[w].holds
                   THEN IF type = "device" THEN "empty" ELSE type
                   ELSE IF type = "device" /\ "DeviceInfo" \in active THEN type ELSE "TV"
  /\ NextField(w, {})
  /\ UNCHANGED <<spoiled, otherVars, deviceDecodes, propertiesGiven, decodeTold>>

\* Links are kept for the object; a new one activates the plugin through the
\* link to the controller, which may fail, and is made whatever comes of it.
GetOverLink(w) ==
  /\ Loads(w, DOMAIN LinkOf)
  /\ LET link == LinkOf[Head(local[w].todo)] IN
       \E now \in {active, active \cup {link}} :
         LET made == ({link} \cap now) \cup {Controller}
         IN /\ active' = now
            /\ Acquire(made \ local[w].holds)
            /\ NextField(w, made)
  /\ UNCHANGED <<spoiled, capsVars>>

\* The fields that change nothing: of AuthService, of DeviceInfo, of files and
\* of the build.
GetPlainField(w) ==
  /\ pc[w] = "load" /\ local[w].todo # <<>>
  /\ Head(local[w].todo) \notin
       DOMAIN LinkOf \cup {"mimeTypeExclusions", "features", "deviceType"}
  /\ NextField(w, {})
  /\ UNCHANGED <<spoiled, otherVars, capsVars>>

CapsNext ==
  \E w \in Workers :
    \/ GetPlatformConfiguration(w) \/ Construct(w) \/ Destruct(w)
    \/ AddDashExclusionList(w) \/ DeviceCapsFeatures(w) \/ GetDeviceType(w)
    \/ GetOverLink(w) \/ GetPlainField(w)

-----------------------------------------------------------------------------
(* Properties.                                                             *)

CapsTypeOK ==
  /\ decodeTold \in {"none", "yes", "no"}
  /\ typeTold \in {"none", "empty", "auth", "device", "TV"}
  /\ propertiesGiven \in Seq({"mimeTypeExclusions", "features"})

\* The first query of the process that asks for the properties is answered by
\* them when it is for the features.
FirstFeaturesTrue ==
  propertiesGiven = <<"features">> => (decodeTold = "yes" <=> deviceDecodes)

\* Only an AuthService that the object holds can leave the device type empty:
\* without it, whatever goes wrong, the answer is "TV".
EmptyTypeFromAuth ==
  [][typeTold' = "empty" /\ typeTold # "empty" =>
       \E w \in Workers : Loads(w, {"deviceType"}) /\ "AuthService" \in local[w].holds]_typeTold
=============================================================================
