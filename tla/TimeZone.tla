------------------------------ MODULE TimeZone ------------------------------
(***************************************************************************)
(* The time zone and its accuracy: two files, the link of the local time   *)
(* and the TZ variable of the process, set by SetTimeZoneDST without a     *)
(* lock.  Each file is emptied by fopen and filled by fwrite.              *)
(***************************************************************************)
EXTENDS Requests

CONSTANTS
  Zones,        \* zones in the database
  OtherZones,   \* zones that are not
  Accuracies    \* accuracies that clients ask for

ASSUME TimeZoneAssumption == (Zones \cup OtherZones) \cap {"empty", "none", "mixed"} = {}

VARIABLES
  tzFile, tzAccuracyFile,   \* first lines of the two files, "empty" where there is none
  localtime,                \* where the link of the local time leads
  tzEnvironment,            \* TZ of the process
  tzAnnounced,              \* the last event
  zonesAnnounced            \* history: zones that some event told as new

timeZoneVars ==
  <<tzFile, tzAccuracyFile, localtime, tzEnvironment, tzAnnounced, zonesAnnounced>>

GoodAccuracy == {"INITIAL", "INTERIM", "FINAL"}

\* What getTimeZoneAccuracyDSTHelper makes of the first line.
accuracyOf(line) == IF line \in GoodAccuracy THEN line ELSE "INITIAL"

\* The default zone of a missing file is written "empty" here, like an empty one.
GetTimeZoneDST == [zone |-> tzFile, accuracy |-> accuracyOf(tzAccuracyFile)]

\* Clients start from the zone that is in force when the plugin comes up.
TimeZoneInit ==
  /\ tzFile \in Zones \cup {"empty"} /\ tzAccuracyFile \in {"empty", "INTERIM"}
  /\ localtime = IF tzFile = "empty" THEN "none" ELSE tzFile
  /\ tzEnvironment = tzFile
  /\ tzAnnounced = [oldZone |-> "empty", newZone |-> tzFile,
                    oldAccuracy |-> "empty", newAccuracy |-> tzAccuracyFile]
  /\ zonesAnnounced = {tzFile}

-----------------------------------------------------------------------------
(* SetTimeZoneDST.                                                         *)

\* A zone that is not in the database is refused, but TZ is set to it.
SetUnknownZone(w, zone) ==
  /\ zone \in OtherZones
  /\ Instant(w, "timezone")
  /\ tzEnvironment' = zone
  /\ Spoil("timezone", "refused")
  /\ UNCHANGED <<tzFile, tzAccuracyFile, localtime, tzAnnounced, zonesAnnounced>>

\* The old zone is read; the zone file is written only when it differs.
SetTimeZoneDST(w, zone, accuracy) ==
  /\ zone \in Zones
  /\ Start(w, IF tzFile # zone THEN "openZone" ELSE "readAccuracy",
       [part |-> "timezone", zone |-> zone, accuracy |-> accuracy,
        oldZone |-> tzFile, oldAccuracy |-> "empty"])
  /\ Overlaps("timezone")
  /\ UNCHANGED timeZoneVars

OpenZone(w) ==
  /\ pc[w] = "openZone"
  /\ \/ tzFile' = "empty" /\ Step(w, "writeZone", local[w]) /\ UNCHANGED spoiled
     \/ /\ Step(w, "readAccuracy", local[w])
        /\ Spoil("timezone", "failure") /\ UNCHANGED tzFile
  /\ UNCHANGED <<tzAccuracyFile, localtime, tzEnvironment, tzAnnounced, zonesAnnounced>>

\* Two writers that emptied the file both write from its start: the tail of
\* a longer name can stay.  A write can fail, which the answer tells.
WriteZone(w) ==
  /\ pc[w] = "writeZone"
  /\ Step(w, "removeLink", local[w])
  /\ \/ /\ tzFile' \in IF tzFile = "empty" THEN {local[w].zone} ELSE {local[w].zone, "mixed"}
        /\ UNCHANGED spoiled
     \/ UNCHANGED tzFile /\ Spoil("timezone", "failure")
  /\ UNCHANGED <<tzAccuracyFile, localtime, tzEnvironment, tzAnnounced, zonesAnnounced>>

\* Mutant: a link that exists is kept.
KeepLink(w) ==
  /\ pc[w] = "removeLink"
  /\ Step(w, IF localtime = "none" THEN "makeLink" ELSE "readAccuracy", local[w])
  /\ UNCHANGED <<spoiled, timeZoneVars>>

\* The old link goes, unless its removal fails.
RemoveLink(w) ==
  /\ pc[w] = "removeLink"
  /\ Step(w, "makeLink", local[w])
  /\ \/ localtime' = "none" /\ UNCHANGED spoiled
     \/ UNCHANGED localtime /\ Spoil("timezone", "failure")
  /\ UNCHANGED <<tzFile, tzAccuracyFile, tzEnvironment, tzAnnounced, zonesAnnounced>>

\* A link that exists is not replaced, and nobody looks.
MakeLink(w) ==
  /\ pc[w] = "makeLink"
  /\ Step(w, "readAccuracy", local[w])
  /\ localtime' = IF localtime = "none" THEN local[w].zone ELSE localtime
  /\ UNCHANGED <<spoiled, tzFile, tzAccuracyFile, tzEnvironment, tzAnnounced, zonesAnnounced>>

\* An accuracy that is not known is replaced by the old one; none is kept.
currentAccuracy(asked, old) == IF asked \in GoodAccuracy \cup {"empty"} THEN asked ELSE old

ReadAccuracy(w) ==
  /\ pc[w] = "readAccuracy"
  /\ LET old == accuracyOf(tzAccuracyFile)
         current == currentAccuracy(local[w].accuracy, old)
     IN Step(w, IF current # old THEN "openAccuracy" ELSE "announce",
             [local[w] EXCEPT !.accuracy = current, !.oldAccuracy = old])
  /\ UNCHANGED <<spoiled, timeZoneVars>>

\* An accuracy file that cannot be opened is passed over in silence.
OpenAccuracy(w) ==
  /\ pc[w] = "openAccuracy"
  /\ \/ tzAccuracyFile' = "empty" /\ Step(w, "writeAccuracy", local[w]) /\ UNCHANGED spoiled
     \/ /\ Step(w, "announce", local[w])
        /\ Spoil("timezone", "failure") /\ UNCHANGED tzAccuracyFile
  /\ UNCHANGED <<tzFile, localtime, tzEnvironment, tzAnnounced, zonesAnnounced>>

\* A mix of two accuracies reads as no accuracy.
WriteAccuracy(w) ==
  /\ pc[w] = "writeAccuracy"
  /\ Step(w, "announce", local[w])
  /\ \/ /\ tzAccuracyFile' \in
             IF tzAccuracyFile = "empty" THEN {local[w].accuracy} ELSE {local[w].accuracy, "mixed"}
        /\ UNCHANGED spoiled
     \/ UNCHANGED tzAccuracyFile /\ Spoil("timezone", "failure")
  /\ UNCHANGED <<tzFile, localtime, tzEnvironment, tzAnnounced, zonesAnnounced>>

OnTimeZoneDSTChanged(l) ==
  /\ tzAnnounced' = [oldZone |-> l.oldZone, newZone |-> l.zone,
                     oldAccuracy |-> l.oldAccuracy, newAccuracy |-> l.accuracy]
  /\ zonesAnnounced' = zonesAnnounced \cup {l.zone}

\* Mutant: only a change of the accuracy is told.
AnnounceAccuracy(w) ==
  /\ pc[w] = "announce"
  /\ IF local[w].oldAccuracy # local[w].accuracy
     THEN OnTimeZoneDSTChanged(local[w]) ELSE UNCHANGED <<tzAnnounced, zonesAnnounced>>
  /\ tzEnvironment' = local[w].zone
  /\ Finish(w)
  /\ UNCHANGED <<spoiled, tzFile, tzAccuracyFile, localtime>>

\* A change of either is told, with what was asked for and not what was
\* written; then TZ is set.
Announce(w) ==
  /\ pc[w] = "announce"
  /\ IF local[w].oldZone # local[w].zone \/ local[w].oldAccuracy # local[w].accuracy
     THEN OnTimeZoneDSTChanged(local[w]) ELSE UNCHANGED <<tzAnnounced, zonesAnnounced>>
  /\ tzEnvironment' = local[w].zone
  /\ Finish(w)
  /\ UNCHANGED <<spoiled, tzFile, tzAccuracyFile, localtime>>

-----------------------------------------------------------------------------
\* Configure sets TZ to the zone in the file, when there is one.
TimeZoneRestarts ==
  /\ tzEnvironment' = tzFile
  /\ UNCHANGED <<tzFile, tzAccuracyFile, localtime, tzAnnounced, zonesAnnounced>>

TimeZoneStep(w) ==
  \/ OpenZone(w) \/ WriteZone(w) \/ RemoveLink(w) \/ MakeLink(w)
  \/ ReadAccuracy(w) \/ OpenAccuracy(w) \/ WriteAccuracy(w) \/ Announce(w)
  \/ \E zone \in OtherZones : SetUnknownZone(w, zone)
  \/ \E zone \in Zones, accuracy \in Accuracies : SetTimeZoneDST(w, zone, accuracy)

-----------------------------------------------------------------------------
(* Properties.                                                             *)

TimeZoneTypeOK ==
  /\ tzFile \in Zones \cup {"empty", "mixed"}
  /\ tzAccuracyFile \in GoodAccuracy \cup {"empty", "mixed"}
  /\ localtime \in Zones \cup {"none"}
  /\ tzEnvironment \in Zones \cup OtherZones \cup {"empty", "mixed"}
  /\ zonesAnnounced \subseteq Zones \cup {"empty", "mixed"}

\* Whatever calls overlap and whatever writes fail, a zone that clients can
\* read was told by an event, or the call that wrote it is still to tell it.
ZoneAnnounced ==
  Met("timezone", "crash")
  \/ tzFile \in {"empty", "mixed"} \cup zonesAnnounced
  \/ \E w \in Workers : local[w].part = "timezone" /\ local[w].zone = tzFile

\* After calls that met nobody and no failure, the last event tells what the
\* two files say (SetTimeZoneDST, GetTimeZoneDST).
LastEventIsZone ==
  Undisturbed("timezone") =>
    GetTimeZoneDST = [zone |-> tzAnnounced.newZone,
                      accuracy |-> accuracyOf(tzAnnounced.newAccuracy)]

\* ... and the link and the process follow the file.
ClockFollowsZone ==
  Undisturbed("timezone") =>
    localtime = (IF tzFile = "empty" THEN "none" ELSE tzFile) /\ tzEnvironment = tzFile
=============================================================================
