------------------------------ MODULE Firmware ------------------------------
(***************************************************************************)
(* The queries that run scripts on threads of their own, for firmware      *)
(* update information and for MAC addresses; the firmware update state and *)
(* the progress of a download; and the end of the plugin's life, which     *)
(* joins the threads only after what they use is gone, and waits neither   *)
(* for a call nor for the bus.                                             *)
(***************************************************************************)
EXTENDS Requests

CONSTANTS
  Threads,       \* bound on the queries that a behaviour starts
  Replies,       \* what the xconf server may answer: [http, offered]
  States,        \* firmware update states that the bus may report
  Totals         \* sizes of an image, for the progress of its download

CriticalReboot == 8   \* IARM_BUS_SYSMGR_FIRMWARE_UPDATE_STATE_CRITICAL_REBOOT
Downloading == 2      \* FirmwareUpdateStateDownloading

ASSUME FirmwareAssumption == States \subseteq Nat /\ Totals \subseteq Nat \ {0}

VARIABLES
  life,                        \* how far the destructor has come
  handle,                      \* per kind of query: {} or the thread to join
  thread,                      \* what each thread is at, and its local variables
  fault,                       \* why the process died
  dyingJobs,                   \* an event was made for an object in destruction
  production, swupdateConf,    \* the kind of image, and /opt/swupdate.conf
  xconfFiles,                  \* the script's two result files
  updateTold,                  \* the last onFirmwareUpdateInfoReceived
  m_FwUpdateState_LatestEvent, \* GetFirmwareUpdateState answers it
  stateTold,                   \* the last onFirmwareUpdateStateChanged of this object
  notice,                      \* the state that the bus thread is at work on
  progress,                    \* downloaded and total size in the progress file
  percentAnswer,               \* the last answer of GetFirmwareDownloadPercent
  infoAnswer                   \* the last answer of GetDownloadedFirmwareInfo

lifeVars == <<life, dyingJobs>>
queryVars == <<handle, thread, xconfFiles, updateTold>>
deviceVars == <<production, swupdateConf>>
noticeVars == <<m_FwUpdateState_LatestEvent, stateTold, notice>>
stateVars == <<noticeVars, progress, percentAnswer, infoAnswer>>
vars == <<requests, lifeVars, queryVars, deviceVars, stateVars, fault>>

Kinds == {"firmware", "mac"}
NoReply == [http |-> 0, offered |-> "none"]
NoThread == [at |-> "none", version |-> "", result |-> NoReply, reply |-> NoReply]
NothingTold == [enum |-> "none", offered |-> "none"]
NoInfo == [downloaded |-> FALSE, deferred |-> FALSE]
NoProgress == [downloaded |-> 0, total |-> 0]
NoNotice == [at |-> "none", state |-> 0]

FirmwareInit ==
  /\ RequestsInit
  /\ life = "active" /\ dyingJobs = FALSE /\ fault = "none"
  /\ handle = [k \in Kinds |-> {}]
  /\ thread = [t \in Threads |-> NoThread]
  /\ production \in BOOLEAN /\ swupdateConf \in {"none", "empty", "url"}
  /\ xconfFiles = NoReply /\ updateTold = NothingTold
  /\ m_FwUpdateState_LatestEvent = 0 /\ stateTold = {} /\ notice = NoNotice
  /\ progress = NoProgress /\ percentAnswer = -1 /\ infoAnswer = NoInfo

-----------------------------------------------------------------------------
(* GetFirmwareUpdateInfo and GetMacAddresses.                              *)

\* A thread that can be joined is joined before its handle is used again.  The
\* plugin passes no more calls on when it lets go of the object.
Query(w, kind) ==
  /\ life = "active"
  /\ Start(w, IF handle[kind] = {} THEN "assign" ELSE "join", [part |-> kind])
  /\ Overlaps(kind)
  /\ UNCHANGED <<lifeVars, queryVars, deviceVars, stateVars, fault>>

\* Mutant: the thread is detached instead of waited for.
Detach(w) ==
  /\ pc[w] = "join"
  /\ Step(w, "assign", local[w])
  /\ UNCHANGED <<spoiled, lifeVars, queryVars, deviceVars, stateVars, fault>>

\* Another call that joined first leaves nothing to join: system_error.
Join(w) ==
  /\ pc[w] = "join"
  /\ LET kind == local[w].part IN
       \/ handle[kind] = {} /\ Finish(w) /\ UNCHANGED handle
       \/ /\ \E t \in handle[kind] : thread[t].at = "done"
          /\ handle' = [handle EXCEPT ![kind] = {}]
          /\ Step(w, "assign", local[w])
  /\ UNCHANGED <<spoiled, lifeVars, thread, xconfFiles, updateTold, deviceVars, stateVars, fault>>

FirstStep == [firmware |-> "checkVersion", mac |-> "fetch"]

\* The thread starts, and a handle that holds another one ends the process.
Assign(w) ==
  /\ pc[w] = "assign"
  /\ LET kind == local[w].part IN
       \E t \in Threads :
         /\ thread[t].at = "none"
         /\ thread' = [thread EXCEPT ![t].at = FirstStep[kind]]
         /\ handle' = [handle EXCEPT ![kind] = {t}]
         /\ fault' = IF handle[kind] = {} THEN fault ELSE "terminate"
  /\ Finish(w)
  /\ UNCHANGED <<spoiled, lifeVars, xconfFiles, updateTold, deviceVars, stateVars>>

-----------------------------------------------------------------------------
(* firmwareUpdateInfoReceived, on its thread.                              *)

At(t, label) == thread[t].at = label

Goto(t, label) == thread' = [thread EXCEPT ![t].at = label]

\* _instance is tested ...
CheckVersion(t) ==
  /\ At(t, "checkVersion")
  /\ Goto(t, IF life = "active" THEN "version" ELSE "override")
  /\ UNCHANGED <<requests, lifeVars, handle, xconfFiles, updateTold, deviceVars, stateVars, fault>>

\* ... and read once more for the call, when it may be null by now; so it is where
\* the result is told.
UseInstance(t) ==
  /\ At(t, "version") \/ At(t, "report")
  /\ IF life = "active"
     THEN Goto(t, IF At(t, "version") THEN "askVersion" ELSE "tell") /\ UNCHANGED fault
     ELSE fault' = "nullInstance" /\ UNCHANGED thread
  /\ UNCHANGED <<requests, lifeVars, handle, xconfFiles, updateTold, deviceVars, stateVars>>

\* DeviceInfo is asked through the shell, which may be null by now; "unknown"
\* is the version when DeviceInfo fails.
getStbVersionString(t) ==
  /\ At(t, "askVersion")
  /\ IF life \in {"active", "unregistered"}
     THEN /\ UNCHANGED fault
          /\ \/ thread' = [thread EXCEPT ![t].at = "override", ![t].version = "current"]
                /\ UNCHANGED spoiled
             \/ thread' = [thread EXCEPT ![t].at = "override", ![t].version = "unknown"]
                /\ Spoil("firmware", "failure")
     ELSE fault' = "nullShell" /\ UNCHANGED <<thread, spoiled>>
  /\ UNCHANGED <<pc, local, left, lifeVars, handle, xconfFiles, updateTold, deviceVars, stateVars>>

\* The name of a production image says so; an empty override ends the query.
getXconfOverrideUrl(t) ==
  /\ At(t, "override")
  /\ LET knownProduction == production /\ thread[t].version = "current" IN
       IF ~knownProduction /\ swupdateConf = "empty"
       THEN thread' = [thread EXCEPT ![t].at = "checkReport", ![t].result.http = -1,
                                     ![t].reply.http = -1]
       ELSE Goto(t, "script")
  /\ UNCHANGED <<requests, lifeVars, handle, xconfFiles, updateTold, deviceVars, stateVars, fault>>

\* Mutant: the results are read while the script still runs.
ReadResultsEarly(t) ==
  /\ At(t, "script")
  /\ \E reply \in Replies :
       /\ xconfFiles' = reply
       /\ thread' = [thread EXCEPT ![t].at = "checkReport", ![t].reply = reply,
                                   ![t].result = xconfFiles]
  /\ UNCHANGED <<requests, lifeVars, handle, updateTold, deviceVars, stateVars, fault>>

\* xconfImageCheck.sh writes what the server answers, or fails and leaves the
\* files of an earlier query.
RunScript(t) ==
  /\ At(t, "script")
  /\ \/ \E reply \in Replies :
          /\ xconfFiles' = reply
          /\ thread' = [thread EXCEPT ![t].at = "readResults", ![t].reply = reply]
          /\ UNCHANGED spoiled
     \/ Goto(t, "readResults") /\ Spoil("firmware", "failure") /\ UNCHANGED xconfFiles
  /\ UNCHANGED <<pc, local, left, lifeVars, handle, updateTold, deviceVars, stateVars, fault>>

ReadResults(t) ==
  /\ At(t, "readResults")
  /\ thread' = [thread EXCEPT ![t].at = "checkReport", ![t].result = xconfFiles]
  /\ UNCHANGED <<requests, lifeVars, handle, xconfFiles, updateTold, deviceVars, stateVars, fault>>

\* Mutant: _instance is not tested again.
TellAnyway(t) ==
  /\ At(t, "checkReport")
  /\ Goto(t, "report")
  /\ UNCHANGED <<requests, lifeVars, handle, xconfFiles, updateTold, deviceVars, stateVars, fault>>

\* _instance is tested again: without it nobody is told.
CheckReport(t) ==
  /\ At(t, "checkReport")
  /\ Goto(t, IF life = "active" THEN "report" ELSE "done")
  /\ UNCHANGED <<requests, lifeVars, handle, xconfFiles, updateTold, deviceVars, stateVars, fault>>

\* Whether there is an update, from the HTTP code and the version offered.
updateAvailableEnum(result, version) ==
  CASE result.http = -1 -> "emptySwUpdateConf"
    [] result.http = 404 -> "matchCurrent"
    [] result.http \notin {-1, 404} /\ result.offered = "none" -> "noVersion"
    [] result.http \notin {-1, 404} /\ result.offered = version -> "matchCurrent"
    [] OTHER -> "available"

\* The event is made for the object, whatever has become of it since.
reportFirmwareUpdateInfoReceived(t) ==
  /\ At(t, "tell")
  /\ updateTold' = [enum |-> updateAvailableEnum(thread[t].result, thread[t].version),
                    offered |-> thread[t].reply.offered]
  /\ Goto(t, "done")
  /\ dyingJobs' = (dyingJobs \/ life # "active")
  /\ UNCHANGED <<requests, life, handle, xconfFiles, deviceVars, stateVars, fault>>

-----------------------------------------------------------------------------
(* getMacAddressesAsync, on its thread.                                    *)

\* Mutant: an address that cannot be fetched is asked for again.
FetchUntilThere(t) ==
  /\ At(t, "fetch")
  /\ Goto(t, "fetch")
  /\ UNCHANGED <<requests, lifeVars, handle, xconfFiles, updateTold, deviceVars, stateVars, fault>>

\* Seven scripts, one for each address; one that fails yields zeros.
Fetch(t) ==
  /\ At(t, "fetch")
  /\ Goto(t, "tellAddresses")
  /\ UNCHANGED <<requests, lifeVars, handle, xconfFiles, updateTold, deviceVars, stateVars, fault>>

\* The event is made through the raw pointer the thread was started with.
TellAddresses(t) ==
  /\ At(t, "tellAddresses")
  /\ Goto(t, "done")
  /\ dyingJobs' = (dyingJobs \/ life # "active")
  /\ UNCHANGED <<requests, life, handle, xconfFiles, updateTold, deviceVars, stateVars, fault>>

-----------------------------------------------------------------------------
(* The update state, and the progress of a download.                       *)

\* Mutant: a critical reboot is taken for a state like the others.
TakeEveryState ==
  /\ notice = NoNotice
  /\ left["bus"] > 0 /\ left' = [left EXCEPT !["bus"] = @ - 1]
  /\ life = "active"
  /\ \E state \in States : notice' = [at |-> "received", state |-> state]
  /\ UNCHANGED <<pc, local, spoiled, lifeVars, queryVars, deviceVars, progress, percentAnswer,
                 infoAnswer, m_FwUpdateState_LatestEvent, stateTold, fault>>

\* The bus reports a state, one at a time.  Without an _instance it is dropped,
\* and a critical reboot is another event.
systemStateChanged ==
  /\ notice = NoNotice
  /\ left["bus"] > 0 /\ left' = [left EXCEPT !["bus"] = @ - 1]
  /\ life = "active"
  /\ \E state \in States :
       notice' = IF state = CriticalReboot THEN NoNotice ELSE [at |-> "received", state |-> state]
  /\ UNCHANGED <<pc, local, spoiled, lifeVars, queryVars, deviceVars, progress, percentAnswer,
                 infoAnswer, m_FwUpdateState_LatestEvent, stateTold, fault>>

\* A new state is kept; the same state again is dropped.
OnFirmwareUpdateStateChange ==
  /\ notice.at = "received"
  /\ IF notice.state = m_FwUpdateState_LatestEvent
     THEN notice' = NoNotice /\ UNCHANGED m_FwUpdateState_LatestEvent
     ELSE /\ m_FwUpdateState_LatestEvent' = notice.state
          /\ notice' = [notice EXCEPT !.at = "announce"]
  /\ UNCHANGED <<requests, lifeVars, queryVars, deviceVars, progress, percentAnswer, infoAnswer,
                 stateTold, fault>>

\* The event for it is made, for an object that may be in destruction.
AnnounceState ==
  /\ notice.at = "announce"
  /\ stateTold' = {notice.state}
  /\ notice' = NoNotice
  /\ dyingJobs' = (dyingJobs \/ life # "active")
  /\ UNCHANGED <<requests, life, queryVars, deviceVars, progress, percentAnswer, infoAnswer,
                 m_FwUpdateState_LatestEvent, fault>>

\* The downloader writes its progress, and the file may be wrong.
Download ==
  /\ left["bus"] > 0 /\ left' = [left EXCEPT !["bus"] = @ - 1]
  /\ \E total \in Totals : \E downloaded \in {0, 1, total \div 2, total - 1, total, total + 1} :
       progress' = [downloaded |-> downloaded, total |-> total]
  /\ UNCHANGED <<pc, local, spoiled, lifeVars, queryVars, deviceVars,
                 noticeVars, percentAnswer, infoAnswer, fault>>

\* The quotient is a double and is cut, not rounded: what should be a whole
\* number of percent may come out one lower, but not the quotient 1.
getDownloadProgress(p) ==
  LET cut == (100 * p.downloaded) \div p.total
      inexact == p.downloaded \in 1 .. p.total - 1 /\ (100 * p.downloaded) % p.total = 0
  IN IF p.downloaded > p.total THEN {-1}
     ELSE IF inexact THEN {cut - 1, cut} ELSE {cut}

\* Without a file the answer is -1.
GetFirmwareDownloadPercent(w) ==
  /\ life = "active"
  /\ Instant(w, "bus")
  /\ percentAnswer' \in IF progress.total = 0 THEN {-1} ELSE getDownloadProgress(progress)
  /\ UNCHANGED <<spoiled, lifeVars, queryVars, deviceVars, progress,
                 noticeVars, infoAnswer, fault>>

\* What /opt/fwdnldstatus.txt may hold: a version, and whether the reboot is
\* put off.
StatusFiles == [version : BOOLEAN, reboot : {"no", "1", "yes"}]

\* The version is given while a download is under way or done; a value of one
\* character, "1" too, never counts as a reboot that is put off.
GetDownloadedFirmwareInfo(w) ==
  /\ life = "active"
  /\ Instant(w, "bus")
  /\ \/ infoAnswer' = NoInfo
     \/ \E file \in StatusFiles :
          infoAnswer' = [downloaded |-> file.version /\ m_FwUpdateState_LatestEvent >= Downloading,
                         deferred |-> file.reboot = "yes"]
  /\ UNCHANGED <<spoiled, lifeVars, queryVars, deviceVars, progress, percentAnswer,
                 noticeVars, fault>>

-----------------------------------------------------------------------------
(* The destructor, when the last reference goes.                           *)

\* History: what the destructor does not wait for, where it clears _instance:
\* a thread that is asking for the version or telling the result, whatever is
\* or will be done for MAC addresses, a call, and the bus.
UnderWay ==
  {cause \in {"asking", "telling", "mac", "call", "bus"} :
     \/ cause = "asking" /\ \E t \in Threads : At(t, "version") \/ At(t, "askVersion")
     \/ cause = "telling" /\ \E t \in Threads : At(t, "report") \/ At(t, "tell")
     \/ cause = "mac" /\ (Busy("mac") \/ \E t \in Threads : At(t, "fetch") \/ At(t, "tellAddresses"))
     \/ cause = "call" /\ ~AllIdle
     \/ cause = "bus" /\ notice # NoNotice}

\* The last reference may go while calls that were passed on before are served.
\* _instance is cleared.
Destroy ==
  /\ life = "active"
  /\ left["life"] > 0 /\ left' = [left EXCEPT !["life"] = @ - 1]
  /\ life' = "unregistered"
  /\ spoiled' = spoiled \cup {[part |-> "life", cause |-> cause] : cause \in UnderWay}
  /\ UNCHANGED <<pc, local, dyingJobs, queryVars, deviceVars, stateVars, fault>>

ReleaseShell ==
  /\ life = "unregistered"
  /\ life' = "released"
  /\ UNCHANGED <<requests, dyingJobs, queryVars, deviceVars, stateVars, fault>>

\* The destructors of the members join the threads, and the object is gone: who
\* is still at work on it has nothing to work on.
JoinMembers ==
  /\ life = "released"
  /\ \A k \in Kinds : \A t \in handle[k] : thread[t].at = "done"
  /\ life' = "gone"
  /\ fault' = IF AllIdle /\ notice = NoNotice THEN fault ELSE "freed"
  /\ UNCHANGED <<requests, dyingJobs, queryVars, deviceVars, stateVars>>

\* Mutant: the update state outlives the object.
ConstructOver ==
  /\ life = "gone"
  /\ life' = "active"
  /\ handle' = [k \in Kinds |-> {}]
  /\ stateTold' = {}
  /\ UNCHANGED <<requests, dyingJobs, thread, xconfFiles, updateTold, deviceVars, progress,
                 notice, m_FwUpdateState_LatestEvent, percentAnswer, infoAnswer, fault>>

\* A new object in the same process: the constructor resets the state.
Construct ==
  /\ life = "gone"
  /\ life' = "active"
  /\ handle' = [k \in Kinds |-> {}]
  /\ m_FwUpdateState_LatestEvent' = 0 /\ stateTold' = {}
  /\ UNCHANGED <<requests, dyingJobs, thread, xconfFiles, updateTold, deviceVars, progress,
                 notice, percentAnswer, infoAnswer, fault>>

ThreadStep(t) ==
  \/ CheckVersion(t) \/ UseInstance(t) \/ getStbVersionString(t) \/ getXconfOverrideUrl(t)
  \/ RunScript(t) \/ ReadResults(t) \/ CheckReport(t)
  \/ reportFirmwareUpdateInfoReceived(t)
  \/ Fetch(t) \/ TellAddresses(t)

WorkerStep(w) == Join(w) \/ Assign(w)

FirmwareNext ==
  /\ fault = "none"
  /\ \/ \E t \in Threads : ThreadStep(t)
     \/ \E w \in Workers : WorkerStep(w) \/ GetFirmwareDownloadPercent(w)
                           \/ GetDownloadedFirmwareInfo(w)
     \/ \E w \in Workers, kind \in Kinds : Query(w, kind)
     \/ systemStateChanged \/ OnFirmwareUpdateStateChange \/ AnnounceState \/ Download
     \/ Destroy \/ ReleaseShell \/ JoinMembers \/ Construct

\* The system schedules every thread, and the scripts come to an end.
FirmwareFairness ==
  /\ \A t \in Threads : WF_vars(fault = "none" /\ ThreadStep(t))
  /\ \A w \in Workers : WF_vars(fault = "none" /\ WorkerStep(w))
  /\ WF_vars(fault = "none" /\ (ReleaseShell \/ JoinMembers))

FirmwareSpec == FirmwareInit /\ [][FirmwareNext]_vars /\ FirmwareFairness

-----------------------------------------------------------------------------
(* Properties.                                                             *)

FirmwareTypeOK ==
  /\ life \in {"active", "unregistered", "released", "gone"}
  /\ \A k \in Kinds : handle[k] \subseteq Threads
  /\ m_FwUpdateState_LatestEvent \in {0} \cup (States \ {CriticalReboot})
  /\ notice.at # "announce" => stateTold \subseteq {m_FwUpdateState_LatestEvent}
  /\ percentAnswer \in -1 .. 100

\* Two queries of one kind, one after the other, never assign over a thread
\* that can be joined; only calls that overlap end the process that way.
OnlyOverlapTerminates == fault = "terminate" => \E k \in Kinds : Met(k, "overlap")

\* A firmware query may be anywhere in its course when the plugin ends, and does
\* no harm: _instance is tested when it begins and when it tells.  Only one that
\* is caught right behind such a test follows a null pointer or makes an event
\* for a dying object; so may a query for MAC addresses and the bus, which test
\* nothing again.  Only a call or the bus uses the object when it is gone.
EndDoesNoHarm ==
  /\ fault = "nullShell" => Met("life", "asking")
  /\ fault = "nullInstance" => Met("life", "asking") \/ Met("life", "telling")
  /\ dyingJobs => Met("life", "telling") \/ Met("life", "mac") \/ Met("life", "bus")
  /\ fault = "freed" => Met("life", "call") \/ Met("life", "bus")

\* Of queries that met nobody and no failure, the last event says "available"
\* only when the server offered another version, in that very query.
UpdateToldTruly ==
  (\A s \in spoiled : s.part # "firmware") /\ updateTold.enum = "available" =>
    updateTold.offered \notin {"none", "current"}

\* The states that the bus told this object of and that it announced, or kept
\* and is about to announce.
Heard == stateTold \cup (IF notice.at = "announce" THEN {notice.state} ELSE {})

\* A downloaded version is given only by an object that itself heard that a
\* download is under way, never on the word of an object before it.
DownloadHeardOf ==
  [][infoAnswer'.downloaded /\ infoAnswer # infoAnswer' =>
       \E state \in Heard : state >= Downloading]_vars

\* A download is at 100 percent only when all of the image is there.
HundredIsComplete ==
  [][percentAnswer' = 100 /\ percentAnswer # 100 => progress.downloaded = progress.total]_vars

\* A call waits for the query before it, and returns.
QueriesReturn ==
  \A w \in Workers : pc[w] # "idle" ~> pc[w] = "idle" \/ fault # "none"

\* The destructor waits for every query, and comes to its end.
PluginEnds == life = "unregistered" ~> life \in {"gone", "active"} \/ fault # "none"

\* What clients are told of a download is so: that there is one
\* (GetDownloadedFirmwareInfo) and that it is complete (GetFirmwareDownloadPercent).
DownloadToldTruly == DownloadHeardOf /\ HundredIsComplete

\* No call and no destructor waits for ever on the thread of a query.
CallsEnd == QueriesReturn /\ PluginEnds
=============================================================================
