# SystemServices: a verification development

TLA+ models of the `org.rdk.System` plugin (`plugin/`), TLC configurations that
check them on small instances, and TLAPS proofs. Paths below are relative to the
repository; `SSI` is `plugin/SystemServicesImplementation.cpp`.

## 1. The system

The plugin answers some ninety JSON-RPC / COM-RPC calls on a television or
set-top box and notifies clients of seventeen kinds of events. Requests run on
the threads of Thunder's worker pool, so that calls of different clients, and
the callbacks of PowerManager, overlap. IARM delivers bus events on a thread of
its own, the mode timer has a thread, two slow queries have one each, and a log
upload is a forked process. Few members are protected by a lock:
`m_uploadLogsMutex` protects the pid of the upload, `m_territoryMutex` the
territory, `_adminLock` the list of notification sinks. Everything else is
shared without one.

| component | state | operations | what is hard |
|---|---|---|---|
| log upload (SSI 992-1057, 3227-3250, `uploadlogs.cpp`) | `m_uploadLogsPid`, the process, its event on the bus | start, abort, completion event, the power handler that starts and aborts | check and fork in two critical sections; an event that does not name its process; `waitpid` under the lock |
| operating mode (SSI 769-810, 2797-2889, `cTimer.cpp`) | `m_currentMode`, `m_remainingDuration`, the timer's flag and thread, the settings file, the warehouse file, the daemon's mode | SetMode, the tick, Configure's restore | no lock at all; a timer that is stopped by a flag and never joined; crashes between two writes |
| event dispatch (SSI 308-354, 516-768, `.h` 86-210) | the sink list, `_adminLock`, the jobs and their references | dispatchEvent, Dispatch, Register, Unregister, the IARM handlers | callbacks under the lock; order; events noticed while the object dies |
| plugin shell (`SystemServices.cpp`) | `_systemServices`, `_configure`, the references | Initialize, Deinitialize | who drops the last reference; process-wide state that survives an instance |
| network standby cache (SSI 1574-1602, 2400-2427, 2949-2956) | value and valid flag | get, set, notification | a slow fill against a fast notification |
| territory (SSI 2072-2184, 2464-2571) | two members, a mutex and a file | set, get | stale members, early returns, a file that is emptied before it is written |
| time zone (SSI 2539-2665) | two files, the link of the local time, TZ | set, get | one of several writes failing, an event for a write that failed, no lock |
| friendly name (SSI 1097-1129) | a member and an RFC parameter | set, get | event, member and parameter written one after the other |
| blocklist and FSR flags (SSI 1163-1268) | flags kept by MFRLib | set, get | change detection by a read before the write |
| power state, wake-up, reboot (SSI 1469-1570, 1951-1980, 2214-2261, 2345-2373, 2747-2795) | the standby-reason file, the cache of the state before the reboot; the rest in PowerManager | set, get, notifications | the reason written after the call whatever it said; a cache filled without a lock |
| thermal protection (SSI 2973-2981, 3123-3191) | none; the level is in PowerManager | notification | which threshold a change of two levels crosses |
| firmware (SSI 1604-1960, 2958-2971, `SystemServicesHelper.cpp`) | the latest update state, the query thread, the script's result files | query, state events, progress, downloaded firmware | join and assign of one thread handle, a script that outlives its caller, results of an earlier query |
| MAC addresses (SSI 2679-2745) | the query thread | query | the same, with a raw pointer |
| requests passed on (SSI 1270-1466, 2375-2398: telemetry, migration, boot type, serial number, auto-reboot) | in other plugins | get, set | the reference to the other plugin on every way out, what counts as success |
| device and manufacturer information (SSI 1060-1094, 2290-2310, 3508-3919, 3961-4083) | members that keep what was found, static strings | get | one `success` for a dozen sections, addresses kept without a lock |
| platform capabilities (`plugin/platformcaps/`) | references and links of one query, properties handed out once per process | query | who gets the properties; a link that activates a plugin |
| RFC, uptime, time status, zone list | none | get | none |

Components meet in four places. Every event goes through `dispatchEvent` and so
through the job queue and `_adminLock`. The power handler of PowerManager calls
the log-upload operations. The static members (`_instance`, `m_currentMode`, the
timer, the settings, the update state) outlive an instance and connect it with
the next one. And requests of all kinds share the worker threads, the end of the
process and the other plugins, which come and go.

What makes each component correct is stated with its module below; the hazards,
each with its line and the properties that watch it, are in `PROJECT.json`.

## 2. Modules

| module | models | kind |
|---|---|---|
| `UploadTracker` | what log-upload tracking promises: one slot, each upload reported at most once | abstract specification |
| `LogUpload` | log upload with its threads, lock, processes and bus events | detailed specification, refines `UploadTracker` |
| `OperatingMode` | SetMode, the mode timer, Configure, crashes | detailed specification |
| `EventDelivery` | what the notification interface promises a sink | abstract specification |
| `EventDispatch` | jobs, sinks, references, shell, destructor, bus and PowerManager handlers | detailed specification, refines `EventDelivery` |
| `NetworkStandbyMode` | the cache against PowerManager | detailed specification |
| `Requests` | the threads that serve requests, cut into steps | base of the modules below |
| `TerritoryRegister` | what the territory promises: a register | abstract specification |
| `Territory`, `TimeZone`, `NameAndFlags` | the settings the plugin persists | components; `Territory` refines `TerritoryRegister` |
| `Settings` | the three together, with the end of the process | composition |
| `PowerControl` | power state, standby reason, state before the reboot, wake-up, reboot, thermal events | detailed specification |
| `Firmware` | the two threaded queries, the update state, downloads, the destructor | detailed specification |
| `OtherPlugins` | plugins that come and go, and counted references to them | base of the next three |
| `Forwarding`, `DeviceQueries`, `PlatformCaps` | requests passed on; device and version queries; platform capabilities | components |
| `PluginQueries` | the three together | composition |
| `LogUploadProofs`, `EventDispatchProofs`, `OperatingModeProofs`, `SettingsProofs`, `PowerControlProofs`, `PluginQueriesProofs`, `NetworkStandbyModeProofs`, `FirmwareProofs` | theorems | proofs |
| `*MC` | values of the constants for TLC | instances |

Definitions whose comment says "Mutant:" are plausible wrong versions of the
definition that follows them. No specification uses them; each is there to show
that a property notices the mistake.

Outside of `OperatingMode` the empty string of the code is a word of its own:
`"empty"` for a member, a line of a file or an answer without a text, `"unset"` for
a parameter without a value, and `"all"` for a query that names nothing, which the
code answers with everything.

### LogUpload

A worker is a thread that serves requests or a PowerManager callback; `Bus` is
the IARM thread. A step is what a thread does between two points where another
can get in: a critical section that only looks at or sets the pid is one step,
a critical section with a `waitpid` is two, the lock being held in between.
`UploadLogsAsync` is `UploadCheck` (SSI 994-1003) and `UploadFork` (1005-1010),
with `AbortLogUpload` and `AbortWait` (1013-1053) in between when an upload is
tracked. The power handler starts the same steps (`Entry`, `AfterUpload`,
`AfterAbort` say where each call begins and goes on). A process goes from
running to a zombie, with or without posting its result, and is reaped by
`waitpid`; `kill` turns it into a zombie at once. An event carries the process it
came from only for the properties: `OnLogUpload` does not look at it, because the
code cannot. `fork` and the reading of its parameters may fail
(`logUploadAsync(NoPid)`).

Not in the model: the children of the upload process that `AbortLogUpload` kills
too, and `result.success`. A pid is not used twice; the property
`TrackedIsUnreaped` is what makes reuse harmless.

### OperatingMode

`SetMode` takes no lock, so each access to a shared place is a step: the mode,
the remaining duration, the flag `clear` of the timer, the handle of its thread,
the two keys of the settings file, the warehouse file, the call to the daemon.
The threads are the workers, the timer threads (`Tids`; there can be several,
because a timer is stopped by a flag that the thread sees after its sleep) and
`Main`, which activates the plugin. `frame[t]` has the locals of the SetMode on
thread `t`. A tick of the timer is `Tick`, then `TickDecrement` or `TickDetach`,
then `TickSave`; the decrement of a plain `int` may use the value tested before
or a fresh one. `Terminate` is `std::terminate`, reached in the two ways
`std::thread` has here: an assignment over a joinable thread and a `detach` of
one that is not. `Crash` loses memory and keeps the files and the daemon.
`promise` is a history variable: the mode last granted to a client until its next
call (a negative duration that IARM accepted).

With `Serial = TRUE` a call or a tick starts only when no other is in progress;
this separates what goes wrong in some order of calls from what goes wrong by a
race. The warehouse file is checked, and then made or removed, which may fail: the
code logs it and goes on to the settings (SSI 2864, 2872), and `lastFile` notes
how it ended. Assumed of the settings, whose class is not in the repository: a
`setValue` succeeds and is atomic. The daemon changes its mode only when told.

### EventDispatch

A job is an event in `queue`; the pool threads take jobs in order. `refs` counts
the references on each instance of the implementation: two of the shell
(`_systemServices` and `_configure`, dropped one after the other with nothing in
between that looks at the count) and one per job. Whoever drops the last one runs
the destructor, in three steps that other threads can see: leave PowerManager,
remove the IARM event handlers, clear `_instance` and free the list. The IARM
handlers test `_instance` and use it in two steps. `PowerEvent` stands for the
notifications that dispatch on their own parent (network standby and reboot);
the others go through `_instance` like the bus handlers. `todo` is the iterator
over the sinks. Which event it is, and its payload, do not matter to dispatch,
so that an event is a number and the seventeen cases of `Dispatch` are one.

A use of a destroyed object is undefined; the model stops the thread there
(`DispatchLock`, `BusCall`), and `JobsHoldObject` is the property that says it
cannot happen. A call that notices an event (`ApiEvent`) is one step while the shell
is active; what becomes of a call that is still served when the plugin ends is in
`Firmware`.

### NetworkStandbyMode

`GetNetworkStandbyMode` is asking, storing and declaring valid; setting is the
remote call and the invalidation; a notification is storing and declaring valid.
PowerManager is external: it has a mode, anyone may change it, and every change
sends a notification later, in order. Nothing keeps these steps apart, in the code
or in the model. Two history variables tell one order from the others:
`overtaken` has the workers that hold an answer from before a change, and `writer`
says who stored the mode in the cache, "late" for such a worker.

### Requests

A request is a call of one method on one worker. `pc[w]` is the place the call is
at, `local[w]` its local variables and the part of the plugin it is for; a method
that does one access is `Instant`, one that does several is cut where another
thread, or the end of the process, can come between (`Start`, `Step`, `Finish`,
`Abandon`). `left` is the budget: how many requests of each part a behaviour may
still have. `spoiled` is a history variable: it notes that a call of a part met
another one (`overlap`), a failure of a file, a script or another process
(`failure`), the end of the process halfway (`crash`), a value that was refused but
left its mark (`refused`), and, under `life`, what was under way when the plugin
ended (`UnderWay` in `Firmware`). Nothing in the code's actions reads it; properties
use it to say which behaviours they excuse (`Undisturbed`, `Met`), and each names
its own.

### Territory, TimeZone, NameAndFlags, Settings

`SetTerritory` holds `m_territoryMutex` from its first line to its last (SSI 2468).
Threads cannot get in between, but the end of the process can, so that it is three
steps: the file is opened, which empties it (`SetTerritory`); what the disk took is
there after `close()` (`writeTerritory`), both lines, or a part of them that reads
as another value ("torn") or, cut short, as another valid region; the event is made
(`OnTerritoryChanged`). `readTerritoryFromFile` keeps the members of an earlier read
where the file is empty or has one line, as the code does; `GetTerritory` and
`SetTerritory` differ there, because only the first clears them before.
`SetTerritoryFails` is every way out before the write: a missing or invalid value,
or a file that does not open; some of them have read the file. The abstract register
is asked for a change (`Ask`), and accepts and tells it in one step (`Accept`), or
ends with the process (`End`), when the change may be kept, in whole or in part, and
nobody is told. The refinement maps its setting to what a reader would be told, or,
while a write holds the mutex, to what it was before (`InForce`). An event has the
setting it replaces as the old value; where nothing was set, the members may have a
value left over, but only one that was in force in this process (`past`, `Former`).
The plugin stays activated while a process lives, so that `_instance` is there for
the event (SSI 2502).

`SetTimeZoneDST` takes no lock. Opening and writing each file, removing and
making the link, reading the old accuracy, the event and TZ are steps. Two
writers of one file can leave a mixture ("mixed"). The old values are those
read before the writes and the new ones those asked for, whatever was written,
as in the code. A zone that is not in the database is refused but TZ is set to
it (SSI 2650). The builds modelled define `ENABLE_LINK_LOCALTIME` and
`DISABLE_GEOGRAPHY_TIMEZONE`; without them the link and TZ are left alone.

`SetFriendlyName` stores the member, reads it for the event (`MakeParams`),
dispatches the event (`TellName`), reads it for RFC (`ReadName`) and sets the
parameter, in five steps, so that an event may have a name that is not in force any
more. `SetBlocklistFlag` reads the old flag from MFRLib, where
a failure counts as "false", sets it and tells the change it computed.
`SetFSRFlag` is one call of the library.

`Settings` lets the three share the workers and the end of the process
(`Restart`: memory is lost, files and the library's flags are kept, Configure
takes the name and TZ from what was stored).

### PowerControl

PowerManager is external: it has a power state, a thermal level, a wake-up
configuration and a queue of notifications, and changes on its own
(`PowerManagerChanges`). `SetPowerState` (SSI 1498-1570) calls it, and whatever it
answers writes the standby reason for a sleep: opening the file, which empties it,
and writing are steps. `GetPowerStateBeforeReboot` (SSI 1951) answers, stores and
declares valid in three steps. `SetDeepSleepTimer`, `SetWakeupSrcConfiguration` and
`Reboot` are one call each with the conversion the code does before it, and
PowerManager may refuse any of them. A power state by another name reaches no call
but is taken for the current one (`SetUnknownState`); an empty one is an error
(`SetNoState`). The handlers take notifications in order. `powerModeEnumToString`
and `GetPowerState` are the two tables the code has for one value, and
`handleThermalLevelChange` (SSI 3123) the thresholds. What a power change does to
log uploads is in `LogUpload`, and the network standby mode in `NetworkStandbyMode`.

### Firmware

`Query` is GetFirmwareUpdateInfo or GetMacAddresses: the thread of the query before
is joined when it is joinable, and the handle is assigned. `Join` of a handle that
another call has joined is `std::system_error`, which the shell turns into a failed
call; `Assign` over a handle that is joinable again is `std::terminate` (`fault`).
The thread for updates tests `_instance` (`CheckVersion`), reads it once more for
the call (`UseInstance`, SSI 1702), asks DeviceInfo through the shell, runs the
script (which may leave the files of an earlier query), reads the results, tests
`_instance` again (`CheckReport`), reads it once more (SSI 1796) and makes the
event. Where the plugin ends between a test and the use behind it, `_instance` or
the shell is null (`nullInstance`, `nullShell`). The thread for MAC addresses tests
nothing. The bus handler tests `_instance`, compares and stores the state, and makes
the event (`systemStateChanged`, `OnFirmwareUpdateStateChange`, `AnnounceState`;
`notice` is the state it is at work on), so that a getter can come between. The
destructor clears `_instance` (`Destroy`), releases the shell (`ReleaseShell`) and
joins the threads (`JoinMembers`), in this order, because the threads are members
and members are destroyed after the destructor's body. `Construct` is the next
activation in the same process. `getDownloadProgress` is a quotient of doubles that
is cut: the model has it one lower where the exact quotient is a whole number below
1. `dyingJobs` says that an event was made for an object in destruction, and the
fault `freed` that a call or the bus handler was at work on an object that is gone.

Nothing in the plugin makes the destructor wait for a call it serves, for the bus
or for a query thread before it clears `_instance`, so `Destroy` has no guard but
its budget: it notes what was under way (`UnderWay`). The plugin passes no new
call on from then on.

### OtherPlugins, Forwarding, DeviceQueries, PlatformCaps, PluginQueries

`refs` counts the references the plugin holds on each of the others, as
QueryInterfaceByCallsign gives them out; `SwitchPlugin` activates and deactivates
the others at any time. `Forward` acquires and `Relay` asks and releases, for the
seven methods of `Target`; `ServedSuccess` says what each leaves in `success`.
`GetDeviceInfo` is section after section (`Section`), each with the outcomes its
code has for `success`, for what is kept and for the call as a whole. The values
that are kept (the manufacturer library's and two addresses) are looked up in one
step (`LookUp`) and, where they are empty, asked for and stored in another: what
comes between the remote call and the store could not tell them apart, because
the call changes nothing here and its answer is chosen when it is stored. For the
same reason a value and its valid flag are one, no step reading the value before
it has seen the flag. `GetMfgSerialNumber` is cut in the same two.
`GetSystemVersions` takes a reference to DeviceInfo for the first version and
gives it back (`getStbVersionString`), and then reads the branch and the client
version from the file one after the other; both are kept in static strings.
`PlatformCaps` makes one `PlatformCapsData` per object of the answer: `Construct`
takes its references, each field is a step, `Destruct` gives them back.
`getDeviceProperties` hands the properties to the first caller of the process, by
`std::call_once`. A query that names a field the object does not have constructs
and destroys it, and fills nothing.

Values are abstracted to whether an answer has them and where they come from.

## 3. Runs

| run | instance | checks |
|---|---|---|
| `LogUpload_threads` | 2 workers, the bus thread, 3 processes, symmetry | `TypeOK`; `TrackedIsUnreaped`: the tracked pid is always an uncollected child, so that no foreign process is killed or waited for; `ReapedOnceReportedOnce`: with the lock free, exactly the collected uploads were reported, once; `ImplementsTracker`: the refinement |
| `LogUpload_serial` | 1 worker, the bus thread, 3 processes, fairness | `NoOrphan`: every living upload is the tracked one; `PostedIsReported`: an upload that posted a result is reported; `CallsReturn`: calls return once new ones cease |
| `LogUpload_race` | 2 workers | refutes `NoOrphan` |
| `OperatingMode_serial` | 1 worker, 2 timer threads, 3 calls with durations -1, 0, 1, 2, 2 crashes, 1 reactivation, fairness | `TypeOK`; `SettledAgree`: the settings show the mode, and so does the warehouse file unless making or removing it failed last; `DaemonFollows`: so does the daemon unless IARM refused; `TimedModeIsTimed`: a temporary mode has a running timer and a saved remainder; `ModeExpires`: a temporary mode ends |
| `OperatingMode_crash` | a permanent mode, 1 crash | refutes `PermanentModeKept` |
| `EventDispatch_threads` | 2 pool threads, 1 client, 2 instances, 3 events of every source, 2 client calls | `TypeOK`; `CalledOnce`: no sink hears of an event twice |
| `EventDispatch_references` | the same, events of requests only, fairness | `ImplementsDelivery`: the refinement; `JobsHoldObject`: no job outlives its object; `EventsArrive`: an event reaches the sinks that stay; `ReleasedIsDestroyed` |
| `NetworkStandbyMode_overlap` | 2 workers, 3 changes, in any order | `TypeOK`; `CacheFresh`: when all is quiet a valid cache is right, but for a fill that stored last what a change had overtaken |
| `Settings_calls` | 2 workers, up to 3 requests, symmetry | `SettingsTypeOK`; `TerritoryIsRegister`: the refinement; `ZoneAnnounced`: whatever overlaps or fails, a zone that clients read was told by an event or is about to be; `EventsTellSettings`: the last event is what clients read after calls that met nobody, and however calls overlap a name in force was told; `CopiesFollowSettings`: the link, TZ and the RFC parameter follow |
| `PowerControl_calls` | 2 workers, up to 4 requests and changes, symmetry | `PowerTypeOK`; `ReasonOfLastSleep`: the file has the reason of the last sleep taken; `BeforeRebootAnswered`: no answer from a cache half filled; `LastEventsTellTruth`: who knows only the last power and thermal event knows the state |
| `Firmware_queries` | 2 workers, 3 query threads, the end of the plugin and a new one, fairness | `FirmwareTypeOK`; `OnlyOverlapTerminates`: queries one after the other never end the process; `EndDoesNoHarm`: an end of the plugin does harm only to what it catches right behind a test of `_instance`, or what tests nothing; `UpdateToldTruly`: "available" only when the server offered another version in this query; `DownloadToldTruly`: a download is told of and is complete; `CallsEnd`: no call and no destructor waits for ever |
| `Queries_references` | 2 workers, up to 4 requests, 7 other plugins, symmetry | `QueriesTypeOK`; `ReferencesBalanced`: every way out gives back what it took; `GivenIsKept`: what an answer had the next one has; `AnswersTrue`: the migration status, the sections and the first features are what was set and found; `AnswersStay`: a receiver version stays, an empty device type is AuthService's |

The exact instances are in the `.cfg` files and the `*MC` modules. The largest,
`Queries_references`, has 2.1 million distinct states and takes about a minute;
`PowerControl_calls` has 1.1 million, `LogUpload_threads` 0.9 million,
`Settings_calls` 0.6 million, `Firmware_queries` 0.4 million,
`EventDispatch_references` 0.3 million with the longest check of liveness (a minute
and a half).

**Bounds.** Two workers are what a race between two calls needs, and three
processes are an upload, its replacement and one more whose start the late event
of the first can meet. Three calls of SetMode are a mode, a second one over it
and one that ends it; two crashes are one before and one after a restore; two
ticks tell the first tick of a mode from its last. Two pool threads let events
overtake each other, two instances let an old one meet a new one, and three
events are one queued, one running and one noticed late. Three changes in
`NetworkStandbyMode` bring the mode back to a value it had, with a notice of each.

In the modules on `Requests` the bound is `Budgets`, a set of functions from the
parts to how many requests a behaviour has of each. Parts of one composition share
no variable of the plugin, only the workers, the end of the process and the other
plugins; so each budget has two to four requests of one part, enough for a call, one
that overlaps it and one after both, and further budgets have one request each of
two parts that meet in an end of the process or a plugin that goes. A part without a
budget starts in the state of a new device. For `Settings` the number of ends of the
process needs no bound: it adds no state. In `Firmware`, three threads are two
queries of one kind that overlap and one after. In `Queries_references` at most one
of the other plugins is missing at first (`OthersInit`), the version file and the
properties differ only in behaviours that read them, and the history of who asked
for the properties has four entries (`Asks`). Sizes of an image are one with exact
and one with inexact percentages; the times of the deep-sleep timer are on both
sides of both limits.

**Symmetry** is used in runs that check safety only, over workers and processes
that the specifications treat alike.

**Deadlock** is checked for `LogUpload`, where a call is always possible. The
calls, crashes and events of the others are bounded, so that the system does stop
when they are used up (in `Firmware` also when the process has ended), and their
configurations say `CHECK_DEADLOCK FALSE`; that nobody waits for ever is stated by
the liveness properties instead.

**Fairness.** Every thread that can take its next step takes it (weak fairness per
thread): the operating system schedules them, and remote calls return or fail by a
time-out. Nothing makes a client call, an event happen or a process crash.
`UploadEnds` (in `FairSpec` of `LogUpload`) also makes an upload process end, which
`uploadstblogs_run` does after a bounded number of timed transfers. A `std::mutex`
is not fair, so that a stream of calls could keep one thread waiting: hence the
hypothesis `CallsCease` of `CallsReturn`. In `OperatingMode` a process that died is
started again, as systemd does with WPEFramework. In `Firmware` the scripts of the
two queries end (they are external; nothing in the plugin bounds them) and a
destructor that has begun goes on; nothing makes the plugin end.

**Refuted properties.** Each states what a document or a comment of the
repository says; `findings` in `PROJECT.json` quotes it. `LogUpload_race`: two
overlapping uploads lose one. `OperatingMode_crash`: a permanent mode does not
survive a restart.

**Disagreements the models reach and no property forbids.** They are behaviour
of the code as it is; each is a hazard in `PROJECT.json` or follows from one.

- A second timed mode while one runs assigns over a joinable thread, which is
  `std::terminate` (`cTimer.cpp` 67, `Terminate` in `OperatingMode`).
- The reference that Deinitialize drops is not the last while a job is pending,
  against its assertion (`SystemServices.cpp` 127-134).
- An instance that dies late takes the bus handlers and `_instance` of its
  successor with it (SSI 300).
- A late LOG_UPLOAD event is credited to the next upload (SSI 3234), which is why
  `ReapedOnceReportedOnce` counts reports and does not look at their word.
- With two workers, SetMode calls that overlap leave the warehouse file and the
  settings apart from the mode (`Serial`); after a deactivation a timed mode has no
  timer (`cycles` in `TimedModeIsTimed` and `ModeExpires`); after a refused mode
  change the daemon is not told of NORMAL (`lastIarm` in `DaemonFollows`).
- A fill of the network-standby cache that overlaps a change can leave it stale
  (`writer = "late"` in `CacheFresh`).
- A warehouse file that cannot be made or removed stays as it is until the next call,
  and the mode and the settings go on without it (`lastFile` in `SettledAgree`).
- A territory that the process wrote and did not come to tell is kept and told to
  nobody (`End` in `TerritoryRegister`); an event may call a territory the old one
  that was in force earlier, when none was set (`Former`).
- A PowerManager notification during the destructor makes a job on a dying object
  (`Sources` in `EventDispatch_references`).
- While an upload that was reported by a stale event runs on, the bus thread waits
  for it under the lock and every request with it (`UploadEnds`).
- Overlapping SetTimeZoneDST, SetBlocklistFlag, SetFriendlyName or SetPowerState can
  leave the last event, the link, the RFC parameter or the standby reason apart
  from the setting (`overlap` in `spoiled`). A time-zone change is announced also when
  its file could not be written.
- Two overlapping queries of one kind can end the process. A query that the end of
  the plugin meets right behind a test of `_instance` uses a null pointer or makes an
  event for a dying object, and so may a query for MAC addresses and the bus; a call
  that is still served goes on with an object that is gone (`UnderWay` in
  `Firmware`).
- Between the store of an update state and its event GetDownloadedFirmwareInfo answers
  by it, before any client was told (`Heard`).
- Of two device queries that overlap, one may put an empty address over the one that
  the other found (`GivenIsKept`).
- The build type overwrites what the sections of GetDeviceInfo before it made of
  `success` (`FailureHidesNothingLater` is about those behind it).
- A failed script leaves the result files of the query before, which are told as
  the answer (`failure` in `UpdateToldTruly`).
- The first of two callers of `getDeviceProperties` gets the properties and the
  second none, so that a later query for `features` says there is no 4K decoding
  (`FirstFeaturesTrue` promises it for the first only).

## 4. Proofs

Every theorem is for every value of the constants, under the assumptions the
modules name.

| theorem | says |
|---|---|
| `LogUploadProofs!TypeCorrect` | `Spec => []TypeOK` |
| `LogUploadProofs!InductiveInvariant` | `Spec => []IInv` |
| `LogUploadProofs!TrackedSafe`, `WaiterSafe`, `ReportsSafe` | the tracked pid is unreaped; a thread inside `waitpid` holds the lock and waits for the tracked pid; exactly the collected uploads were reported |
| `LogUploadProofs!ReportFinal` | nothing is said about an upload after it was collected |
| `LogUploadProofs!OneWorkerNoOrphan` | `NoOrphan`, if there is one worker |
| `LogUploadProofs!Refinement` | `LogUpload` implements `UploadTracker` |
| `OperatingModeProofs!TypeCorrect` | `Spec => []TypeOK`, races included |
| `OperatingModeProofs!SerialSettledAgree` | `SettledAgree`, if calls and ticks do not overlap, whatever the warehouse file refuses |
| `OperatingModeProofs!SerialDaemonFollows` | `DaemonFollows`, if calls and ticks do not overlap |
| `OperatingModeProofs!SerialTimedModeIsTimed` | `TimedModeIsTimed`, if calls and ticks do not overlap |
| `EventDispatchProofs!TypeCorrect` | `Spec => []TypeOK`, whoever notices events |
| `EventDispatchProofs!NeverTwice` | `Spec => []CalledOnce`, whoever notices events |
| `EventDispatchProofs!NoneLeftOver` | an implementation that lives is held by the shell or has a job to come, whoever notices events |
| `EventDispatchProofs!IterationUndisturbed` | who calls sinks holds the lock and its list is not changed, if only requests notice events |
| `EventDispatchProofs!JobsKeepObject` | `JobsHoldObject`, if only requests notice events |
| `EventDispatchProofs!DispatchImplementsDelivery` | `EventDispatch` implements `EventDelivery`, if only requests notice events |
| `SettingsProofs!TerritoryTypes` | the territory alone is well typed, and the mutex is held exactly in the middle of a write |
| `SettingsProofs!TerritoryImplementsRegister`, `SettingsImplementRegister` | `Territory` implements `TerritoryRegister`, alone and next to the other settings, wherever the process ends |
| `SettingsProofs!SettingsInvariant`, `SettingsTypes` | `SettingsSpec => []SettingsInv`, and the types |
| `SettingsProofs!ZonesAreTold` | `ZoneAnnounced`: who can read a zone was told it, or is about to be |
| `SettingsProofs!EventsAreTrue`, `CopiesFollow` | the last events tell what is read, and a name in force was told however calls overlap; the link, the environment and the restored name follow |
| `PowerControlProofs!Invariant`, `PowerTypes` | `PowerSpec => []Inv`, and the types: PowerManager is given only what it knows |
| `PowerControlProofs!ReasonIsKept` | the file has the reason of the last sleep |
| `PowerControlProofs!AnswersBeforeReboot` | no answer but the state before the reboot |
| `PowerControlProofs!LastEventsAreTrue` | when all notifications have arrived, the last events tell what is the case |
| `PluginQueriesProofs!QueriesInvariant`, `QueryTypes` | `QueriesSpec => []QueriesInv`, and the types |
| `PluginQueriesProofs!ReferencesGivenBack` | every reference to another plugin is given back |
| `PluginQueriesProofs!AnswersAreKept`, `AnswersAreTrue` | what an answer has is kept; what answers say is so |
| `PluginQueriesProofs!ToldAnswersStay` | the action property `AnswersStay` |
| `NetworkStandbyModeProofs!CacheTypes` | `Spec => []TypeOK` |
| `NetworkStandbyModeProofs!ValidCacheIsFresh` | `CacheFresh`, in every order of steps: no order but the late fill leaves a wrong mode |
| `FirmwareProofs!TypeCorrect` | `FirmwareSpec => []FirmwareTypeOK` |
| `FirmwareProofs!OverlapTerminates`, `EndIsHarmless` | only queries that overlap end the process; an end of the plugin does harm only at the places `EndDoesNoHarm` names |
| `FirmwareProofs!AvailableIsTrue`, `DownloadIsTrue` | what clients are told of an update, and of a download, is so |

**LogUpload.** The only assumption is `LogUploadAssumption` (the bus thread is not a
worker, and the null values are not threads or pids). None of the three safety
properties is inductive. That the tracked process is unreaped depends on who is
inside `waitpid`, that on who holds the lock, and the count of reports is off by
one exactly while the bus thread waits, because it reports before it waits. `IInv`
is `TypeOK`, `ControlOK` (what a thread's place says about its call and the lock),
`LockOK` (a held lock means its holder is inside `waitpid` on a tracked pid),
`TrackedIsUnreaped` and `ReportsOK` (per process, the count of reports as a
function of its state and of whether the bus thread waits for it). One lemma per
action shows that it is preserved. `OneWorkerNoOrphan` needs `SerialInv` on top:
between the check and the fork of a single worker nobody else can set the pid.
In the refinement the slot is empty from the moment `OnLogUpload` has reported,
although the code clears the pid only after `waitpid`.

**OperatingMode.** `TypeInv` adds to the types that a call past its decision has a
real mode (`GrantOK`) and has given the process one (`EnteredOK`): the daemon and
the file are given `m_currentMode`, which is empty until then. It holds whatever the
threads interleave. The two others are under `Serial` and false without it, because
every field is read and written without a lock; they follow from `SerialInv`: one
thread at a time is inside a call or a tick (`OneInside`); a process without a mode
runs only Configure, up to its decision (`FreshOK`); what a call relies on at each
of its places (`Own`: the restored mode is a real one, the warehouse file is made or
removed for the mode the process still has, a call that gives up was refused); and
`Followed`: files and daemon show the mode, unless the last attempt to tell them
failed (`FileFollows`), or a call that changed it is still on its way to them. Since
only one thread is inside, a step of it needs only its own part (`AloneNext`), and a
step outside leaves all parts alone (`OutsideSerial`). A crash ends in a process
without a mode, for which `Followed` asks nothing until Configure has restored one.
`TimedModeIsTimed` needs `TimedInv` on top of `SerialInv`: no duration is negative,
in memory or in the file (`TimesOK`), so that Configure never restores a special
mode without an end; a plugin that is inactive was deactivated (`InactiveOK`), since
a timer that ends then has nobody to end the mode; `TimerOwn` (only a client asks
for a mode without an end, nobody changes the duration between the test and the
decrement of a tick, `stopModeTimer` runs only for a mode a client is being granted,
for NORMAL, or after a refusal of IARM); `Saved` (the file has the time that is
left, or a call or a tick is still to write it); and `Expires`: a special mode that
no client was granted has a timer thread that runs and was not told to stop, or the
thread inside is on its way to grant the mode, to start its timer or to end it
(`OnTheWay`).

**EventDispatch.** The assumption is `EventDispatchAssumption`. `TypeInv` adds to
the types what makes a reference count a natural number: `RefsOK` says that an
instance has two references while the shell holds it and one for every job about it,
which needs that a job is in the queue or with one thread (`JobsOK`) and that
nothing knows an instance that was not constructed yet (`BornOK`). `CalledOnce`
needs that the lists and what a thread is still to call have no sink twice
(`ListsOK`, `TodoOK`), and `ReceivedOK`: who was called for an event is no longer to
be called by the thread that has its job, and the job is not in the queue.
`NoneLeftOver`, the safety half of `ReleasedIsDestroyed`, needs that who lives is
referenced (`LiveReferenced`), which a release keeps because the count it leaves is
a natural number. All three hold with every source of events. The others hold for
`ApiOnly` alone, because a notification of PowerManager or the bus can reach an
instance whose references are gone; they follow from `ApiInv`: whoever is referenced
lives (`LifeOK`, which the call that notices an event keeps because the shell's
references are still there), and a thread that calls sinks has the lock of that
instance, so that what it is still to call is still registered (`LockOK`). In the
refinement `dispatchEvent` is `Send`, a call of a sink is `Deliver`, and the end of
the destructor is `Withdraw`. The lemmas about `Append`, `Tail` and `RemoveAt` say
what they do to the elements of a sequence without duplicates.

**Settings.** The assumptions are `TerritoryAssumption` (what the plugin accepts is
part of what clients ask for, and is not the empty or the torn value),
`TimeZoneAssumption` and `NamesAssumption` (no zone and no name is one of the tokens
that stand for "no file" and "not set"), and `RequestsAssumption`. `SettingsInv` has
one conjunct for each part and `CallsOK`, which says which call a worker serves at
each place. Every step of one part is shown to be `Within` the places of that part,
and what is `Apart` from a part keeps its conjunct, so that a step is examined with
its own part only, and the restart with all of them. For the territory, `MutexOK`
says that a worker is in the middle of a write exactly while it holds the mutex, and
`WriteOK` that the file is empty then, or at the event has as much of the change as
the disk took, and that the members still have what the setting was; `PastOK` says
that nothing is in the members but what was in force in this process. Without them
the event of a write, which is built from members that other calls use too, would
not be the `Accept` of the register, nor the end of the process its `End`. For the
zone, `CarriesOK` is about what a call carries from what it read, `ToldOK` holds in
spite of overlaps (a zone in the file was told, or a call that replaced another one
by it is still to tell it), and `ZoneCleanOK` says, for calls that met nobody and no
failure, what the two files, the link, the environment and the last event have at
each of the eight places of `SetTimeZoneDST`. `NameInv` and `FlagInv` do the same
for the friendly name and for the blocklist; that a name was told however calls
overlap (`NameTold`) rests on the call that stored it last, which is still to read
the member for its event.

**PowerControl.** From `PowerControlAssumption` and `RequestsAssumption`.
`ReasonInv`: where calls of `SetPowerState` met nobody, one at a time is between
opening the file of the reason and setting the state, and the file lags behind only
there. `CacheInv`: a cache that is valid, or that a worker is about to declare
valid, is filled; it holds whatever calls overlap, because the code fills before it
declares. `NoticesInv` is about the queue of notifications: the last of a kind tells
what is the case (`LastIsNow`), each thermal one starts where the one before it
ended (`Linked`), the first where the last event ended (`FirstIsTold`), and without
any on its way the last event is true. It is proved with lemmas on what `Append` and
`Tail` do to these four, once for both kinds.

**PluginQueries.** From `DeviceQueriesAssumption` (the sections of the whole answer,
in an order in which `build_type` comes before what is listed in `BehindBuildType`,
as the code has them), `PlatformCapsAssumption`, `OtherPluginsAssumption` and
`RequestsAssumption`. `RefsOK` is what makes references balance: a plugin has given
as many as there are workers whose place and locals say they hold one, so that every
early return has to drop its holder and its reference together. `ForwardInv` ties
the status told to the status set. `VersionsInv` ties the branch a call knows to
what is kept. In `DeviceInv` the order of the sections (`InOrder`) is what makes an
answer without success hide nothing that comes later: after a section behind the
build type, success cannot be lost any more; and while no two device queries overlap
there is one worker in a query, so that an address it is asking for is not kept yet.
A section is shown to `Fit` once, from its outcome. `CapsInv` is its type and the
first features. Steps of one component are `Within` its places and `Elsewhere` for
the others.

**NetworkStandbyMode.** `TypeInv` adds to the types that there are no more
notifications than changes, which bounds the queue. `FreshInv` adds `AnswerOK` (an
answer that no change has overtaken is the mode) and `CacheOK`: the last
notification on its way has PowerManager's mode (`LastIsMode`); nothing is declared
valid before a first store; and when no notification is on its way, a mode stored by
a notice, or by a fill in time, is the mode. There is no hypothesis on how steps
interleave.

**Firmware.** The theorems are for every set of answers of the server, of update
states and of image sizes, from `FirmwareAssumption` and `RequestsAssumption`. What
ends the process and what is told of an update follow from `IInv`: without an
overlap one call at a time serves a kind of query, and assigns to a handle that is
empty (`AloneOK`); what is at work on the object after `_instance` was cleared, and
will not test it first, was there when it was cleared (`EndSeen`), and an object
that is gone serves nobody where the process goes on (`EndOK`); and where no query
met another or a failure one thread at a time asks the server, the destructor waits
for it, it knows the version when somebody can be told, and what it read is what the
server answered it (`CleanOK`). The last is why an event is true although the files
of the script are shared: `ReadResults` reads what the same thread wrote only
because nobody asks in between. What is told of a download follows from
`DownloadInv`: an update state that is not 0 was announced by this object or is
about to be, which `Construct` keeps by resetting both, and a percentage is a
quotient cut to 100 at most (`CutBounds`).

Only model-checked: liveness (`PostedIsReported`, `CallsReturn`, `ModeExpires`,
`EventsArrive`, `ReleasedIsDestroyed`, `CallsEnd`), which is out of the prover's
reach because it rests on fairness and ENABLED. Every other property of a passing run,
invariant, action property or refinement, is stated by a theorem. `NoOrphan` and
`PermanentModeKept` are false in the code; the runs that expect it show how. That
`NoOrphan` holds with one worker is a theorem.

## 5. Not modelled

- Logging, telemetry markers, the wording of messages and the layout of payloads;
  the characters of territories, regions, names and queries (a value is valid or
  not).
- Calls that read or write one thing and keep nothing: GetRFCConfig,
  GetTimeStatus, RequestSystemUptime, GetTimeZones, SetBootLoaderSplashScreen,
  GetLastFirmwareFailureReason, GetWakeupReason and GetLastWakeupKeyCode; and
  UpdateFirmware, which starts a script and forgets it.
- The progress file of curl with its "M" and "G" suffixes; the model has sizes.
- The lists of quirks, plugins and MIME types of the platform capabilities.
- The out-of-process connection of the shell and its deactivation notice.
- Code without a caller: `write_parameters` and `read_parameters` (SSI 812-990),
  `thermonitor.cpp`.
- The test client and the tests.

What would come next: the composition of `LogUpload` with `EventDispatch` on the
events they share, so that a report reaches a registered client.
