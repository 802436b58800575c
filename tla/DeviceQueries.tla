--------------------------- MODULE DeviceQueries ---------------------------
(***************************************************************************)
(* GetDeviceInfo, one section after the other with one reference to        *)
(* DeviceInfo held all the way; GetMfgSerialNumber; and GetSystemVersions. *)
(* What was found once is kept, per object or for the whole process.       *)
(***************************************************************************)
EXTENDS OtherPlugins, Sequences

CONSTANT Sections   \* the sections of an instance, in the order of the code

VARIABLES
  cached,        \* sections whose value the object keeps
  given,         \* history: such sections that an answer has had
  deviceAnswer,  \* the last answer of GetDeviceInfo
  versionFile,   \* whether /version.txt can be read
  branchIsNumber,\* the branch has the form of a version number
  known,         \* the static strings of the process that are not empty
  receiverTold   \* the last receiverVersion

deviceVars == <<cached, given, deviceAnswer>>
versionVars == <<versionFile, branchIsNumber, known, receiverTold>>
queryVars == <<deviceVars, versionVars>>

FromPlugin == {"make", "model_number", "imageVersion", "device_type", "friendly_id", "boxIP", "eth_mac"}
FromManufacturer == {"modelName", "hardwareID", "mfgSerialNumber"}
KeptAddresses == {"estb_mac", "wifi_mac"}
Kept == FromManufacturer \cup KeptAddresses

\* Sections that come behind the build type and have a word in success.
BehindBuildType == Kept \cup {"device_type", "friendly_id", "boxIP", "eth_mac"}

ASSUME DeviceQueriesAssumption ==
  /\ Sections \in Seq(FromPlugin \cup Kept \cup {"build_type", "bluetooth_mac"})
  /\ \A i, j \in DOMAIN Sections :
       i < j /\ Sections[j] = "build_type" => Sections[i] \notin BehindBuildType

NoAnswer == [whole |-> FALSE, filled |-> {}, success |-> FALSE]

\* Bound: the version file differs only in behaviours with a call that reads it.
DeviceInit ==
  /\ cached = {} /\ given = {} /\ deviceAnswer = NoAnswer
  /\ versionFile \in IF left["versions"] > 0 THEN BOOLEAN ELSE {TRUE}
  /\ branchIsNumber \in IF left["versions"] > 0 THEN BOOLEAN ELSE {TRUE}
  /\ known = {} /\ receiverTold = "none"

-----------------------------------------------------------------------------
(* GetDeviceInfo.                                                          *)

\* What a section may come to: what it adds to the answer and to what is kept,
\* what it makes of success, and whether the call ends here with an error.
Outcome(filled, keep, success) ==
  [filled |-> filled, cached |-> keep, success |-> success, abort |-> FALSE]

Stopped == [filled |-> {}, cached |-> cached, success |-> FALSE, abort |-> TRUE]

\* DeviceInfo, or for "make" the properties file, has it or not.
PluginSection(s, call) ==
  {Outcome(call.filled \cup {s}, cached, TRUE), Outcome(call.filled, cached, call.success)}

\* Mutant: what was found is not kept.
ForgetfulSection(s, call) ==
  {Outcome(call.filled \cup {s}, cached, TRUE), Outcome(call.filled, cached, call.success)}

\* What is kept and read only behind the look-up: its value and valid flag are
\* one here, as no step reads the value before it has seen the flag.
KeptSection(s, call) == {Outcome(call.filled \cup {s}, cached, TRUE)}

\* The manufacturer library has it or not.
AskLibrary(s, call) ==
  {Outcome(call.filled \cup {s}, cached \cup {s}, TRUE), Outcome(call.filled, cached, call.success)}

\* The two addresses that are kept: an empty one that DeviceInfo gives counts
\* as a success, and is stored over what another call has found meanwhile.
AskForAddress(s, call) ==
  {Outcome(call.filled \cup {s}, cached \cup {s}, TRUE),
   Outcome(call.filled, cached \ {s}, TRUE),
   Outcome(call.filled, cached, call.success)}

\* The build type alone decides over success: what came before is forgotten.
BuildTypeSection(s, call) ==
  {Outcome(call.filled \cup {s}, cached, TRUE), Outcome(call.filled, cached, FALSE)}

\* The script may give an address or none, without a word in success; when it
\* cannot be started the whole call ends.
BluetoothSection(s, call) ==
  {Outcome(call.filled \cup {s}, cached, call.success), Outcome(call.filled, cached, call.success),
   Stopped}

SectionOutcomes(s, call) ==
  CASE s \in FromPlugin -> PluginSection(s, call)
    [] s = "build_type" -> BuildTypeSection(s, call)
    [] s = "bluetooth_mac" -> BluetoothSection(s, call)
    [] s \in Kept /\ ~call.asking -> KeptSection(s, call)
    [] s \in FromManufacturer /\ call.asking -> AskLibrary(s, call)
    [] s \in KeptAddresses /\ call.asking -> AskForAddress(s, call)

AllSections == {Sections[i] : i \in DOMAIN Sections}

\* No query, "all" here, is all of them; a word that is no section is none.
AskedBy(query) ==
  IF query = "all" THEN Sections ELSE IF query \in AllSections THEN <<query>> ELSE <<>>

\* Bad characters, and DeviceInfo not being there, end the call with a message.
GetDeviceInfo(w, query) ==
  /\ \/ /\ "DeviceInfo" \in active
        /\ Start(w, "section", [part |-> "device", todo |-> AskedBy(query), whole |-> query = "all",
                                asking |-> FALSE, filled |-> {}, success |-> FALSE])
        /\ Acquire({"DeviceInfo"})
        /\ Overlaps("device")
        /\ UNCHANGED deviceAnswer
     \/ /\ query \notin AllSections \cup {"all"} \/ "DeviceInfo" \notin active
        /\ Instant(w, "device")
        /\ deviceAnswer' = NoAnswer
        /\ UNCHANGED <<spoiled, refs>>
  /\ UNCHANGED <<active, cached, given, versionVars>>

Answer(call, outcome) ==
  /\ deviceAnswer' = [whole |-> call.whole, filled |-> outcome.filled, success |-> outcome.success]
  /\ given' = given \cup (outcome.filled \cap Kept)

\* What is not kept was looked up before it is asked for.
LookUp(w) ==
  /\ pc[w] = "section" /\ local[w].todo # <<>> /\ ~local[w].asking
  /\ Head(local[w].todo) \in Kept \ cached
  /\ Step(w, "section", [local[w] EXCEPT !.asking = TRUE])
  /\ UNCHANGED <<spoiled, otherVars, queryVars>>

\* Mutant: the reference stays when the script cannot be started.
SectionLeaks(w) ==
  /\ pc[w] = "section" /\ local[w].todo # <<>>
  /\ \E outcome \in SectionOutcomes(Head(local[w].todo), local[w]) :
       /\ Answer(local[w], outcome)
       /\ cached' = outcome.cached
       /\ IF outcome.abort THEN UNCHANGED refs ELSE Release({"DeviceInfo"})
  /\ Finish(w)
  /\ UNCHANGED <<spoiled, active, versionVars>>

\* The call behind a section: with what it came to, at the next section.
Following(call, outcome) ==
  [part |-> "device", todo |-> Tail(call.todo), whole |-> call.whole,
   asking |-> FALSE, filled |-> outcome.filled, success |-> outcome.success]

\* One section.  Behind its look-up, the call that asks for it and the store of
\* what it gave are one step: the call touches nothing that is modelled, and its
\* answer is chosen where it is stored.  The only section asked for gives the
\* reference back by itself.
Section(w) ==
  /\ pc[w] = "section" /\ local[w].todo # <<>>
  /\ LET call == local[w]
         s == Head(call.todo)
     IN /\ s \in Kept => (call.asking \/ s \in cached)
        /\ \E outcome \in SectionOutcomes(s, call) :
             /\ cached' = outcome.cached
             /\ IF call.whole /\ ~outcome.abort
                THEN /\ Step(w, "section", Following(call, outcome))
                     /\ UNCHANGED <<refs, given, deviceAnswer>>
                ELSE /\ Answer(call, outcome)
                     /\ Release({"DeviceInfo"})
                     /\ Finish(w)
  /\ UNCHANGED <<spoiled, active, versionVars>>

\* Behind the last section, or when no section has the name asked for.
ReturnDeviceInfo(w) ==
  /\ pc[w] = "section" /\ local[w].todo = <<>>
  /\ Answer(local[w], local[w])
  /\ Release({"DeviceInfo"})
  /\ Finish(w)
  /\ UNCHANGED <<spoiled, active, cached, versionVars>>

\* The number that is kept, or else one that the library is asked for.
GetMfgSerialNumber(w) ==
  /\ IF "mfgSerialNumber" \in cached
     THEN Instant(w, "serial") /\ given' = given \cup {"mfgSerialNumber"}
     ELSE Start(w, "serial", [part |-> "serial"]) /\ UNCHANGED given
  /\ UNCHANGED <<spoiled, otherVars, cached, deviceAnswer, versionVars>>

\* The same library and the same way to keep what it gave.
KeepSerialNumber(w) ==
  /\ pc[w] = "serial"
  /\ \E found \in SUBSET {"mfgSerialNumber"} :
       cached' = cached \cup found /\ given' = given \cup found
  /\ Finish(w)
  /\ UNCHANGED <<spoiled, otherVars, deviceAnswer, versionVars>>

-----------------------------------------------------------------------------
(* GetSystemVersions.                                                      *)

\* A string that is not found is looked for again by the next call.
Readable(name) == name \in known \/ versionFile

Learn(names) == known' = known \cup {n \in names : versionFile}

\* DeviceInfo's own version comes first, if it is there: getStbVersionString.
GetSystemVersions(w) ==
  LET holds == {"DeviceInfo"} \cap active IN
    /\ Start(w, "stbVersion", [part |-> "versions", holds |-> holds])
    /\ Acquire(holds)
    /\ UNCHANGED <<spoiled, active, queryVars>>

\* Mutant: the branch is looked up in the file every time.
ReadBranchAgain(w) ==
  /\ pc[w] = "stbVersion"
  /\ Release(local[w].holds)
  /\ Step(w, "versions", [part |-> "versions", branch |-> versionFile])
  /\ UNCHANGED <<spoiled, active, queryVars>>

\* The reference goes back with the version or without; then comes the branch.
ReadBranch(w) ==
  /\ pc[w] = "stbVersion"
  /\ Release(local[w].holds)
  /\ Step(w, "versions", [part |-> "versions", branch |-> Readable("branch")])
  /\ Learn({"branch"})
  /\ UNCHANGED <<spoiled, active, deviceVars, versionFile, branchIsNumber, receiverTold>>

\* A branch that is a number is the receiver's version; else the client version.
ReadClientVersion(w) ==
  /\ pc[w] = "versions"
  /\ LET useBranch == local[w].branch /\ branchIsNumber IN
       /\ receiverTold' = IF useBranch THEN "branch"
                          ELSE IF Readable("client") THEN "client" ELSE "unknown"
       /\ Learn(IF useBranch THEN {"timestamp"} ELSE {"client", "timestamp"})
  /\ Finish(w)
  /\ UNCHANGED <<spoiled, otherVars, deviceVars, versionFile, branchIsNumber>>

\* The file appears or goes away; that it does so during a call is written down.
ChangeVersionFile ==
  /\ left["others"] > 0 /\ left' = [left EXCEPT !["others"] = @ - 1]
  /\ versionFile' = ~versionFile
  /\ IF Busy("versions") THEN Spoil("versions", "overlap") ELSE UNCHANGED spoiled
  /\ UNCHANGED <<pc, local, otherVars, deviceVars, branchIsNumber, known, receiverTold>>

DeviceNext ==
  \/ \E w \in Workers, query \in AllSections \cup {"all", "unknown"} : GetDeviceInfo(w, query)
  \/ \E w \in Workers :
       \/ LookUp(w) \/ Section(w) \/ ReturnDeviceInfo(w)
       \/ GetMfgSerialNumber(w) \/ KeepSerialNumber(w)
       \/ GetSystemVersions(w) \/ ReadBranch(w) \/ ReadClientVersion(w)
  \/ ChangeVersionFile

-----------------------------------------------------------------------------
(* Properties.                                                             *)

DeviceTypeOK ==
  /\ cached \subseteq Kept /\ given \subseteq Kept
  /\ known \subseteq {"branch", "client", "timestamp"}
  /\ deviceAnswer.filled \subseteq AllSections

\* A value that an answer has had is kept for the answers after it; only calls
\* that overlap can lose one of the two addresses again.
GivenIsKept ==
  /\ given \cap FromManufacturer \subseteq cached
  /\ given \subseteq cached \/ Met("device", "overlap")

\* An answer to a whole query that reports no success has nothing of the
\* sections behind the build type, except the Bluetooth address that never counts.
FailureHidesNothingLater ==
  deviceAnswer.whole /\ ~deviceAnswer.success =>
    deviceAnswer.filled \cap BehindBuildType = {}

\* A receiver version once told is told again, whatever becomes of the file,
\* unless the file changed in the middle of a call.
ReceiverVersionStays ==
  [][~Met("versions", "overlap") /\ receiverTold \in {"branch", "client"} =>
       receiverTold' = receiverTold]_receiverTold
=============================================================================
