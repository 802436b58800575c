------------------------- MODULE PluginQueriesProofs -------------------------
(***************************************************************************)
(* For any number of threads and requests, any sections and fields that    *)
(* are asked for and however the other plugins come and go: references are *)
(* balanced, what was given is kept, and what answers say is so.           *)
(***************************************************************************)
EXTENDS PluginQueries, FiniteSetTheorems, SequenceTheorems, TLAPS

\* The places of the calls of each part.
CapsPlaces == {"construct", "load"}

VersionsPlaces == {"stbVersion", "versions"}

Places == {"idle", "forward", "section", "serial"} \union VersionsPlaces \union CapsPlaces

DeviceCalls ==
  [part : {"device"}, todo : Seq(AllSections), whole : BOOLEAN, asking : BOOLEAN,
   filled : SUBSET AllSections, success : BOOLEAN]

VersionsCalls == [part : {"versions"}, branch : BOOLEAN]

StbVersionCalls == [part : {"versions"}, holds : SUBSET {"DeviceInfo"}]

\* What the place of a worker says of the call it serves.
CallFits(place, call) ==
  /\ place = "section" => call \in DeviceCalls
  /\ place = "versions" => call \in VersionsCalls
  /\ place = "stbVersion" => call \in StbVersionCalls
  /\ place = "construct" => call.holds = {}

CallsOK ==
  /\ pc \in [Workers -> Places] /\ DOMAIN local = Workers
  /\ \A w \in Workers : CallFits(pc[w], local[w])

\* One worker at most moves, between these places.
Within(places) ==
  /\ spoiled \subseteq spoiled'
  /\ \A v \in Workers :
       \/ pc'[v] = pc[v] /\ local'[v] = local[v]
       \/ {pc[v], pc'[v]} \subseteq places \union {"idle"}

\* No call at these places moves, and none comes to them.
Elsewhere(places) ==
  /\ spoiled \subseteq spoiled'
  /\ \A v \in Workers :
       \/ pc'[v] = pc[v] /\ local'[v] = local[v]
       \/ pc[v] \notin places /\ pc'[v] \notin places

-----------------------------------------------------------------------------
(* Calls.                                                                  *)

LEMMA CallsMove ==
  ASSUME CallsOK, NEW w \in Workers, NEW to \in Places, NEW values, CallFits(to, values),
         pc' = [pc EXCEPT ![w] = to], local' = [local EXCEPT ![w] = values]
  PROVE  /\ CallsOK' /\ pc'[w] = to /\ local'[w] = values
         /\ \A v \in Workers \ {w} : pc'[v] = pc[v] /\ local'[v] = local[v]
<1>1. /\ pc' \in [Workers -> Places] /\ pc'[w] = to
      /\ \A v \in Workers \ {w} : pc'[v] = pc[v]
  BY DEF CallsOK
<1>2. /\ DOMAIN local' = Workers /\ local'[w] = values
      /\ \A v \in Workers \ {w} : local'[v] = local[v]
  BY DEF CallsOK
<1>3. \A v \in Workers : CallFits(pc'[v], local'[v])
  BY <1>1, <1>2 DEF CallsOK
<1>4. QED
  BY <1>1, <1>2, <1>3 DEF CallsOK

LEMMA CallsStay ==
  ASSUME CallsOK, UNCHANGED <<pc, local>>
  PROVE  CallsOK'
  BY DEF CallsOK

LEMMA IdleFits == CallFits("idle", NoCall) /\ "idle" \in Places
  BY DEF CallFits, CapsPlaces, VersionsPlaces, Places

LEMMA OverlapsKeep ==
  ASSUME NEW part
  PROVE  /\ Overlaps(part) => spoiled \subseteq spoiled'
         /\ Overlaps(part) /\ Busy(part) => Met(part, "overlap")'
  BY DEF Overlaps, Spoil, Met

\* The four parts are apart from each other.
LEMMA OthersElsewhere ==
  ASSUME NEW places, Within(places), NEW others, others \intersect (places \union {"idle"}) = {}
  PROVE  Elsewhere(others)
  BY DEF Within, Elsewhere

-----------------------------------------------------------------------------
(* References.                                                             *)

\* The plugins that the call of a worker has a reference to.
HeldBy(place, call) ==
  IF place = "forward" THEN {Target[call.method]}
  ELSE IF place = "section" THEN {"DeviceInfo"}
  ELSE IF place \in CapsPlaces \union {"stbVersion"} THEN call.holds ELSE {}

Held(w) == HeldBy(pc[w], local[w])

Holders(p) == {w \in Workers : p \in Held(w)}

Lenders == Plugins \union {Shell, Controller}

\* A plugin has given as many references as there are calls that hold one.
RefsOK ==
  /\ DOMAIN refs = Lenders
  /\ \A p \in Lenders : IsFiniteSet(Holders(p)) /\ refs[p] = Cardinality(Holders(p))

BaseInv == CallsOK /\ RefsOK /\ active \subseteq Plugins

LEMMA BaseInit ==
  ASSUME RequestsInit, OthersInit
  PROVE  BaseInv
<1>1. CallsOK
  BY IdleFits DEF RequestsInit, CallsOK
<1>2. \A p : Holders(p) = {}
  BY DEF RequestsInit, Holders, Held, HeldBy, CapsPlaces
<1>3. RefsOK
  BY <1>2, FS_EmptySet DEF OthersInit, RefsOK, Lenders
<1>4. QED
  BY <1>1, <1>3 DEF OthersInit, BaseInv

LEMMA HoldersMove ==
  ASSUME NEW w \in Workers,
         \A v \in Workers \ {w} : pc'[v] = pc[v] /\ local'[v] = local[v]
  PROVE  \A p : Holders(p)' = IF p \in Held(w)' THEN Holders(p) \union {w} ELSE Holders(p) \ {w}
  BY DEF Holders, Held

LEMMA RefsMove ==
  ASSUME RefsOK, NEW w \in Workers,
         \A v \in Workers \ {w} : pc'[v] = pc[v] /\ local'[v] = local[v],
         DOMAIN refs' = Lenders,
         \A p \in Lenders :
           refs'[p] = IF p \in Held(w)' THEN IF p \in Held(w) THEN refs[p] ELSE refs[p] + 1
                      ELSE IF p \in Held(w) THEN refs[p] - 1 ELSE refs[p]
  PROVE  RefsOK'
<1> SUFFICES ASSUME NEW p \in Lenders
             PROVE  IsFiniteSet(Holders(p)') /\ refs'[p] = Cardinality(Holders(p)')
  BY DEF RefsOK, Lenders
<1> DEFINE H == Holders(p)
<1>1. IsFiniteSet(H) /\ refs[p] = Cardinality(H) /\ (w \in H <=> p \in Held(w))
  BY DEF RefsOK, Holders
<1>2. Holders(p)' = IF p \in Held(w)' THEN H \union {w} ELSE H \ {w}
  BY HoldersMove
<1> HIDE DEF H
<1>3. /\ IsFiniteSet(H \union {w}) /\ IsFiniteSet(H \ {w})
      /\ Cardinality(H \union {w}) = IF w \in H THEN Cardinality(H) ELSE Cardinality(H) + 1
      /\ Cardinality(H \ {w}) = IF w \in H THEN Cardinality(H) - 1 ELSE Cardinality(H)
  BY <1>1, FS_AddElement, FS_RemoveElement
<1>4. CASE p \in Held(w)'
  BY <1>1, <1>2, <1>3, <1>4
<1>5. CASE p \notin Held(w)'
  BY <1>1, <1>2, <1>3, <1>5
<1>6. QED
  BY <1>4, <1>5

\* A call gets references that it did not have, ...
LEMMA RefsAcquire ==
  ASSUME RefsOK, NEW w \in Workers,
         \A v \in Workers \ {w} : pc'[v] = pc[v] /\ local'[v] = local[v],
         NEW objects, Acquire(objects), objects \intersect Held(w) = {},
         Held(w)' = Held(w) \union objects
  PROVE  RefsOK'
<1>1. /\ DOMAIN refs' = Lenders
      /\ \A p \in Lenders : refs'[p] = IF p \in objects THEN refs[p] + 1 ELSE refs[p]
  BY DEF RefsOK, Acquire
<1>2. QED
  BY <1>1, RefsMove

\* ... gives back all that it has, ...
LEMMA RefsRelease ==
  ASSUME RefsOK, NEW w \in Workers,
         \A v \in Workers \ {w} : pc'[v] = pc[v] /\ local'[v] = local[v],
         Release(Held(w)), Held(w)' = {}
  PROVE  RefsOK'
<1>1. /\ DOMAIN refs' = Lenders
      /\ \A p \in Lenders : refs'[p] = IF p \in Held(w) THEN refs[p] - 1 ELSE refs[p]
  BY DEF RefsOK, Release
<1>2. QED
  BY <1>1, RefsMove

\* ... or keeps it.
LEMMA RefsKeep ==
  ASSUME RefsOK, NEW w \in Workers,
         \A v \in Workers \ {w} : pc'[v] = pc[v] /\ local'[v] = local[v],
         UNCHANGED refs, Held(w)' = Held(w)
  PROVE  RefsOK'
  BY RefsMove DEF RefsOK, Lenders

LEMMA RefsStay ==
  ASSUME RefsOK, UNCHANGED <<pc, local, refs>>
  PROVE  RefsOK'
  BY DEF RefsOK, Holders, Held, Lenders

\* When all workers are idle nothing is held.
LEMMA IdleBalanced == BaseInv => ReferencesBalanced
<1> SUFFICES ASSUME BaseInv, AllIdle, NEW p \in DOMAIN refs PROVE refs[p] = 0
  BY DEF ReferencesBalanced
<1>1. Holders(p) = {}
  BY DEF AllIdle, Holders, Held, HeldBy, CapsPlaces
<1>2. QED
  BY <1>1, FS_EmptySet DEF BaseInv, RefsOK

LEMMA BaseTypes == BaseInv => OthersTypeOK
  BY FS_CardinalityType DEF BaseInv, RefsOK, OthersTypeOK
-----------------------------------------------------------------------------
(* Requests passed on.                                                     *)

StatusNames == DOMAIN stringToStatus

\* The migration status is the one last set, and the one last told.
ForwardInv ==
  /\ ForwardTypeOK
  /\ statusSet \in StatusNames => migrationStatus = stringToStatus[statusSet]
  /\ statusTold # "none" => statusTold = statusToString(migrationStatus)

\* The two tables of the migration status are inverse.
LEMMA TablesInverse ==
  /\ \A s \in StatusNames :
       stringToStatus[s] \in 0 .. 7 /\ statusToString(stringToStatus[s]) = s
  /\ \A n \in 0 .. 7 : statusToString(n) \in StatusNames
  /\ "none" \notin StatusNames
<1>1. StatusNames = {"NOT_STARTED", "NOT_NEEDED", "STARTED", "PRIORITY_SETTINGS_MIGRATED",
                     "DEVICE_SETTINGS_MIGRATED", "CLOUD_SETTINGS_MIGRATED", "APP_DATA_MIGRATED",
                     "MIGRATION_COMPLETED"}
  BY DEF StatusNames, stringToStatus
<1>2. /\ stringToStatus["NOT_STARTED"] = 0 /\ stringToStatus["NOT_NEEDED"] = 1
      /\ stringToStatus["STARTED"] = 2 /\ stringToStatus["PRIORITY_SETTINGS_MIGRATED"] = 3
      /\ stringToStatus["DEVICE_SETTINGS_MIGRATED"] = 4
      /\ stringToStatus["CLOUD_SETTINGS_MIGRATED"] = 5 /\ stringToStatus["APP_DATA_MIGRATED"] = 6
      /\ stringToStatus["MIGRATION_COMPLETED"] = 7
  BY DEF stringToStatus
<1>3. \A s \in StatusNames : stringToStatus[s] \in 0 .. 7
  BY <1>1, <1>2
<1>4. \A s, t \in StatusNames : stringToStatus[s] = stringToStatus[t] => s = t
  BY <1>1, <1>2
<1>5. \A n \in 0 .. 7 : \E s \in StatusNames : stringToStatus[s] = n
  BY <1>1, <1>2
<1>6. ASSUME NEW n \in 0 .. 7
      PROVE  statusToString(n) \in StatusNames /\ stringToStatus[statusToString(n)] = n
  BY <1>5, <1>6 DEF statusToString, StatusNames
<1>7. ASSUME NEW s \in StatusNames
      PROVE  statusToString(stringToStatus[s]) = s
  <2>1. stringToStatus[s] \in 0 .. 7
    BY <1>3
  <2>2. /\ statusToString(stringToStatus[s]) \in StatusNames
        /\ stringToStatus[statusToString(stringToStatus[s])] = stringToStatus[s]
    BY <1>6, <2>1
  <2>3. QED
    BY <1>4, <2>2
<1>8. "none" \notin StatusNames
  BY <1>1
<1>9. QED
  BY <1>3, <1>6, <1>7, <1>8

LEMMA ForwardInitSafe ==
  ASSUME ForwardInit
  PROVE  ForwardInv
  BY TablesInverse DEF ForwardInit, ForwardInv, ForwardTypeOK

LEMMA ForwardStays ==
  ASSUME ForwardInv, UNCHANGED forwardVars
  PROVE  ForwardInv'
  BY DEF ForwardInv, ForwardTypeOK, forwardVars, statusToString

LEMMA ForwardSafe ==
  ASSUME BaseInv, ForwardInv, NEW w \in Workers, NEW method, NEW argument,
         Forward(w, method, argument)
  PROVE  BaseInv' /\ ForwardInv' /\ Within({"forward"})
<1>1. ForwardInv'
  <2>1. UNCHANGED <<migrationStatus, statusSet, statusTold>>
    BY DEF Forward, forwardVars
  <2>2. QED
    BY <2>1 DEF ForwardInv, ForwardTypeOK, statusToString
<1>2. CASE Target[method] \in active
  <2> DEFINE values == [part |-> "forward", method |-> method, argument |-> argument]
  <2>1. /\ pc[w] = "idle" /\ pc' = [pc EXCEPT ![w] = "forward"]
        /\ local' = [local EXCEPT ![w] = values]
        /\ Acquire({Target[method]}) /\ Overlaps("forward") /\ UNCHANGED active
    BY <1>2 DEF Forward, Start
  <2>2. values.method = method
    OBVIOUS
  <2> HIDE DEF values
  <2>3. CallFits("forward", values) /\ "forward" \in Places
    BY DEF CallFits, CapsPlaces, VersionsPlaces, Places
  <2>4. /\ CallsOK' /\ pc'[w] = "forward" /\ local'[w] = values
        /\ \A v \in Workers \ {w} : pc'[v] = pc[v] /\ local'[v] = local[v]
    BY <2>1, <2>3, CallsMove DEF BaseInv
  <2>5. Held(w) = {} /\ Held(w)' = {Target[method]}
    BY <2>1, <2>2, <2>4 DEF Held, HeldBy, CapsPlaces
  <2>6. RefsOK'
    BY <2>1, <2>4, <2>5, RefsAcquire DEF BaseInv
  <2>7. Within({"forward"})
    BY <2>1, <2>4, OverlapsKeep DEF Within
  <2>8. QED
    BY <1>1, <2>1, <2>4, <2>6, <2>7 DEF BaseInv
<1>3. CASE Target[method] \notin active
  <2>1. UNCHANGED <<pc, local, spoiled, active, refs>>
    BY <1>3 DEF Forward, Instant, otherVars
  <2>2. QED
    BY <1>1, <2>1, CallsStay, RefsStay DEF BaseInv, Within
<1>4. QED
  BY <1>2, <1>3

\* A call gives back what it holds and comes to its end.
LEMMA BaseFinish ==
  ASSUME BaseInv, NEW w \in Workers, Finish(w), Release(Held(w)), UNCHANGED <<active, spoiled>>
  PROVE  /\ BaseInv' /\ pc'[w] = "idle"
         /\ \A v \in Workers \ {w} : pc'[v] = pc[v] /\ local'[v] = local[v]
<1>1. pc' = [pc EXCEPT ![w] = "idle"] /\ local' = [local EXCEPT ![w] = NoCall]
  BY DEF Finish, Step
<1>2. /\ CallsOK' /\ pc'[w] = "idle"
      /\ \A v \in Workers \ {w} : pc'[v] = pc[v] /\ local'[v] = local[v]
  BY <1>1, IdleFits, CallsMove DEF BaseInv
<1>3. Held(w)' = {}
  BY <1>2 DEF Held, HeldBy, CapsPlaces
<1>4. RefsOK'
  BY <1>2, <1>3, RefsRelease DEF BaseInv
<1>5. QED
  BY <1>2, <1>4 DEF BaseInv

LEMMA RelaySafe ==
  ASSUME BaseInv, ForwardInv, NEW w \in Workers, Relay(w)
  PROVE  BaseInv' /\ ForwardInv' /\ Within({"forward"})
<1>1. /\ pc[w] = "forward" /\ Release({Target[local[w].method]}) /\ Finish(w)
      /\ UNCHANGED <<spoiled, active>>
  BY DEF Relay
<1>2. Held(w) = {Target[local[w].method]}
  BY <1>1 DEF Held, HeldBy
<1>3. /\ BaseInv' /\ pc'[w] = "idle"
      /\ \A v \in Workers \ {w} : pc'[v] = pc[v] /\ local'[v] = local[v]
  BY <1>1, <1>2, BaseFinish
<1>4. Within({"forward"})
  BY <1>1, <1>3 DEF Within
<1>5. ForwardInv'
  <2>1. \/ UNCHANGED <<migrationStatus, statusSet, statusTold>>
        \/ /\ migrationStatus' = StatusOf(local[w].argument)
           /\ statusSet' = local[w].argument /\ statusTold' = "none"
        \/ /\ UNCHANGED <<migrationStatus, statusSet>>
           /\ statusTold' = statusToString(migrationStatus)
    BY DEF Relay
  <2>2. CASE UNCHANGED <<migrationStatus, statusSet, statusTold>>
    BY <2>2 DEF ForwardInv, ForwardTypeOK, statusToString
  <2>3. CASE /\ migrationStatus' = StatusOf(local[w].argument)
             /\ statusSet' = local[w].argument /\ statusTold' = "none"
    BY <2>3, TablesInverse DEF ForwardInv, ForwardTypeOK, StatusOf, StatusNames
  <2>4. CASE UNCHANGED <<migrationStatus, statusSet>> /\ statusTold' = statusToString(migrationStatus)
    BY <2>4, TablesInverse DEF ForwardInv, ForwardTypeOK, statusToString, StatusNames
  <2>5. QED
    BY <2>1, <2>2, <2>3, <2>4
<1>6. QED
  BY <1>3, <1>4, <1>5

LEMMA ForwardNextSafe ==
  ASSUME BaseInv, ForwardInv, ForwardNext
  PROVE  BaseInv' /\ ForwardInv' /\ Within({"forward"})
  BY ForwardSafe, RelaySafe DEF ForwardNext

LEMMA ForwardTells == ForwardInv => ForwardTypeOK /\ StatusToldIsStatusSet
  BY TablesInverse DEF ForwardInv, StatusToldIsStatusSet, StatusNames

-----------------------------------------------------------------------------
(* The versions.                                                           *)

\* While the file does not change in the middle of a call: a call knows the
\* branch just if it is kept, the client version is kept only next to the
\* branch, and what was told is still what would be told.
VersionsInv ==
  /\ known \subseteq {"branch", "client", "timestamp"}
  /\ ~Met("versions", "overlap") =>
       /\ \A w \in Workers : pc[w] = "versions" =>
            /\ local[w].branch <=> "branch" \in known
            /\ versionFile => "branch" \in known
       /\ "client" \in known => "branch" \in known
       /\ receiverTold = "branch" => branchIsNumber /\ "branch" \in known
       /\ receiverTold = "client" => ~branchIsNumber /\ "client" \in known

LEMMA VersionsInitSafe ==
  ASSUME RequestsInit, DeviceInit
  PROVE  VersionsInv
  BY DEF RequestsInit, DeviceInit, VersionsInv

LEMMA VersionsStay ==
  ASSUME VersionsInv, UNCHANGED versionVars, Elsewhere({"versions"})
  PROVE  VersionsInv'
<1>1. UNCHANGED <<versionFile, branchIsNumber, known, receiverTold>>
  BY DEF versionVars
<1>2. Met("versions", "overlap") => Met("versions", "overlap")'
  BY DEF Elsewhere, Met
<1>3. \A w \in Workers : pc'[w] = "versions" => pc[w] = "versions" /\ local'[w] = local[w]
  BY DEF Elsewhere
<1>4. QED
  BY <1>1, <1>2, <1>3 DEF VersionsInv

\* A call starts with a reference to DeviceInfo, if it is there.
LEMMA GetSystemVersionsSafe ==
  ASSUME BaseInv, VersionsInv, NEW w \in Workers, GetSystemVersions(w)
  PROVE  BaseInv' /\ VersionsInv' /\ Within(VersionsPlaces) /\ UNCHANGED queryVars
<1> DEFINE holds == {"DeviceInfo"} \intersect active
<1> DEFINE values == [part |-> "versions", holds |-> holds]
<1>1. /\ pc[w] = "idle" /\ pc' = [pc EXCEPT ![w] = "stbVersion"]
      /\ local' = [local EXCEPT ![w] = values]
      /\ Acquire(holds) /\ UNCHANGED <<spoiled, active, queryVars>>
  BY DEF GetSystemVersions, Start
<1>2. values \in StbVersionCalls /\ values.holds = holds
  BY DEF StbVersionCalls
<1> HIDE DEF values, holds
<1>3. CallFits("stbVersion", values) /\ "stbVersion" \in Places
  BY <1>2 DEF CallFits, CapsPlaces, VersionsPlaces, Places
<1>4. /\ CallsOK' /\ pc'[w] = "stbVersion" /\ local'[w] = values
      /\ \A v \in Workers \ {w} : pc'[v] = pc[v] /\ local'[v] = local[v]
  BY <1>1, <1>3, CallsMove DEF BaseInv
<1>5. Held(w) = {} /\ Held(w)' = holds
  BY <1>1, <1>2, <1>4 DEF Held, HeldBy, CapsPlaces
<1>6. BaseInv'
  BY <1>1, <1>4, <1>5, RefsAcquire DEF BaseInv
<1>7. Within(VersionsPlaces) /\ Elsewhere({"versions"})
  BY <1>1, <1>4 DEF Within, Elsewhere, VersionsPlaces
<1>8. UNCHANGED versionVars
  BY <1>1 DEF queryVars
<1>9. QED
  BY <1>1, <1>6, <1>7, <1>8, VersionsStay

\* The reference is given back, and the branch is read.
LEMMA ReadBranchSafe ==
  ASSUME BaseInv, VersionsInv, NEW w \in Workers, ReadBranch(w)
  PROVE  BaseInv' /\ VersionsInv' /\ Within(VersionsPlaces) /\ UNCHANGED deviceVars
<1> DEFINE values == [part |-> "versions", branch |-> Readable("branch")]
<1>1. /\ pc[w] = "stbVersion" /\ pc' = [pc EXCEPT ![w] = "versions"]
      /\ local' = [local EXCEPT ![w] = values] /\ Release(local[w].holds)
      /\ UNCHANGED <<spoiled, active, deviceVars, versionFile, branchIsNumber, receiverTold>>
      /\ known' = known \union {n \in {"branch"} : versionFile}
  BY DEF ReadBranch, Step, Learn
<1>2. values \in VersionsCalls /\ values.branch = Readable("branch")
  BY DEF VersionsCalls, Readable
<1> HIDE DEF values
<1>3. CallFits("versions", values) /\ "versions" \in Places
  BY <1>2 DEF CallFits, CapsPlaces, VersionsPlaces, Places
<1>4. /\ CallsOK' /\ pc'[w] = "versions" /\ local'[w] = values
      /\ \A v \in Workers \ {w} : pc'[v] = pc[v] /\ local'[v] = local[v]
  BY <1>1, <1>3, CallsMove DEF BaseInv
<1>5. BaseInv'
  <2>1. Held(w) = local[w].holds /\ Held(w)' = {}
    BY <1>1, <1>4 DEF Held, HeldBy, CapsPlaces
  <2>2. QED
    BY <1>1, <1>4, <2>1, RefsRelease DEF BaseInv
<1>6. VersionsInv'
  <2>1. known' \subseteq {"branch", "client", "timestamp"} /\ known \subseteq known'
        /\ ("client" \in known' => "client" \in known)
    BY <1>1 DEF VersionsInv
  <2>2. /\ "branch" \in known' <=> Readable("branch")
        /\ versionFile => "branch" \in known'
    BY <1>1 DEF Readable
  <2>3. ~Met("versions", "overlap")' => ~Met("versions", "overlap")
    BY <1>1 DEF Met
  <2>4. ASSUME ~Met("versions", "overlap"), NEW v \in Workers, pc'[v] = "versions"
        PROVE  (local'[v].branch <=> "branch" \in known') /\ (versionFile' => "branch" \in known')
    <3>1. CASE v = w
      BY <1>1, <1>2, <1>4, <2>2, <3>1
    <3>2. CASE v # w
      <4>1. /\ pc[v] = "versions" /\ local'[v] = local[v]
            /\ local[v].branch <=> "branch" \in known
            /\ versionFile => "branch" \in known
        BY <1>4, <2>4, <3>2 DEF VersionsInv
      <4>2. "branch" \in known' <=> "branch" \in known
        BY <2>1, <2>2, <4>1 DEF Readable
      <4>3. QED
        BY <1>1, <4>1, <4>2
    <3>3. QED
      BY <3>1, <3>2
  <2>5. QED
    BY <1>1, <2>1, <2>3, <2>4 DEF VersionsInv
<1>7. Within(VersionsPlaces)
  BY <1>1, <1>4 DEF Within, VersionsPlaces
<1>8. QED
  BY <1>1, <1>5, <1>6, <1>7

\* What the last event said of the receiver, this call says again.
LEMMA ReadClientVersionSafe ==
  ASSUME BaseInv, VersionsInv, NEW w \in Workers, ReadClientVersion(w)
  PROVE  /\ BaseInv' /\ VersionsInv' /\ Within(VersionsPlaces) /\ UNCHANGED deviceVars
         /\ ~Met("versions", "overlap") /\ receiverTold \in {"branch", "client"} =>
              receiverTold' = receiverTold
<1> DEFINE useBranch == local[w].branch /\ branchIsNumber
<1>1. /\ pc[w] = "versions" /\ Finish(w)
      /\ UNCHANGED <<spoiled, active, refs, deviceVars, versionFile, branchIsNumber>>
  BY DEF ReadClientVersion, otherVars
<1>2. receiverTold' = IF useBranch THEN "branch"
                      ELSE IF "client" \in known \/ versionFile THEN "client" ELSE "unknown"
  BY DEF ReadClientVersion, Readable
<1>3. known' = known \union
        {n \in IF useBranch THEN {"timestamp"} ELSE {"client", "timestamp"} : versionFile}
  BY DEF ReadClientVersion, Learn
<1>4. pc' = [pc EXCEPT ![w] = "idle"] /\ local' = [local EXCEPT ![w] = NoCall]
  BY <1>1 DEF Finish, Step
<1>5. /\ CallsOK' /\ pc'[w] = "idle"
      /\ \A v \in Workers \ {w} : pc'[v] = pc[v] /\ local'[v] = local[v]
  BY <1>4, IdleFits, CallsMove DEF BaseInv
<1>6. BaseInv'
  <2>1. Held(w) = {} /\ Held(w)' = {}
    BY <1>1, <1>5 DEF Held, HeldBy, CapsPlaces
  <2>2. QED
    BY <1>1, <1>5, <2>1, RefsKeep DEF BaseInv
<1>7. Within(VersionsPlaces)
  BY <1>1, <1>5 DEF Within, VersionsPlaces
<1>8. /\ known' \subseteq {"branch", "client", "timestamp"} /\ known \subseteq known'
      /\ "branch" \in known' <=> "branch" \in known
      /\ "client" \in known' <=> "client" \in known \/ (versionFile /\ ~useBranch)
  BY <1>3 DEF VersionsInv
<1>9. ~Met("versions", "overlap") =>
        /\ local[w].branch <=> "branch" \in known
        /\ versionFile => "branch" \in known
        /\ "client" \in known => "branch" \in known
        /\ receiverTold = "branch" => branchIsNumber /\ "branch" \in known
        /\ receiverTold = "client" => ~branchIsNumber /\ "client" \in known
  BY <1>1 DEF VersionsInv
<1>10. ~Met("versions", "overlap") /\ receiverTold \in {"branch", "client"} =>
         receiverTold' = receiverTold
  BY <1>2, <1>9
<1>11. VersionsInv'
  <2>1. ~Met("versions", "overlap")' => ~Met("versions", "overlap")
    BY <1>1 DEF Met
  <2>2. \A v \in Workers : pc'[v] = "versions" => pc[v] = "versions" /\ local'[v] = local[v]
    BY <1>5
  <2>3. ~Met("versions", "overlap") =>
          \A v \in Workers : pc'[v] = "versions" =>
            (local'[v].branch <=> "branch" \in known') /\ (versionFile' => "branch" \in known')
    BY <1>1, <1>8, <2>2 DEF VersionsInv
  <2>4. ~Met("versions", "overlap") =>
          /\ "client" \in known' => "branch" \in known'
          /\ receiverTold' = "branch" => branchIsNumber /\ "branch" \in known'
          /\ receiverTold' = "client" => ~branchIsNumber /\ "client" \in known'
    BY <1>2, <1>8, <1>9
  <2>5. QED
    BY <1>1, <1>8, <2>1, <2>3, <2>4 DEF VersionsInv
<1>12. QED
  BY <1>1, <1>6, <1>7, <1>10, <1>11

LEMMA ChangeVersionFileSafe ==
  ASSUME BaseInv, VersionsInv, ChangeVersionFile
  PROVE  BaseInv' /\ VersionsInv' /\ Within(VersionsPlaces) /\ UNCHANGED deviceVars
<1>1. /\ UNCHANGED <<pc, local, active, refs, deviceVars, branchIsNumber, known, receiverTold>>
      /\ IF Busy("versions") THEN Spoil("versions", "overlap") ELSE UNCHANGED spoiled
  BY DEF ChangeVersionFile, otherVars
<1>2. spoiled \subseteq spoiled' /\ (Busy("versions") => Met("versions", "overlap")')
  BY <1>1 DEF Spoil, Met
<1>3. BaseInv' /\ Within(VersionsPlaces)
  BY <1>1, <1>2, CallsStay, RefsStay DEF BaseInv, Within
<1>4. \A w \in Workers : pc[w] = "versions" => Busy("versions")
  BY DEF Busy, BaseInv, CallsOK, CallFits, VersionsCalls
<1>5. VersionsInv'
  BY <1>1, <1>2, <1>4 DEF VersionsInv, Met
<1>6. QED
  BY <1>1, <1>3, <1>5

-----------------------------------------------------------------------------
(* The device query.                                                       *)

\* No section that comes behind the build type is left in front of it.
Late(todo) ==
  \A i, j \in 1 .. Len(todo) : i < j /\ todo[j] = "build_type" => todo[i] \notin BehindBuildType

Has(todo, s) == \E i \in 1 .. Len(todo) : todo[i] = s

\* Once a section behind the build type is found, success cannot be lost.
InOrder(call) ==
  /\ call.asking => call.todo # <<>> /\ Head(call.todo) \in Kept
  /\ call.whole => Late(call.todo)
  /\ call.whole /\ call.filled \intersect BehindBuildType # {} =>
       call.success /\ ~Has(call.todo, "build_type")

\* One of the two addresses is asked for.
AsksAddress(call) == call.asking /\ Head(call.todo) \in KeptAddresses

\* What the library gave is kept; without an overlap the addresses are, too.
DeviceInv ==
  /\ DeviceTypeOK /\ FailureHidesNothingLater
  /\ given \intersect FromManufacturer \subseteq cached
  /\ \A w \in Workers : pc[w] = "section" =>
       InOrder(local[w]) /\ local[w].filled \intersect FromManufacturer \subseteq cached
  /\ ~Met("device", "overlap") =>
       /\ \A v, w \in Workers : pc[v] = "section" /\ pc[w] = "section" => v = w
       /\ given \subseteq cached
       /\ \A w \in Workers : pc[w] = "section" =>
            /\ local[w].filled \intersect Kept \subseteq cached
            /\ AsksAddress(local[w]) => Head(local[w].todo) \notin cached

LEMMA DeviceInitSafe ==
  ASSUME RequestsInit, DeviceInit
  PROVE  DeviceInv
  BY DEF RequestsInit, DeviceInit, NoAnswer, DeviceInv, DeviceTypeOK, FailureHidesNothingLater

LEMMA DeviceStays ==
  ASSUME DeviceInv, known' \subseteq {"branch", "client", "timestamp"},
         UNCHANGED deviceVars, Elsewhere({"section"})
  PROVE  DeviceInv'
<1>1. UNCHANGED <<cached, given, deviceAnswer>>
  BY DEF deviceVars
<1>2. Met("device", "overlap") => Met("device", "overlap")'
  BY DEF Elsewhere, Met
<1>3. \A w \in Workers : pc'[w] = "section" => pc[w] = "section" /\ local'[w] = local[w]
  BY DEF Elsewhere
<1>4. DeviceTypeOK' /\ FailureHidesNothingLater'
  BY <1>1 DEF DeviceInv, DeviceTypeOK, FailureHidesNothingLater
<1>5. QED
  BY <1>1, <1>2, <1>3, <1>4 DEF DeviceInv

\* One worker takes a step of a device query.
LEMMA DeviceMove ==
  ASSUME DeviceInv, NEW w \in Workers, spoiled \subseteq spoiled',
         \A v \in Workers \ {w} : pc'[v] = pc[v] /\ local'[v] = local[v],
         DeviceTypeOK', FailureHidesNothingLater',
         cached \intersect FromManufacturer \subseteq cached',
         given' \intersect FromManufacturer \subseteq cached',
         pc'[w] = "section" =>
           InOrder(local'[w]) /\ local'[w].filled \intersect FromManufacturer \subseteq cached',
         ~Met("device", "overlap")' =>
           /\ given' \subseteq cached'
           /\ pc'[w] = "section" =>
                /\ \A v \in Workers \ {w} : pc[v] # "section"
                /\ local'[w].filled \intersect Kept \subseteq cached'
                /\ AsksAddress(local'[w]) => Head(local'[w].todo) \notin cached'
           /\ \A v \in Workers \ {w} : pc[v] = "section" =>
                cached \subseteq cached' /\ cached' \subseteq cached \union FromManufacturer
  PROVE  DeviceInv'
<1>1. Met("device", "overlap") => Met("device", "overlap")'
  BY DEF Met
<1>2. KeptAddresses \intersect FromManufacturer = {}
  BY DEF KeptAddresses, FromManufacturer
<1>3. ASSUME NEW v \in Workers, pc'[v] = "section"
      PROVE  InOrder(local'[v]) /\ local'[v].filled \intersect FromManufacturer \subseteq cached'
  BY <1>3 DEF DeviceInv
<1>4. ASSUME ~Met("device", "overlap")', NEW v \in Workers, pc'[v] = "section"
      PROVE  /\ \A u \in Workers : pc'[u] = "section" => u = v
             /\ local'[v].filled \intersect Kept \subseteq cached'
             /\ AsksAddress(local'[v]) => Head(local'[v].todo) \notin cached'
  <2>1. CASE v = w
    BY <1>4, <2>1
  <2>2. CASE v # w
    <3>1. /\ pc[v] = "section" /\ local'[v] = local[v]
          /\ \A u \in Workers : pc[u] = "section" => u = v
          /\ local[v].filled \intersect Kept \subseteq cached
          /\ AsksAddress(local[v]) => Head(local[v].todo) \notin cached
      BY <1>1, <1>4, <2>2 DEF DeviceInv
    <3>2. cached \subseteq cached' /\ cached' \subseteq cached \union FromManufacturer
      BY <1>4, <2>2, <3>1
    <3>3. pc'[w] # "section"
      BY <1>4, <2>2, <3>1
    <3>4. AsksAddress(local[v]) => Head(local[v].todo) \notin cached'
      BY <1>2, <3>1, <3>2 DEF AsksAddress
    <3>5. QED
      BY <3>1, <3>2, <3>3, <3>4
  <2>3. QED
    BY <2>1, <2>2
<1>5. QED
  BY <1>3, <1>4 DEF DeviceInv

LEMMA SectionsAreSections ==
  /\ Sections \in Seq(AllSections) /\ Late(Sections)
  /\ \A query : AskedBy(query) \in Seq(AllSections)
<1>1. Sections \in Seq(FromPlugin \union Kept \union {"build_type", "bluetooth_mac"})
  BY DeviceQueriesAssumption
<1>2. DOMAIN Sections = 1 .. Len(Sections) /\ Len(Sections) \in Nat
  BY <1>1
<1>3. Sections \in [1 .. Len(Sections) -> AllSections]
  BY <1>1, <1>2 DEF AllSections
<1>4. Sections \in Seq(AllSections)
  BY <1>2, <1>3
<1>5. Late(Sections)
  BY <1>2, DeviceQueriesAssumption DEF Late
<1>6. \A query : AskedBy(query) \in Seq(AllSections)
  BY <1>4 DEF AskedBy
<1>7. QED
  BY <1>4, <1>5, <1>6

LEMMA TailInOrder ==
  ASSUME NEW todo \in Seq(AllSections), todo # <<>>
  PROVE  /\ Head(todo) \in AllSections /\ Tail(todo) \in Seq(AllSections)
         /\ Late(todo) => Late(Tail(todo))
         /\ ~Has(todo, "build_type") => ~Has(Tail(todo), "build_type") /\ Head(todo) # "build_type"
         /\ Late(todo) /\ Head(todo) \in BehindBuildType => ~Has(Tail(todo), "build_type")
<1>1. /\ Len(todo) \in Nat \ {0} /\ Head(todo) = todo[1] /\ Head(todo) \in AllSections
      /\ Tail(todo) \in Seq(AllSections) /\ Len(Tail(todo)) = Len(todo) - 1
      /\ \A i \in 1 .. Len(Tail(todo)) : Tail(todo)[i] = todo[i + 1]
  BY HeadTailProperties, EmptySeq, LenProperties
<1>2. \A i \in 1 .. Len(Tail(todo)) : i + 1 \in 1 .. Len(todo) /\ 1 < i + 1
  BY <1>1
<1>3. 1 \in 1 .. Len(todo)
  BY <1>1
<1>4. Late(todo) => Late(Tail(todo))
  BY <1>1, <1>2 DEF Late
<1>5. ~Has(todo, "build_type") => ~Has(Tail(todo), "build_type") /\ Head(todo) # "build_type"
  BY <1>1, <1>2, <1>3 DEF Has
<1>6. Late(todo) /\ Head(todo) \in BehindBuildType => ~Has(Tail(todo), "build_type")
  BY <1>1, <1>2, <1>3 DEF Late, Has
<1>7. QED
  BY <1>1, <1>4, <1>5, <1>6

\* What a section may make of a call: the sections filled and kept, and success.
Fits(filled, keep, success, abort, s, call) ==
  /\ filled \subseteq call.filled \union {s} /\ success \in BOOLEAN
  /\ abort = TRUE => filled = {}
  /\ \/ success = TRUE \/ s = "build_type" \/ filled \intersect BehindBuildType = {}
     \/ /\ filled \intersect BehindBuildType = call.filled \intersect BehindBuildType
        /\ success = call.success
  /\ filled \intersect Kept \subseteq call.filled \union keep
  /\ keep \subseteq Kept
  /\ \/ cached \subseteq keep
     \/ call.asking /\ s \in KeptAddresses /\ keep = cached \ {s}

Fitting(outcome, s, call) ==
  Fits(outcome.filled, outcome.cached, outcome.success, outcome.abort, s, call)

LEMMA FieldsFit ==
  ASSUME NEW filled, NEW keep, NEW success, NEW abort, NEW s, NEW call,
         Fits(filled, keep, success, abort, s, call), NEW outcome,
         outcome.filled = filled, outcome.cached = keep,
         outcome.success = success, outcome.abort = abort
  PROVE  Fitting(outcome, s, call)
<1>1. Fits(outcome.filled, outcome.cached, outcome.success, outcome.abort, s, call)
  BY DEF Fits
<1>2. QED
  BY <1>1 DEF Fitting

LEMMA OutcomeFits ==
  ASSUME NEW filled, NEW keep, NEW success, NEW s, NEW call,
         Fits(filled, keep, success, FALSE, s, call)
  PROVE  Fitting(Outcome(filled, keep, success), s, call)
<1> DEFINE outcome == Outcome(filled, keep, success)
<1>1. /\ outcome.filled = filled /\ outcome.cached = keep
      /\ outcome.success = success /\ outcome.abort = FALSE
  BY DEF Outcome
<1> HIDE DEF outcome
<1>2. Fitting(outcome, s, call)
  BY <1>1, FieldsFit, Zenon
<1>3. QED
  BY <1>2 DEF outcome

LEMMA FoundFits ==
  ASSUME cached \subseteq Kept, NEW call, NEW s, NEW keep,
         cached \subseteq keep, keep \subseteq Kept, s \in Kept => s \in keep
  PROVE  Fitting(Outcome(call.filled \union {s}, keep, TRUE), s, call)
<1>1. Fits(call.filled \union {s}, keep, TRUE, FALSE, s, call)
  BY DEF Fits
<1>2. QED
  BY <1>1, OutcomeFits, Zenon

LEMMA SameFits ==
  ASSUME cached \subseteq Kept, NEW call \in DeviceCalls, NEW s
  PROVE  Fitting(Outcome(call.filled, cached, call.success), s, call)
<1>0. call.success \in BOOLEAN
  BY DEF DeviceCalls
<1>1. Fits(call.filled, cached, call.success, FALSE, s, call)
  BY <1>0, Zenon DEF Fits
<1>2. QED
  BY <1>1, OutcomeFits, Zenon

LEMMA EmptyFits ==
  ASSUME cached \subseteq Kept, NEW call, NEW s \in KeptAddresses, call.asking
  PROVE  Fitting(Outcome(call.filled, cached \ {s}, TRUE), s, call)
<1>1. Fits(call.filled, cached \ {s}, TRUE, FALSE, s, call)
  BY DEF Fits
<1>2. QED
  BY <1>1, OutcomeFits, Zenon

LEMMA BuildTypeFits ==
  ASSUME cached \subseteq Kept, NEW call
  PROVE  Fitting(Outcome(call.filled, cached, FALSE), "build_type", call)
<1>1. Fits(call.filled, cached, FALSE, FALSE, "build_type", call)
  BY DEF Fits
<1>2. QED
  BY <1>1, OutcomeFits, Zenon

LEMMA BluetoothFits ==
  ASSUME cached \subseteq Kept, NEW call \in DeviceCalls
  PROVE  /\ Fitting(Outcome(call.filled \union {"bluetooth_mac"}, cached, call.success),
                    "bluetooth_mac", call)
         /\ Fitting(Stopped, "bluetooth_mac", call)
<1>0. call.success \in BOOLEAN
  BY DEF DeviceCalls
<1>1. "bluetooth_mac" \notin BehindBuildType /\ "bluetooth_mac" \notin Kept
  BY DEF BehindBuildType, Kept, FromManufacturer, KeptAddresses
<1>2. Fits(call.filled \union {"bluetooth_mac"}, cached, call.success, FALSE,
           "bluetooth_mac", call)
  <2>1. (call.filled \union {"bluetooth_mac"}) \intersect BehindBuildType
          = call.filled \intersect BehindBuildType
    BY <1>1
  <2>2. (call.filled \union {"bluetooth_mac"}) \intersect Kept \subseteq call.filled \union cached
    BY <1>1
  <2>3. QED
    BY <1>0, <2>1, <2>2, Zenon DEF Fits
<1>3. Fits({}, cached, FALSE, TRUE, "bluetooth_mac", call)
  BY DEF Fits
<1>4. Fitting(Stopped, "bluetooth_mac", call)
  <2>1. /\ Stopped.filled = {} /\ Stopped.cached = cached
        /\ Stopped.success = FALSE /\ Stopped.abort = TRUE
    BY DEF Stopped
  <2>2. QED
    BY <1>3, <2>1, FieldsFit, Zenon
<1>5. QED
  BY <1>2, <1>4, OutcomeFits, Zenon

LEMMA SectionsFit ==
  ASSUME cached \subseteq Kept, NEW call \in DeviceCalls, NEW s \in AllSections,
         s \in Kept => (call.asking \/ s \in cached), call.asking => s \in Kept,
         NEW outcome \in SectionOutcomes(s, call)
  PROVE  Fitting(outcome, s, call)
<1>1. s \in FromPlugin \union FromManufacturer \union KeptAddresses
                  \union {"build_type", "bluetooth_mac"}
  <2>1. Sections \in Seq(FromPlugin \union Kept \union {"build_type", "bluetooth_mac"})
    BY DeviceQueriesAssumption
  <2>2. \A i \in DOMAIN Sections :
          Sections[i] \in FromPlugin \union Kept \union {"build_type", "bluetooth_mac"}
    BY <2>1
  <2>3. QED
    BY <2>2 DEF AllSections, Kept
<1>2. s \in Kept <=> s \in FromManufacturer \union KeptAddresses
  BY DEF Kept
<1>3. CASE call.asking /\ s \in KeptAddresses
  <2>1. SectionOutcomes(s, call) = AskForAddress(s, call)
    BY <1>3 DEF SectionOutcomes, FromPlugin, Kept, FromManufacturer, KeptAddresses
  <2>2. \/ outcome = Outcome(call.filled \union {s}, cached \union {s}, TRUE)
        \/ outcome = Outcome(call.filled, cached \ {s}, TRUE)
        \/ outcome = Outcome(call.filled, cached, call.success)
    BY <2>1 DEF AskForAddress
  <2>3. Fitting(Outcome(call.filled \union {s}, cached \union {s}, TRUE), s, call)
    BY <1>2, <1>3, FoundFits
  <2>4. QED
    BY <1>3, <2>2, <2>3, EmptyFits, SameFits
<1>4. CASE s \in FromPlugin
  <2>1. SectionOutcomes(s, call) = PluginSection(s, call) /\ s \notin Kept
    BY <1>4 DEF SectionOutcomes, FromPlugin, Kept, FromManufacturer, KeptAddresses
  <2>2. \/ outcome = Outcome(call.filled \union {s}, cached, TRUE)
        \/ outcome = Outcome(call.filled, cached, call.success)
    BY <2>1 DEF PluginSection
  <2>3. Fitting(Outcome(call.filled \union {s}, cached, TRUE), s, call)
    BY <2>1, FoundFits
  <2>4. QED
    BY <2>2, <2>3, SameFits
<1>5. CASE call.asking /\ s \in FromManufacturer
  <2>1. SectionOutcomes(s, call) = AskLibrary(s, call)
    BY <1>5 DEF SectionOutcomes, FromPlugin, Kept, FromManufacturer, KeptAddresses
  <2>2. \/ outcome = Outcome(call.filled \union {s}, cached \union {s}, TRUE)
        \/ outcome = Outcome(call.filled, cached, call.success)
    BY <2>1 DEF AskLibrary
  <2>3. Fitting(Outcome(call.filled \union {s}, cached \union {s}, TRUE), s, call)
    BY <1>2, <1>5, FoundFits
  <2>4. QED
    BY <2>2, <2>3, SameFits
<1>6. CASE s = "build_type"
  <2>1. SectionOutcomes(s, call) = BuildTypeSection(s, call) /\ s \notin Kept
    BY <1>6 DEF SectionOutcomes, FromPlugin, Kept, FromManufacturer, KeptAddresses
  <2>2. \/ outcome = Outcome(call.filled \union {s}, cached, TRUE)
        \/ outcome = Outcome(call.filled, cached, FALSE)
    BY <2>1 DEF BuildTypeSection
  <2>3. Fitting(Outcome(call.filled \union {s}, cached, TRUE), s, call)
    BY <2>1, FoundFits
  <2>4. QED
    BY <1>6, <2>2, <2>3, BuildTypeFits
<1>7. CASE s = "bluetooth_mac"
  <2>1. SectionOutcomes(s, call) = BluetoothSection(s, call)
    BY <1>7 DEF SectionOutcomes, FromPlugin, Kept, FromManufacturer, KeptAddresses
  <2>2. \/ outcome = Outcome(call.filled \union {s}, cached, call.success)
        \/ outcome = Outcome(call.filled, cached, call.success)
        \/ outcome = Stopped
    BY <2>1 DEF BluetoothSection
  <2>3. QED
    BY <1>7, <2>2, BluetoothFits, SameFits
<1>8. CASE ~call.asking /\ s \in Kept
  <2>1. SectionOutcomes(s, call) = KeptSection(s, call)
    BY <1>8 DEF SectionOutcomes, FromPlugin, Kept, FromManufacturer, KeptAddresses
  <2>2. outcome = Outcome(call.filled \union {s}, cached, TRUE)
    BY <2>1 DEF KeptSection
  <2>3. QED
    BY <1>8, <2>2, FoundFits
<1>9. QED
  BY <1>1, <1>2, <1>3, <1>4, <1>5, <1>6, <1>7, <1>8

LEMMA StartFields ==
  ASSUME NEW todo \in Seq(AllSections), NEW whole \in BOOLEAN
  PROVE  LET values == [part |-> "device", todo |-> todo, whole |-> whole, asking |-> FALSE,
                        filled |-> {}, success |-> FALSE]
         IN  /\ values \in DeviceCalls /\ values.todo = todo /\ values.whole = whole
             /\ ~values.asking /\ values.filled = {}
  BY DEF DeviceCalls

LEMMA FollowingFields ==
  ASSUME NEW call \in DeviceCalls, call.todo # <<>>, NEW outcome,
         outcome.filled \subseteq AllSections, outcome.success \in BOOLEAN
  PROVE  LET values == Following(call, outcome)
         IN  /\ values \in DeviceCalls /\ values.todo = Tail(call.todo)
             /\ values.whole = call.whole /\ values.asking = FALSE
             /\ values.filled = outcome.filled /\ values.success = outcome.success
<1>1. call.todo \in Seq(AllSections) /\ call.whole \in BOOLEAN
  BY DEF DeviceCalls
<1>2. Tail(call.todo) \in Seq(AllSections)
  BY <1>1, TailInOrder
<1>3. Following(call, outcome) \in DeviceCalls
  BY <1>1, <1>2, FALSE \in BOOLEAN DEF Following, DeviceCalls
<1>4. QED
  BY <1>3 DEF Following

LEMMA AskingFields ==
  ASSUME NEW call \in DeviceCalls
  PROVE  LET values == [call EXCEPT !.asking = TRUE]
         IN  /\ values \in DeviceCalls /\ values.todo = call.todo
             /\ values.whole = call.whole /\ values.asking = TRUE
             /\ values.filled = call.filled /\ values.success = call.success
<1>1. [call EXCEPT !.asking = TRUE] \in DeviceCalls
  BY TRUE \in BOOLEAN DEF DeviceCalls
<1>2. QED
  BY <1>1 DEF DeviceCalls

\* A call starts with the reference, and an overlap with another is written down.
LEMMA GetDeviceInfoSafe ==
  ASSUME BaseInv, DeviceInv, NEW w \in Workers, NEW query, GetDeviceInfo(w, query)
  PROVE  BaseInv' /\ DeviceInv' /\ Within({"section"}) /\ UNCHANGED versionVars
<1>1. UNCHANGED <<active, cached, given, versionVars>> /\ UNCHANGED known
  BY DEF GetDeviceInfo, versionVars
<1>2. CASE /\ "DeviceInfo" \in active
           /\ Start(w, "section", [part |-> "device", todo |-> AskedBy(query), whole |-> query = "all",
                                   asking |-> FALSE, filled |-> {}, success |-> FALSE])
           /\ Acquire({"DeviceInfo"}) /\ Overlaps("device") /\ UNCHANGED deviceAnswer
  <2> DEFINE values == [part |-> "device", todo |-> AskedBy(query), whole |-> query = "all",
                        asking |-> FALSE, filled |-> {}, success |-> FALSE]
  <2>1. /\ pc[w] = "idle" /\ pc' = [pc EXCEPT ![w] = "section"]
        /\ local' = [local EXCEPT ![w] = values]
    BY <1>2 DEF Start
  <2>2. (query = "all") \in BOOLEAN
    OBVIOUS
  <2>3. /\ values \in DeviceCalls /\ values.todo = AskedBy(query)
        /\ values.whole = (query = "all") /\ ~values.asking /\ values.filled = {}
    BY <2>2, StartFields, SectionsAreSections
  <2> HIDE DEF values
  <2>4. values.whole => Late(values.todo)
    BY <2>3, SectionsAreSections DEF AskedBy
  <2>5. InOrder(values)
    BY <2>3, <2>4 DEF InOrder
  <2>6. CallFits("section", values) /\ "section" \in Places
    BY <2>3 DEF CallFits, CapsPlaces, VersionsPlaces, Places
  <2>7. /\ CallsOK' /\ pc'[w] = "section" /\ local'[w] = values
        /\ \A v \in Workers \ {w} : pc'[v] = pc[v] /\ local'[v] = local[v]
    BY <2>1, <2>6, CallsMove DEF BaseInv
  <2>8. Held(w) = {} /\ Held(w)' = {"DeviceInfo"}
    BY <2>1, <2>7 DEF Held, HeldBy, CapsPlaces
  <2>9. BaseInv'
    BY <1>1, <1>2, <2>7, <2>8, RefsAcquire DEF BaseInv
  <2>10. spoiled \subseteq spoiled' /\ (Busy("device") => Met("device", "overlap")')
    BY <1>2, OverlapsKeep
  <2>11. Within({"section"})
    BY <2>1, <2>7, <2>10 DEF Within
  <2>12. \A v \in Workers : pc[v] = "section" => Busy("device")
    BY DEF Busy, BaseInv, CallsOK, CallFits, DeviceCalls
  <2>13. DeviceTypeOK' /\ FailureHidesNothingLater'
    BY <1>1, <1>2 DEF DeviceInv, DeviceTypeOK, FailureHidesNothingLater
  <2>14. ~Met("device", "overlap")' => ~Met("device", "overlap")
    BY <2>10 DEF Met
  <2>15. DeviceInv'
    <3>1. given \subseteq cached \/ Met("device", "overlap")
      BY DEF DeviceInv
    <3>2. given \intersect FromManufacturer \subseteq cached
      BY DEF DeviceInv
    <3>3. QED
      BY <1>1, <2>3, <2>5, <2>7, <2>10, <2>12, <2>13, <2>14, <3>1, <3>2, DeviceMove
         DEF AsksAddress
  <2>16. QED
    BY <1>1, <2>9, <2>11, <2>15
<1>3. CASE Instant(w, "device") /\ deviceAnswer' = NoAnswer /\ UNCHANGED <<spoiled, refs>>
  <2>1. UNCHANGED <<pc, local, spoiled>>
    BY <1>3 DEF Instant
  <2>2. BaseInv' /\ Within({"section"})
    BY <1>1, <1>3, <2>1, CallsStay, RefsStay DEF BaseInv, Within
  <2>3. DeviceTypeOK' /\ FailureHidesNothingLater'
    BY <1>1, <1>3 DEF DeviceInv, DeviceTypeOK, FailureHidesNothingLater, NoAnswer
  <2>4. DeviceInv'
    BY <1>1, <2>1, <2>3 DEF DeviceInv, Met
  <2>5. QED
    BY <1>1, <2>2, <2>4
<1>4. QED
  BY <1>2, <1>3 DEF GetDeviceInfo

LEMMA LookUpSafe ==
  ASSUME BaseInv, DeviceInv, NEW w \in Workers, LookUp(w)
  PROVE  BaseInv' /\ DeviceInv' /\ Within({"section"}) /\ UNCHANGED versionVars
<1> DEFINE call == local[w]
<1> DEFINE values == [call EXCEPT !.asking = TRUE]
<1>1. /\ pc[w] = "section" /\ call.todo # <<>> /\ Head(call.todo) \in Kept \ cached
      /\ pc' = [pc EXCEPT ![w] = "section"] /\ local' = [local EXCEPT ![w] = values]
      /\ UNCHANGED <<spoiled, active, refs, cached, given, deviceAnswer, known, versionVars>>
  BY DEF LookUp, Step, otherVars, queryVars, deviceVars, versionVars
<1>2. call \in DeviceCalls
  BY <1>1 DEF BaseInv, CallsOK, CallFits
<1>3. /\ values \in DeviceCalls /\ values.todo = call.todo
      /\ values.whole = call.whole /\ values.asking = TRUE
      /\ values.filled = call.filled /\ values.success = call.success
  BY <1>2, AskingFields
<1> HIDE DEF values
<1>4. CallFits("section", values) /\ "section" \in Places
  BY <1>3 DEF CallFits, CapsPlaces, VersionsPlaces, Places
<1>5. /\ CallsOK' /\ pc'[w] = "section" /\ local'[w] = values
      /\ \A v \in Workers \ {w} : pc'[v] = pc[v] /\ local'[v] = local[v]
  BY <1>1, <1>4, CallsMove DEF BaseInv
<1>6. Held(w)' = Held(w)
  BY <1>1, <1>5 DEF Held, HeldBy
<1>7. BaseInv' /\ Within({"section"})
  BY <1>1, <1>5, <1>6, RefsKeep DEF BaseInv, Within
<1>8. /\ InOrder(call) /\ call.filled \intersect FromManufacturer \subseteq cached
      /\ given \intersect FromManufacturer \subseteq cached
      /\ DeviceTypeOK /\ FailureHidesNothingLater
  BY <1>1 DEF DeviceInv
<1>9. InOrder(values)
  BY <1>1, <1>3, <1>8 DEF InOrder
<1>10. DeviceTypeOK' /\ FailureHidesNothingLater'
  BY <1>1, <1>8 DEF DeviceTypeOK, FailureHidesNothingLater
<1>11. ~Met("device", "overlap")' =>
         /\ given \subseteq cached /\ call.filled \intersect Kept \subseteq cached
         /\ \A v \in Workers \ {w} : pc[v] # "section"
  BY <1>1 DEF DeviceInv, Met
<1>12. DeviceInv'
  BY <1>1, <1>3, <1>5, <1>8, <1>9, <1>10, <1>11, DeviceMove
<1>13. QED
  BY <1>1, <1>7, <1>12

\* An answer, whether of a section by itself or of all of them.
LEMMA AnswerSafe ==
  ASSUME BaseInv, DeviceInv, NEW w \in Workers, pc[w] = "section", NEW filled, NEW success,
         deviceAnswer' = [whole |-> local[w].whole, filled |-> filled, success |-> success],
         given' = given \union (filled \intersect Kept), filled \subseteq AllSections,
         success \in BOOLEAN,
         local[w].whole => success \/ filled \intersect BehindBuildType = {},
         filled \intersect Kept \subseteq local[w].filled \union cached',
         cached' \subseteq Kept, cached \intersect FromManufacturer \subseteq cached',
         ~Met("device", "overlap") => cached \subseteq cached',
         Release({"DeviceInfo"}), Finish(w), UNCHANGED <<spoiled, active, versionVars>>
  PROVE  BaseInv' /\ DeviceInv' /\ Within({"section"}) /\ UNCHANGED versionVars
<1>1. Held(w) = {"DeviceInfo"}
  BY DEF Held, HeldBy
<1>2. /\ BaseInv' /\ pc'[w] = "idle"
      /\ \A v \in Workers \ {w} : pc'[v] = pc[v] /\ local'[v] = local[v]
  BY <1>1, BaseFinish
<1>3. Within({"section"})
  BY <1>2 DEF Within
<1>4. /\ local[w].filled \intersect FromManufacturer \subseteq cached
      /\ given \intersect FromManufacturer \subseteq cached /\ DeviceTypeOK
  BY DEF DeviceInv
<1>5. FromManufacturer \subseteq Kept
  BY DEF Kept
<1>6. DeviceTypeOK'
  BY <1>4 DEF DeviceTypeOK, versionVars
<1>7. FailureHidesNothingLater'
  <2>1. /\ deviceAnswer'.whole = local[w].whole /\ deviceAnswer'.filled = filled
        /\ deviceAnswer'.success = success
    OBVIOUS
  <2>2. QED
    BY <2>1 DEF FailureHidesNothingLater
<1>8. given' \intersect FromManufacturer \subseteq cached'
  BY <1>4, <1>5
<1>9. ~Met("device", "overlap")' =>
        /\ given' \subseteq cached'
        /\ \A v \in Workers \ {w} : pc[v] # "section"
  <2>1. Met("device", "overlap")' <=> Met("device", "overlap")
    BY DEF Met
  <2>2. ~Met("device", "overlap") =>
          /\ given \subseteq cached /\ local[w].filled \intersect Kept \subseteq cached
          /\ \A v \in Workers \ {w} : pc[v] # "section"
    BY DEF DeviceInv
  <2>3. QED
    BY <2>1, <2>2
<1>10. DeviceInv'
  BY <1>2, <1>6, <1>7, <1>8, <1>9, DeviceMove
<1>11. QED
  BY <1>2, <1>3, <1>10

LEMMA ReturnDeviceInfoSafe ==
  ASSUME BaseInv, DeviceInv, NEW w \in Workers, ReturnDeviceInfo(w)
  PROVE  BaseInv' /\ DeviceInv' /\ Within({"section"}) /\ UNCHANGED versionVars
<1>1. /\ pc[w] = "section"
      /\ deviceAnswer' = [whole |-> local[w].whole, filled |-> local[w].filled,
                          success |-> local[w].success]
      /\ given' = given \union (local[w].filled \intersect Kept)
      /\ Release({"DeviceInfo"}) /\ Finish(w)
      /\ UNCHANGED <<spoiled, active, cached, versionVars>>
  BY DEF ReturnDeviceInfo, Answer
<1>2. local[w].filled \subseteq AllSections /\ local[w].success \in BOOLEAN
  BY <1>1 DEF BaseInv, CallsOK, CallFits, DeviceCalls
<1>3. InOrder(local[w]) /\ cached \subseteq Kept
  BY <1>1 DEF DeviceInv, DeviceTypeOK
<1>4. local[w].whole => local[w].success \/ local[w].filled \intersect BehindBuildType = {}
  BY <1>3 DEF InOrder
<1>5. QED
  BY <1>1, <1>2, <1>3, <1>4, AnswerSafe

LEMMA SectionSafe ==
  ASSUME BaseInv, DeviceInv, NEW w \in Workers, Section(w)
  PROVE  BaseInv' /\ DeviceInv' /\ Within({"section"}) /\ UNCHANGED versionVars
<1> DEFINE call == local[w]
<1> DEFINE s == Head(call.todo)
<1>1. /\ pc[w] = "section" /\ call.todo # <<>>
      /\ s \in Kept => (call.asking \/ s \in cached)
      /\ UNCHANGED <<spoiled, active, versionVars>>
  BY DEF Section
<1>2. PICK outcome \in SectionOutcomes(s, call) :
        /\ cached' = outcome.cached
        /\ IF call.whole /\ ~outcome.abort
           THEN Step(w, "section", Following(call, outcome)) /\ UNCHANGED <<refs, given, deviceAnswer>>
           ELSE Answer(call, outcome) /\ Release({"DeviceInfo"}) /\ Finish(w)
  BY DEF Section
<1>3. call \in DeviceCalls
  BY <1>1 DEF BaseInv, CallsOK, CallFits
<1>4. /\ InOrder(call) /\ call.filled \intersect FromManufacturer \subseteq cached
      /\ given \intersect FromManufacturer \subseteq cached /\ cached \subseteq Kept
      /\ DeviceTypeOK /\ FailureHidesNothingLater
  BY <1>1 DEF DeviceInv, DeviceTypeOK
<1>5. /\ call.todo \in Seq(AllSections) /\ call.filled \subseteq AllSections
  BY <1>3 DEF DeviceCalls
<1>6. /\ s \in AllSections /\ Tail(call.todo) \in Seq(AllSections)
      /\ Late(call.todo) => Late(Tail(call.todo))
      /\ ~Has(call.todo, "build_type") => ~Has(Tail(call.todo), "build_type") /\ s # "build_type"
      /\ Late(call.todo) /\ s \in BehindBuildType => ~Has(Tail(call.todo), "build_type")
  BY <1>1, <1>5, TailInOrder
<1>7. call.asking => s \in Kept
  BY <1>4 DEF InOrder
<1>8. Fitting(outcome, s, call)
  BY <1>1, <1>3, <1>4, <1>6, <1>7, SectionsFit
<1> HIDE DEF s
<1>9. /\ outcome.filled \subseteq call.filled \union {s} /\ outcome.success \in BOOLEAN
      /\ outcome.abort = TRUE => outcome.filled = {}
      /\ outcome.filled \intersect Kept \subseteq call.filled \union cached'
      /\ cached' \subseteq Kept
      /\ \/ cached \subseteq cached'
         \/ call.asking /\ s \in KeptAddresses /\ cached' = cached \ {s}
  BY <1>2, <1>8, Zenon DEF Fitting, Fits
<1>10. \/ outcome.success = TRUE \/ s = "build_type"
       \/ outcome.filled \intersect BehindBuildType = {}
       \/ /\ outcome.filled \intersect BehindBuildType = call.filled \intersect BehindBuildType
          /\ outcome.success = call.success
  BY <1>8, Zenon DEF Fitting, Fits
<1>11. outcome.filled \subseteq AllSections
  BY <1>5, <1>6, <1>9
<1>12. cached \intersect FromManufacturer \subseteq cached'
  BY <1>9 DEF KeptAddresses, FromManufacturer
<1>13. ~Met("device", "overlap") => cached \subseteq cached'
  <2>1. ~Met("device", "overlap") => (call.asking /\ s \in KeptAddresses => s \notin cached)
    BY <1>1 DEF DeviceInv, AsksAddress, s
  <2>2. QED
    BY <1>9, <2>1
<1>14. call.whole /\ outcome.filled \intersect BehindBuildType # {} =>
         outcome.success = TRUE /\ ~Has(Tail(call.todo), "build_type")
  <2> SUFFICES ASSUME call.whole, outcome.filled \intersect BehindBuildType # {}
               PROVE  outcome.success = TRUE /\ ~Has(Tail(call.todo), "build_type")
    BY Zenon
  <2>1. /\ Late(call.todo)
        /\ call.filled \intersect BehindBuildType # {} =>
             call.success /\ ~Has(call.todo, "build_type")
    BY <1>4 DEF InOrder
  <2>2. call.success \in BOOLEAN /\ "build_type" \notin BehindBuildType
    BY <1>3 DEF DeviceCalls, BehindBuildType, Kept, FromManufacturer, KeptAddresses
  <2>3. CASE call.filled \intersect BehindBuildType # {}
    <3>1. call.success = TRUE /\ ~Has(Tail(call.todo), "build_type") /\ s # "build_type"
      BY <1>6, <2>1, <2>2, <2>3, Zenon
    <3>2. outcome.success = TRUE
      BY <1>10, <3>1, Zenon
    <3>3. QED
      BY <3>1, <3>2, Zenon
  <2>4. CASE call.filled \intersect BehindBuildType = {}
    <3>1. s \in BehindBuildType
      BY <1>9, <2>4
    <3>2. s # "build_type"
      BY <2>2, <3>1
    <3>3. outcome.success = TRUE
      BY <1>10, <2>4, <3>2, Zenon
    <3>4. QED
      BY <1>6, <2>1, <3>1, <3>3, Zenon
  <2>5. QED
    BY <2>3, <2>4, Zenon
<1>15. CASE /\ Step(w, "section", Following(call, outcome)) /\ UNCHANGED <<refs, given, deviceAnswer>>
  <2> DEFINE values == Following(call, outcome)
  <2>1. /\ values \in DeviceCalls /\ values.todo = Tail(call.todo)
        /\ values.whole = call.whole /\ values.asking = FALSE
        /\ values.filled = outcome.filled /\ values.success = outcome.success
    BY <1>1, <1>3, <1>9, <1>11, FollowingFields
  <2>2. pc' = [pc EXCEPT ![w] = "section"] /\ local' = [local EXCEPT ![w] = values]
    BY <1>15 DEF Step
  <2> HIDE DEF values
  <2>3. CallFits("section", values) /\ "section" \in Places
    BY <2>1 DEF CallFits, CapsPlaces, VersionsPlaces, Places
  <2>4. /\ CallsOK' /\ pc'[w] = "section" /\ local'[w] = values
        /\ \A v \in Workers \ {w} : pc'[v] = pc[v] /\ local'[v] = local[v]
    BY <2>2, <2>3, CallsMove DEF BaseInv
  <2>5. Held(w)' = Held(w)
    BY <1>1, <2>4 DEF Held, HeldBy
  <2>6. BaseInv' /\ Within({"section"})
    BY <1>1, <1>15, <2>4, <2>5, RefsKeep DEF BaseInv, Within
  <2>7. InOrder(values)
    <3>1. values.whole => Late(values.todo)
      BY <1>4, <1>6, <2>1 DEF InOrder
    <3>2. values.whole /\ values.filled \intersect BehindBuildType # {} =>
            values.success /\ ~Has(values.todo, "build_type")
      BY <1>14, <2>1, Zenon
    <3>3. ~values.asking
      BY <2>1
    <3>4. QED
      BY <3>1, <3>2, <3>3, Zenon DEF InOrder
  <2>8. ~values.asking /\ values.filled \intersect FromManufacturer \subseteq cached'
    BY <1>4, <1>9, <1>12, <2>1 DEF Kept
  <2>9. DeviceTypeOK' /\ FailureHidesNothingLater'
    BY <1>1, <1>4, <1>9, <1>15 DEF DeviceTypeOK, FailureHidesNothingLater, versionVars
  <2>10. ~Met("device", "overlap")' =>
           /\ given \subseteq cached' /\ values.filled \intersect Kept \subseteq cached'
           /\ \A v \in Workers \ {w} : pc[v] # "section"
    <3>1. Met("device", "overlap")' <=> Met("device", "overlap")
      BY <1>1 DEF Met
    <3>2. ~Met("device", "overlap") =>
            /\ given \subseteq cached /\ call.filled \intersect Kept \subseteq cached
            /\ \A v \in Workers \ {w} : pc[v] # "section"
      BY <1>1 DEF DeviceInv
    <3>3. QED
      BY <1>9, <1>13, <2>1, <3>1, <3>2
  <2>11. given' = given /\ given' \intersect FromManufacturer \subseteq cached'
    BY <1>4, <1>12, <1>15
  <2>12. DeviceInv'
    BY <1>1, <1>12, <2>4, <2>7, <2>8, <2>9, <2>10, <2>11, DeviceMove DEF AsksAddress
  <2>13. QED
    BY <1>1, <2>6, <2>12
<1>16. CASE /\ ~(call.whole /\ ~outcome.abort)
            /\ Answer(call, outcome) /\ Release({"DeviceInfo"}) /\ Finish(w)
  <2>1. /\ deviceAnswer' = [whole |-> call.whole, filled |-> outcome.filled,
                            success |-> outcome.success]
        /\ given' = given \union (outcome.filled \intersect Kept)
    BY <1>16, Zenon DEF Answer
  <2>2. call.whole => outcome.success \/ outcome.filled \intersect BehindBuildType = {}
    BY <1>14, Zenon
  <2>3. QED
    BY <1>1, <1>9, <1>11, <1>12, <1>13, <1>16, <2>1, <2>2, AnswerSafe
<1>17. QED
  BY <1>2, <1>15, <1>16, Zenon

LEMMA SerialIsKept ==
  "mfgSerialNumber" \in FromManufacturer /\ "mfgSerialNumber" \in Kept
    /\ "mfgSerialNumber" \notin KeptAddresses
  BY DEF Kept, FromManufacturer, KeptAddresses

\* The serial number is found beside all other calls, and only adds to what is kept.
LEMMA SerialMove ==
  ASSUME DeviceInv, Elsewhere({"section"}), UNCHANGED <<deviceAnswer, known>>,
         spoiled' = spoiled, NEW found \in SUBSET {"mfgSerialNumber"},
         cached' = cached \union found, given' = given \union found
  PROVE  DeviceInv'
<1>1. DeviceTypeOK' /\ FailureHidesNothingLater'
  BY SerialIsKept DEF DeviceInv, DeviceTypeOK, FailureHidesNothingLater
<1>2. \A w \in Workers : pc'[w] = "section" => pc[w] = "section" /\ local'[w] = local[w]
  BY DEF Elsewhere
<1>3. \A w \in Workers : pc'[w] = "section" =>
        InOrder(local'[w]) /\ local'[w].filled \intersect FromManufacturer \subseteq cached'
  BY <1>2 DEF DeviceInv
<1>4. ~Met("device", "overlap")' => ~Met("device", "overlap")
  BY DEF Met
<1>5. ASSUME NEW call
      PROVE  AsksAddress(call) /\ Head(call.todo) \notin cached => Head(call.todo) \notin cached'
  BY SerialIsKept DEF AsksAddress
<1>6. ASSUME ~Met("device", "overlap"), NEW w \in Workers, pc'[w] = "section"
      PROVE  /\ local'[w].filled \intersect Kept \subseteq cached'
             /\ AsksAddress(local'[w]) => Head(local'[w].todo) \notin cached'
  <2>1. /\ local'[w] = local[w] /\ local[w].filled \intersect Kept \subseteq cached
        /\ AsksAddress(local[w]) => Head(local[w].todo) \notin cached
    BY <1>2, <1>6 DEF DeviceInv
  <2>2. QED
    BY <1>5, <2>1
<1>7. ~Met("device", "overlap") =>
        /\ \A v, w \in Workers : pc'[v] = "section" /\ pc'[w] = "section" => v = w
        /\ given' \subseteq cached'
  BY <1>2 DEF DeviceInv
<1>8. given' \intersect FromManufacturer \subseteq cached'
  BY DEF DeviceInv
<1>9. QED
  BY <1>1, <1>3, <1>4, <1>6, <1>7, <1>8 DEF DeviceInv

LEMMA GetMfgSerialNumberSafe ==
  ASSUME BaseInv, DeviceInv, NEW w \in Workers, GetMfgSerialNumber(w)
  PROVE  BaseInv' /\ DeviceInv' /\ Within({"serial"}) /\ UNCHANGED versionVars
<1>1. UNCHANGED <<spoiled, active, refs, cached, deviceAnswer, versionVars>> /\ UNCHANGED known
  BY DEF GetMfgSerialNumber, otherVars, versionVars
<1>2. CASE "mfgSerialNumber" \in cached
  <2>1. UNCHANGED <<pc, local>> /\ given' = given \union {"mfgSerialNumber"}
    BY <1>2 DEF GetMfgSerialNumber, Instant
  <2>2. BaseInv' /\ Within({"serial"})
    BY <1>1, <2>1, CallsStay, RefsStay DEF BaseInv, Within
  <2>3. Elsewhere({"section"}) /\ cached' = cached \union {"mfgSerialNumber"}
    BY <1>1, <1>2, <2>1 DEF Elsewhere
  <2>4. DeviceInv'
    BY <1>1, <2>1, <2>3, SerialMove
  <2>5. QED
    BY <1>1, <2>2, <2>4
<1>3. CASE "mfgSerialNumber" \notin cached
  <2> DEFINE values == [part |-> "serial"]
  <2>1. /\ pc[w] = "idle" /\ pc' = [pc EXCEPT ![w] = "serial"]
        /\ local' = [local EXCEPT ![w] = values] /\ UNCHANGED given
    BY <1>3 DEF GetMfgSerialNumber, Start
  <2> HIDE DEF values
  <2>2. CallFits("serial", values) /\ "serial" \in Places
    BY DEF CallFits, CapsPlaces, VersionsPlaces, Places
  <2>3. /\ CallsOK' /\ pc'[w] = "serial"
        /\ \A v \in Workers \ {w} : pc'[v] = pc[v] /\ local'[v] = local[v]
    BY <2>1, <2>2, CallsMove DEF BaseInv
  <2>4. Held(w) = {} /\ Held(w)' = {}
    BY <2>1, <2>3 DEF Held, HeldBy, CapsPlaces
  <2>5. BaseInv' /\ Within({"serial"}) /\ Elsewhere({"section"})
    BY <1>1, <2>1, <2>3, <2>4, RefsKeep DEF BaseInv, Within, Elsewhere
  <2>6. UNCHANGED deviceVars /\ known' \subseteq {"branch", "client", "timestamp"}
    BY <1>1, <2>1 DEF deviceVars, DeviceInv, DeviceTypeOK
  <2>7. DeviceInv'
    BY <2>5, <2>6, DeviceStays
  <2>8. QED
    BY <1>1, <2>5, <2>7
<1>4. QED
  BY <1>2, <1>3

LEMMA KeepSerialNumberSafe ==
  ASSUME BaseInv, DeviceInv, NEW w \in Workers, KeepSerialNumber(w)
  PROVE  BaseInv' /\ DeviceInv' /\ Within({"serial"}) /\ UNCHANGED versionVars
<1>1. /\ pc[w] = "serial" /\ Finish(w)
      /\ UNCHANGED <<spoiled, active, refs, deviceAnswer, versionVars>> /\ UNCHANGED known
  BY DEF KeepSerialNumber, otherVars, versionVars
<1>2. PICK found \in SUBSET {"mfgSerialNumber"} :
        cached' = cached \union found /\ given' = given \union found
  BY DEF KeepSerialNumber
<1>3. pc' = [pc EXCEPT ![w] = "idle"] /\ local' = [local EXCEPT ![w] = NoCall]
  BY <1>1 DEF Finish, Step
<1>4. /\ CallsOK' /\ pc'[w] = "idle"
      /\ \A v \in Workers \ {w} : pc'[v] = pc[v] /\ local'[v] = local[v]
  BY <1>3, IdleFits, CallsMove DEF BaseInv
<1>5. Held(w) = {} /\ Held(w)' = {}
  BY <1>1, <1>4 DEF Held, HeldBy, CapsPlaces
<1>6. BaseInv' /\ Within({"serial"}) /\ Elsewhere({"section"})
  BY <1>1, <1>4, <1>5, RefsKeep DEF BaseInv, Within, Elsewhere
<1>7. DeviceInv'
  BY <1>1, <1>2, <1>6, SerialMove
<1>8. QED
  BY <1>1, <1>6, <1>7

\* A step of a device query, or of the versions, whose calls are apart.
ToldAgain ==
  ~Met("versions", "overlap") /\ receiverTold \in {"branch", "client"} =>
    receiverTold' = receiverTold

QueryPlaces == {"section", "serial"} \union VersionsPlaces

LEMMA QueryElsewhere ==
  /\ \A place \in {"section", "serial"} :
       Within({place}) => Elsewhere({"versions"}) /\ Within(QueryPlaces)
  /\ Within(VersionsPlaces) => Elsewhere({"section"}) /\ Within(QueryPlaces)
<1>1. ASSUME NEW place \in {"section", "serial"}, Within({place})
      PROVE  Elsewhere({"versions"}) /\ Within(QueryPlaces)
  <2>1. Elsewhere({"versions"})
    BY <1>1, OthersElsewhere
  <2>2. Within(QueryPlaces)
    BY <1>1 DEF Within, QueryPlaces
  <2>3. QED
    BY <2>1, <2>2
<1>2. ASSUME Within(VersionsPlaces)
      PROVE  Elsewhere({"section"}) /\ Within(QueryPlaces)
  <2>1. Elsewhere({"section"})
    BY <1>2, OthersElsewhere DEF VersionsPlaces
  <2>2. Within(QueryPlaces)
    BY <1>2 DEF Within, QueryPlaces
  <2>3. QED
    BY <2>1, <2>2
<1>3. QED
  BY <1>1, <1>2

LEMMA DeviceNextSafe ==
  ASSUME BaseInv, DeviceInv, VersionsInv, DeviceNext
  PROVE  BaseInv' /\ DeviceInv' /\ VersionsInv' /\ Within(QueryPlaces) /\ ToldAgain
<1>1. ASSUME BaseInv', DeviceInv', Within({"section"}) \/ Within({"serial"}),
             UNCHANGED versionVars
      PROVE  VersionsInv' /\ Within(QueryPlaces) /\ ToldAgain
  <2>1. Elsewhere({"versions"}) /\ Within(QueryPlaces)
    BY <1>1, QueryElsewhere
  <2>2. receiverTold' = receiverTold
    BY <1>1 DEF versionVars
  <2>3. QED
    BY <1>1, <2>1, <2>2, VersionsStay DEF ToldAgain
<1>2. ASSUME BaseInv', VersionsInv', Within(VersionsPlaces), UNCHANGED deviceVars
      PROVE  DeviceInv' /\ Within(QueryPlaces)
  <2>1. Elsewhere({"section"}) /\ Within(QueryPlaces)
    BY <1>2, QueryElsewhere
  <2>2. known' \subseteq {"branch", "client", "timestamp"}
    BY <1>2 DEF VersionsInv
  <2>3. QED
    BY <1>2, <2>1, <2>2, DeviceStays
<1>3. ASSUME NEW w \in Workers, NEW query, GetDeviceInfo(w, query)
      PROVE  BaseInv' /\ DeviceInv' /\ VersionsInv' /\ Within(QueryPlaces) /\ ToldAgain
  BY <1>1, <1>3, GetDeviceInfoSafe
<1>4. ASSUME NEW w \in Workers, LookUp(w) \/ Section(w) \/ ReturnDeviceInfo(w)
      PROVE  BaseInv' /\ DeviceInv' /\ VersionsInv' /\ Within(QueryPlaces) /\ ToldAgain
  <2>1. BaseInv' /\ DeviceInv' /\ Within({"section"}) /\ UNCHANGED versionVars
    BY <1>4, LookUpSafe, SectionSafe, ReturnDeviceInfoSafe
  <2>2. QED
    BY <1>1, <2>1
<1>5. ASSUME NEW w \in Workers, GetMfgSerialNumber(w) \/ KeepSerialNumber(w)
      PROVE  BaseInv' /\ DeviceInv' /\ VersionsInv' /\ Within(QueryPlaces) /\ ToldAgain
  <2>1. BaseInv' /\ DeviceInv' /\ Within({"serial"}) /\ UNCHANGED versionVars
    BY <1>5, GetMfgSerialNumberSafe, KeepSerialNumberSafe
  <2>2. QED
    BY <1>1, <2>1
<1>6. ASSUME NEW w \in Workers, GetSystemVersions(w) \/ ReadBranch(w)
      PROVE  BaseInv' /\ DeviceInv' /\ VersionsInv' /\ Within(QueryPlaces) /\ ToldAgain
  <2>1. receiverTold' = receiverTold
    BY <1>6 DEF GetSystemVersions, ReadBranch, queryVars, versionVars
  <2>2. BaseInv' /\ VersionsInv' /\ Within(VersionsPlaces) /\ UNCHANGED deviceVars
    BY <1>6, GetSystemVersionsSafe, ReadBranchSafe DEF queryVars
  <2>3. QED
    BY <1>2, <2>1, <2>2 DEF ToldAgain
<1>7. ASSUME NEW w \in Workers, ReadClientVersion(w)
      PROVE  BaseInv' /\ DeviceInv' /\ VersionsInv' /\ Within(QueryPlaces) /\ ToldAgain
  BY <1>2, <1>7, ReadClientVersionSafe DEF ToldAgain
<1>8. ASSUME ChangeVersionFile
      PROVE  BaseInv' /\ DeviceInv' /\ VersionsInv' /\ Within(QueryPlaces) /\ ToldAgain
  <2>1. receiverTold' = receiverTold
    BY <1>8 DEF ChangeVersionFile
  <2>2. QED
    BY <1>2, <1>8, <2>1, ChangeVersionFileSafe DEF ToldAgain
<1>9. QED
  BY <1>3, <1>4, <1>5, <1>6, <1>7, <1>8 DEF DeviceNext

LEMMA DeviceTells ==
  DeviceInv => DeviceTypeOK /\ GivenIsKept /\ FailureHidesNothingLater
  BY DEF DeviceInv, GivenIsKept

-----------------------------------------------------------------------------
(* The platform capabilities.                                              *)

CapsInv == CapsTypeOK /\ FirstFeaturesTrue

\* The device type is left empty only as EmptyTypeFromAuth has it.
TypeByAuth ==
  typeTold' = "empty" /\ typeTold # "empty" =>
    \E w \in Workers : Loads(w, {"deviceType"}) /\ "AuthService" \in local[w].holds

LEMMA CapsInitSafe ==
  ASSUME CapsInit
  PROVE  CapsInv
<1>1. propertiesGiven \in Seq({"mimeTypeExclusions", "features"}) /\ propertiesGiven # <<"features">>
  BY DEF CapsInit
<1>2. QED
  BY <1>1 DEF CapsInit, CapsInv, CapsTypeOK, FirstFeaturesTrue

LEMMA CapsStay ==
  ASSUME CapsInv, UNCHANGED capsVars
  PROVE  CapsInv' /\ TypeByAuth
  BY DEF CapsInv, CapsTypeOK, FirstFeaturesTrue, capsVars, TypeByAuth

\* A call of the capabilities at one of its places.
LEMMA CapsFits ==
  ASSUME NEW field, NEW todo, NEW objects, NEW holds
  PROVE  LET call == Loading(field, todo, objects, holds)
         IN  /\ call.holds = holds /\ "load" \in Places /\ "construct" \in Places
             /\ CallFits("load", call)
             /\ holds = {} => CallFits("construct", call)
  BY DEF Loading, CallFits, CapsPlaces, VersionsPlaces, Places

LEMMA GetPlatformConfigurationSafe ==
  ASSUME BaseInv, CapsInv, NEW w \in Workers, GetPlatformConfiguration(w)
  PROVE  BaseInv' /\ CapsInv' /\ Within(CapsPlaces) /\ TypeByAuth
<1>1. UNCHANGED <<spoiled, active, refs, capsVars>>
  BY DEF GetPlatformConfiguration, otherVars
<1>2. ASSUME NEW query,
             Start(w, "construct", Loading(query.field, <<>>, Objects(query), {}))
      PROVE  BaseInv' /\ Within(CapsPlaces)
  <2> DEFINE call == Loading(query.field, <<>>, Objects(query), {})
  <2>1. /\ pc[w] = "idle" /\ pc' = [pc EXCEPT ![w] = "construct"]
        /\ local' = [local EXCEPT ![w] = call]
    BY <1>2 DEF Start
  <2>2. CallFits("construct", call) /\ "construct" \in Places /\ call.holds = {}
    BY CapsFits
  <2> HIDE DEF call
  <2>3. /\ CallsOK' /\ pc'[w] = "construct" /\ local'[w] = call
        /\ \A v \in Workers \ {w} : pc'[v] = pc[v] /\ local'[v] = local[v]
    BY <2>1, <2>2, CallsMove DEF BaseInv
  <2>4. Held(w) = {} /\ Held(w)' = {}
    BY <2>1, <2>2, <2>3 DEF Held, HeldBy, CapsPlaces
  <2>5. QED
    BY <1>1, <2>1, <2>3, <2>4, RefsKeep DEF BaseInv, Within, CapsPlaces
<1>3. ASSUME Instant(w, "caps")
      PROVE  BaseInv' /\ Within(CapsPlaces)
  <2>1. UNCHANGED <<pc, local>>
    BY <1>3 DEF Instant
  <2>2. QED
    BY <1>1, <2>1, CallsStay, RefsStay DEF BaseInv, Within
<1>4. BaseInv' /\ Within(CapsPlaces)
  BY <1>2, <1>3 DEF GetPlatformConfiguration
<1>5. QED
  BY <1>1, <1>4, CapsStay

\* An object that is made has nothing yet, and gets all that it holds.
LEMMA ConstructSafe ==
  ASSUME BaseInv, CapsInv, NEW w \in Workers, Construct(w)
  PROVE  BaseInv' /\ CapsInv' /\ Within(CapsPlaces) /\ TypeByAuth
<1> DEFINE holds == {Shell} \union ({"AuthService"} \intersect active)
<1> DEFINE call == Loading(local[w].field, Named(Head(local[w].objects), local[w].field),
                           local[w].objects, holds)
<1>1. /\ pc[w] = "construct" /\ Acquire(holds)
      /\ pc' = [pc EXCEPT ![w] = "load"] /\ local' = [local EXCEPT ![w] = call]
      /\ UNCHANGED <<spoiled, active, capsVars>>
  BY DEF Construct, Step
<1>2. CallFits("load", call) /\ "load" \in Places /\ call.holds = holds
  BY CapsFits
<1> HIDE DEF call, holds
<1>3. /\ CallsOK' /\ pc'[w] = "load" /\ local'[w] = call
      /\ \A v \in Workers \ {w} : pc'[v] = pc[v] /\ local'[v] = local[v]
  BY <1>1, <1>2, CallsMove DEF BaseInv
<1>4. local[w].holds = {}
  BY <1>1 DEF BaseInv, CallsOK, CallFits
<1>5. Held(w) = {} /\ Held(w)' = holds
  BY <1>1, <1>2, <1>3, <1>4 DEF Held, HeldBy, CapsPlaces
<1>6. RefsOK'
  BY <1>1, <1>3, <1>5, RefsAcquire DEF BaseInv
<1>7. BaseInv' /\ Within(CapsPlaces)
  BY <1>1, <1>3, <1>6 DEF BaseInv, Within, CapsPlaces
<1>8. QED
  BY <1>1, <1>7, CapsStay

LEMMA DestructSafe ==
  ASSUME BaseInv, CapsInv, NEW w \in Workers, Destruct(w)
  PROVE  BaseInv' /\ CapsInv' /\ Within(CapsPlaces) /\ TypeByAuth
<1> DEFINE rest == Tail(local[w].objects)
<1>1. /\ pc[w] = "load" /\ Release(local[w].holds)
      /\ Finish(w) \/ Step(w, "construct", Loading(local[w].field, <<>>, rest, {}))
      /\ UNCHANGED <<spoiled, active, capsVars>>
  BY DEF Destruct
<1>2. Held(w) = local[w].holds
  BY <1>1 DEF Held, HeldBy, CapsPlaces
<1>3. CASE Finish(w)
  <2>1. /\ BaseInv' /\ pc'[w] = "idle"
        /\ \A v \in Workers \ {w} : pc'[v] = pc[v] /\ local'[v] = local[v]
    BY <1>1, <1>2, <1>3, BaseFinish
  <2>2. Within(CapsPlaces)
    BY <1>1, <2>1 DEF Within, CapsPlaces
  <2>3. QED
    BY <1>1, <2>1, <2>2, CapsStay
<1>4. CASE Step(w, "construct", Loading(local[w].field, <<>>, rest, {}))
  <2> DEFINE call == Loading(local[w].field, <<>>, rest, {})
  <2>1. pc' = [pc EXCEPT ![w] = "construct"] /\ local' = [local EXCEPT ![w] = call]
    BY <1>4 DEF Step
  <2>2. CallFits("construct", call) /\ "construct" \in Places /\ call.holds = {}
    BY CapsFits
  <2> HIDE DEF call
  <2>3. /\ CallsOK' /\ pc'[w] = "construct" /\ local'[w] = call
        /\ \A v \in Workers \ {w} : pc'[v] = pc[v] /\ local'[v] = local[v]
    BY <2>1, <2>2, CallsMove DEF BaseInv
  <2>4. Held(w)' = {}
    BY <2>2, <2>3 DEF Held, HeldBy, CapsPlaces
  <2>5. RefsOK'
    BY <1>1, <1>2, <2>3, <2>4, RefsRelease DEF BaseInv
  <2>6. BaseInv' /\ Within(CapsPlaces)
    BY <1>1, <2>3, <2>5 DEF BaseInv, Within, CapsPlaces
  <2>7. QED
    BY <1>1, <2>6, CapsStay
<1>5. QED
  BY <1>1, <1>3, <1>4

\* A field that is done, with the references that its link has brought.
LEMMA NextFieldSafe ==
  ASSUME BaseInv, NEW w \in Workers, NEW more, pc[w] = "load", NextField(w, more),
         UNCHANGED spoiled, active' \subseteq Plugins,
         Acquire(more \ local[w].holds) \/ (more = {} /\ UNCHANGED refs)
  PROVE  BaseInv' /\ Within(CapsPlaces)
<1> DEFINE call == Loading(local[w].field, Tail(local[w].todo), local[w].objects,
                           local[w].holds \union more)
<1>1. pc' = [pc EXCEPT ![w] = "load"] /\ local' = [local EXCEPT ![w] = call]
  BY DEF NextField, Step
<1>2. CallFits("load", call) /\ "load" \in Places /\ call.holds = local[w].holds \union more
  BY CapsFits
<1> HIDE DEF call
<1>3. /\ CallsOK' /\ pc'[w] = "load" /\ local'[w] = call
      /\ \A v \in Workers \ {w} : pc'[v] = pc[v] /\ local'[v] = local[v]
  BY <1>1, <1>2, CallsMove DEF BaseInv
<1>4. Held(w) = local[w].holds /\ Held(w)' = local[w].holds \union more
  BY <1>2, <1>3 DEF Held, HeldBy, CapsPlaces
<1>5. RefsOK'
  <2>1. CASE Acquire(more \ local[w].holds)
    <3>1. /\ (more \ local[w].holds) \intersect Held(w) = {}
          /\ Held(w)' = Held(w) \union (more \ local[w].holds)
      BY <1>4
    <3>2. QED
      BY <1>3, <2>1, <3>1, RefsAcquire DEF BaseInv
  <2>2. CASE more = {} /\ UNCHANGED refs
    BY <1>3, <1>4, <2>2, RefsKeep DEF BaseInv
  <2>3. QED
    BY <2>1, <2>2
<1>6. QED
  BY <1>3, <1>5 DEF BaseInv, Within, CapsPlaces

LEMMA AddDashExclusionListSafe ==
  ASSUME BaseInv, CapsInv, NEW w \in Workers, AddDashExclusionList(w)
  PROVE  BaseInv' /\ CapsInv' /\ Within(CapsPlaces) /\ TypeByAuth
<1>1. /\ pc[w] = "load" /\ NextField(w, {}) /\ UNCHANGED <<spoiled, active, refs>>
      /\ propertiesGiven' = Append(propertiesGiven, "mimeTypeExclusions")
      /\ UNCHANGED <<deviceDecodes, decodeTold, typeTold>>
  BY DEF AddDashExclusionList, Loads, getDeviceProperties, otherVars
<1>2. BaseInv' /\ Within(CapsPlaces)
  BY <1>1, NextFieldSafe DEF BaseInv
<1>3. propertiesGiven \in Seq({"mimeTypeExclusions", "features"})
  BY DEF CapsInv, CapsTypeOK
<1>4. /\ propertiesGiven' \in Seq({"mimeTypeExclusions", "features"})
      /\ propertiesGiven'[Len(propertiesGiven')] = "mimeTypeExclusions"
  BY <1>1, <1>3, AppendProperties
<1>5. propertiesGiven' # <<"features">>
  BY <1>4
<1>6. CapsInv' /\ TypeByAuth
  BY <1>1, <1>4, <1>5 DEF CapsInv, CapsTypeOK, FirstFeaturesTrue, TypeByAuth
<1>7. QED
  BY <1>2, <1>6

LEMMA DeviceCapsFeaturesSafe ==
  ASSUME BaseInv, CapsInv, NEW w \in Workers, DeviceCapsFeatures(w)
  PROVE  BaseInv' /\ CapsInv' /\ Within(CapsPlaces) /\ TypeByAuth
<1>1. /\ pc[w] = "load" /\ NextField(w, {}) /\ UNCHANGED <<spoiled, active, refs>>
      /\ propertiesGiven' = Append(propertiesGiven, "features")
      /\ decodeTold' = IF propertiesGiven = <<>> /\ deviceDecodes THEN "yes" ELSE "no"
      /\ UNCHANGED <<deviceDecodes, typeTold>>
  BY DEF DeviceCapsFeatures, Loads, getDeviceProperties, otherVars
<1>2. BaseInv' /\ Within(CapsPlaces)
  BY <1>1, NextFieldSafe DEF BaseInv
<1>3. propertiesGiven \in Seq({"mimeTypeExclusions", "features"})
  BY DEF CapsInv, CapsTypeOK
<1>4. /\ propertiesGiven' \in Seq({"mimeTypeExclusions", "features"})
      /\ Len(propertiesGiven') = Len(propertiesGiven) + 1
  BY <1>1, <1>3, AppendProperties
<1>5. propertiesGiven' = <<"features">> => propertiesGiven = <<>>
  BY <1>3, <1>4, EmptySeq, LenProperties
<1>6. FirstFeaturesTrue'
  BY <1>1, <1>5 DEF FirstFeaturesTrue
<1>7. CapsInv' /\ TypeByAuth
  BY <1>1, <1>4, <1>6 DEF CapsInv, CapsTypeOK, TypeByAuth
<1>8. QED
  BY <1>2, <1>7

LEMMA GetDeviceTypeSafe ==
  ASSUME BaseInv, CapsInv, NEW w \in Workers, GetDeviceType(w)
  PROVE  BaseInv' /\ CapsInv' /\ Within(CapsPlaces) /\ TypeByAuth
<1>1. /\ Loads(w, {"deviceType"}) /\ NextField(w, {})
      /\ UNCHANGED <<spoiled, active, refs, deviceDecodes, propertiesGiven, decodeTold>>
  BY DEF GetDeviceType, otherVars
<1>2. PICK type \in {"empty", "auth", "device"} :
        typeTold' = IF "AuthService" \in local[w].holds
                    THEN IF type = "device" THEN "empty" ELSE type
                    ELSE IF type = "device" /\ "DeviceInfo" \in active THEN type ELSE "TV"
  BY DEF GetDeviceType
<1>3. BaseInv' /\ Within(CapsPlaces)
  BY <1>1, NextFieldSafe DEF BaseInv, Loads
<1>4. /\ typeTold' \in {"empty", "auth", "device", "TV"}
      /\ typeTold' = "empty" => "AuthService" \in local[w].holds
  BY <1>2
<1>5. CapsInv' /\ TypeByAuth
  BY <1>1, <1>4 DEF CapsInv, CapsTypeOK, FirstFeaturesTrue, TypeByAuth
<1>6. QED
  BY <1>3, <1>5

\* Only the links that the object did not have are counted.
LEMMA GetOverLinkSafe ==
  ASSUME BaseInv, CapsInv, NEW w \in Workers, GetOverLink(w)
  PROVE  BaseInv' /\ CapsInv' /\ Within(CapsPlaces) /\ TypeByAuth
<1> DEFINE link == LinkOf[Head(local[w].todo)]
<1>1. /\ pc[w] = "load" /\ Head(local[w].todo) \in DOMAIN LinkOf /\ UNCHANGED <<spoiled, capsVars>>
  BY DEF GetOverLink, Loads
<1>2. link \in Plugins
  BY <1>1, PlatformCapsAssumption DEF LinkOf
<1>3. PICK now \in {active, active \union {link}} :
        /\ active' = now
        /\ Acquire((({link} \intersect now) \union {Controller}) \ local[w].holds)
        /\ NextField(w, ({link} \intersect now) \union {Controller})
  BY DEF GetOverLink
<1>4. active' \subseteq Plugins
  BY <1>2, <1>3 DEF BaseInv
<1>5. BaseInv' /\ Within(CapsPlaces)
  BY <1>1, <1>3, <1>4, NextFieldSafe
<1>6. QED
  BY <1>1, <1>5, CapsStay

LEMMA GetPlainFieldSafe ==
  ASSUME BaseInv, CapsInv, NEW w \in Workers, GetPlainField(w)
  PROVE  BaseInv' /\ CapsInv' /\ Within(CapsPlaces) /\ TypeByAuth
<1>1. pc[w] = "load" /\ NextField(w, {}) /\ UNCHANGED <<spoiled, active, refs, capsVars>>
  BY DEF GetPlainField, otherVars
<1>2. BaseInv' /\ Within(CapsPlaces)
  BY <1>1, NextFieldSafe DEF BaseInv
<1>3. QED
  BY <1>1, <1>2, CapsStay

LEMMA CapsNextSafe ==
  ASSUME BaseInv, CapsInv, CapsNext
  PROVE  BaseInv' /\ CapsInv' /\ Within(CapsPlaces) /\ TypeByAuth
  BY GetPlatformConfigurationSafe, ConstructSafe, DestructSafe, AddDashExclusionListSafe,
     DeviceCapsFeaturesSafe, GetDeviceTypeSafe, GetOverLinkSafe, GetPlainFieldSafe
     DEF CapsNext

-----------------------------------------------------------------------------
(* The composition.                                                        *)

QueriesInv == BaseInv /\ ForwardInv /\ DeviceInv /\ VersionsInv /\ CapsInv

LEMMA QueriesInitSafe ==
  ASSUME QueriesInit
  PROVE  QueriesInv
  BY BaseInit, ForwardInitSafe, DeviceInitSafe, VersionsInitSafe, CapsInitSafe
     DEF QueriesInit, QueriesInv

\* The queries stay as they are while calls at other places move.
LEMMA QueriesStay ==
  ASSUME DeviceInv, VersionsInv, UNCHANGED queryVars, NEW places, Within(places),
         "section" \notin places, "versions" \notin places
  PROVE  DeviceInv' /\ VersionsInv' /\ ToldAgain
<1>1. UNCHANGED deviceVars /\ UNCHANGED versionVars /\ UNCHANGED <<known, receiverTold>>
  BY DEF queryVars, versionVars
<1>2. Elsewhere({"section"}) /\ Elsewhere({"versions"})
  BY OthersElsewhere DEF Within, Elsewhere
<1>3. known' \subseteq {"branch", "client", "timestamp"}
  BY <1>1 DEF VersionsInv
<1>4. QED
  BY <1>1, <1>2, <1>3, DeviceStays, VersionsStay DEF ToldAgain

LEMMA SwitchPluginSafe ==
  ASSUME BaseInv, SwitchPlugin
  PROVE  BaseInv' /\ Within({})
<1>1. UNCHANGED <<pc, local, spoiled, refs>> /\ active' \subseteq Plugins
  BY DEF SwitchPlugin, BaseInv
<1>2. QED
  BY <1>1, CallsStay, RefsStay DEF BaseInv, Within

LEMMA QueriesNextSafe ==
  ASSUME QueriesInv, [QueriesNext]_queriesVars
  PROVE  QueriesInv' /\ ToldAgain /\ TypeByAuth
<1> USE DEF QueriesInv
<1>1. CASE ForwardNext /\ UNCHANGED <<queryVars, capsVars>>
  <2>1. BaseInv' /\ ForwardInv' /\ Within({"forward"})
    BY <1>1, ForwardNextSafe
  <2>2. DeviceInv' /\ VersionsInv' /\ ToldAgain
    BY <1>1, <2>1, QueriesStay
  <2>3. QED
    BY <1>1, <2>1, <2>2, CapsStay
<1>2. CASE DeviceNext /\ UNCHANGED <<forwardVars, capsVars>>
  BY <1>2, DeviceNextSafe, ForwardStays, CapsStay
<1>3. CASE CapsNext /\ UNCHANGED <<forwardVars, queryVars>>
  <2>1. BaseInv' /\ CapsInv' /\ Within(CapsPlaces) /\ TypeByAuth
    BY <1>3, CapsNextSafe
  <2>2. DeviceInv' /\ VersionsInv' /\ ToldAgain
    <3>1. "section" \notin CapsPlaces /\ "versions" \notin CapsPlaces
      BY DEF CapsPlaces
    <3>2. QED
      BY <1>3, <2>1, <3>1, QueriesStay
  <2>3. QED
    BY <1>3, <2>1, <2>2, ForwardStays
<1>4. CASE SwitchPlugin /\ UNCHANGED <<forwardVars, queryVars, capsVars>>
  <2>1. BaseInv' /\ Within({})
    BY <1>4, SwitchPluginSafe
  <2>2. DeviceInv' /\ VersionsInv' /\ ToldAgain
    BY <1>4, <2>1, QueriesStay
  <2>3. QED
    BY <1>4, <2>1, <2>2, CapsStay, ForwardStays
<1>5. CASE UNCHANGED queriesVars
  <2>1. UNCHANGED <<pc, local, spoiled, active, refs, forwardVars, queryVars, capsVars>>
    BY <1>5 DEF queriesVars, requests, otherVars
  <2>2. BaseInv' /\ Within({})
    BY <2>1, CallsStay, RefsStay DEF BaseInv, Within
  <2>3. DeviceInv' /\ VersionsInv' /\ ToldAgain
    BY <2>1, <2>2, QueriesStay
  <2>4. QED
    BY <2>1, <2>2, <2>3, CapsStay, ForwardStays
<1>6. QED
  BY <1>1, <1>2, <1>3, <1>4, <1>5 DEF QueriesNext

\* The invariant of all queries together.
THEOREM QueriesInvariant == QueriesSpec => []QueriesInv
<1>1. QueriesInit => QueriesInv
  BY QueriesInitSafe
<1>2. QueriesInv /\ [QueriesNext]_queriesVars => QueriesInv'
  BY QueriesNextSafe
<1>3. QED
  BY <1>1, <1>2, PTL DEF QueriesSpec

\* All variables of the queries have their types, and no count of references
\* falls below zero.
THEOREM QueryTypes == QueriesSpec => []QueriesTypeOK
<1>1. QueriesInv => QueriesTypeOK
  BY BaseTypes, ForwardTells, DeviceTells DEF QueriesInv, QueriesTypeOK, CapsInv
<1>2. QED
  BY <1>1, QueriesInvariant, PTL

\* When no call is under way every reference to another plugin was given back,
\* whichever early return or failure the calls before took.
THEOREM ReferencesGivenBack == QueriesSpec => []ReferencesBalanced
<1>1. QueriesInv => ReferencesBalanced
  BY IdleBalanced DEF QueriesInv
<1>2. QED
  BY <1>1, QueriesInvariant, PTL

\* What an answer has had is kept for the next ones: the library's values
\* always, the two addresses unless calls overlap.
THEOREM AnswersAreKept == QueriesSpec => []GivenIsKept
<1>1. QueriesInv => GivenIsKept
  BY DeviceTells DEF QueriesInv
<1>2. QED
  BY <1>1, QueriesInvariant, PTL

\* The migration status told is the one set, a query without success has nothing
\* of what comes behind the build type, and the first features are true.
THEOREM AnswersAreTrue == QueriesSpec => []AnswersTrue
<1>1. QueriesInv => AnswersTrue
  BY ForwardTells, DeviceTells DEF QueriesInv, CapsInv, AnswersTrue
<1>2. QED
  BY <1>1, QueriesInvariant, PTL

\* A receiver version that was told is told again, and only an AuthService that
\* is held leaves a device type empty.
THEOREM ToldAnswersStay == QueriesSpec => AnswersStay
<1>1. QueriesInv /\ [QueriesNext]_queriesVars =>
        [~Met("versions", "overlap") /\ receiverTold \in {"branch", "client"} =>
           receiverTold' = receiverTold]_receiverTold
  BY QueriesNextSafe DEF ToldAgain
<1>2. QueriesInv /\ [QueriesNext]_queriesVars =>
        [typeTold' = "empty" /\ typeTold # "empty" =>
           \E w \in Workers : Loads(w, {"deviceType"}) /\ "AuthService" \in local[w].holds]_typeTold
  BY QueriesNextSafe DEF TypeByAuth
<1>3. QED
  BY <1>1, <1>2, QueriesInvariant, PTL
     DEF QueriesSpec, AnswersStay, ReceiverVersionStays, EmptyTypeFromAuth
=============================================================================
