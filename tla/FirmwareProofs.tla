--------------------------- MODULE FirmwareProofs ---------------------------
(***************************************************************************)
(* For any number of workers, query threads and requests, any answers of   *)
(* the server and any states of the bus: queries end the process only when *)
(* they overlap, the end of the plugin does harm only to what it catches   *)
(* between a test and its use, and an update and a download are told of    *)
(* truly.                                                                  *)
(***************************************************************************)
EXTENDS Firmware, TLAPS

FirmwareLabels ==
  {"checkVersion", "version", "askVersion", "override", "script", "readResults", "checkReport",
   "report", "tell"}

MacLabels == {"fetch", "tellAddresses"}

Labels == FirmwareLabels \union MacLabels \union {"none", "done"}

Answers == Replies \union {NoReply, [NoReply EXCEPT !.http = -1]}

ThreadType ==
  [at : Labels, version : {"", "current", "unknown"}, result : Answers, reply : Answers]

Calls == {[part |-> k] : k \in Kinds}

\* A worker has a call exactly while it is not idle.
CallsOK ==
  /\ pc \in [Workers -> {"idle", "join", "assign"}]
  /\ local \in [Workers -> Calls \union {NoCall}]
  /\ \A w \in Workers : pc[w] # "idle" => local[w] \in Calls

\* Until the server answers, a thread has no answer.
ThreadsOK ==
  /\ thread \in [Threads -> ThreadType]
  /\ \A t \in Threads : thread[t].at = "override" =>
       thread[t].result = NoReply /\ thread[t].reply = NoReply
  /\ \A t \in Threads : thread[t].at \in {"none", "checkVersion", "version", "askVersion"} =>
       thread[t] = [NoThread EXCEPT !.at = thread[t].at]

QueryTypes ==
  /\ handle \in [Kinds -> SUBSET Threads]
  /\ xconfFiles \in Answers
  /\ life \in {"active", "unregistered", "released", "gone"}
  /\ CallsOK /\ ThreadsOK

Serves(w, k) == pc[w] # "idle" /\ local[w].part = k

\* Without an overlap one call at a time serves a kind, and it assigns to a
\* handle that is empty.
AloneOK ==
  \A k \in Kinds : ~Met(k, "overlap") =>
    /\ \A v, w \in Workers : Serves(v, k) /\ Serves(w, k) => v = w
    /\ \A w \in Workers : Serves(w, k) /\ pc[w] = "assign" => handle[k] = {}

\* What is under way after _instance is cleared, and does not test it before it
\* uses the object, was under way when it was cleared.
EndSeen ==
  /\ \A t \in Threads :
       /\ thread[t].at \in {"version", "askVersion"} => Met("life", "asking")
       /\ thread[t].at \in {"report", "tell"} => Met("life", "telling")
       /\ thread[t].at \in MacLabels => Met("life", "mac")
  /\ \A w \in Workers : pc[w] # "idle" =>
       Met("life", "call") /\ (local[w].part = "mac" => Met("life", "mac"))
  /\ notice # NoNotice => Met("life", "bus")

\* Where the process goes on, an object that is gone serves nobody.
EndOK ==
  /\ life # "active" => EndSeen
  /\ life = "gone" /\ fault = "none" => AllIdle /\ notice = NoNotice

Clean == \A s \in spoiled : s.part # "firmware"

Asks(t) == thread[t].at \in FirmwareLabels

\* Where no query met another or a failure, one thread at a time asks the
\* server, and the plugin does not end before it; it knows the version if
\* somebody can be told, and what it read is what the server answered it.
AskOK ==
  \A t \in Threads : Asks(t) =>
    /\ handle["firmware"] = {t} /\ life # "gone"
    /\ At(t, "override") \/ At(t, "script") \/ At(t, "readResults") \/ At(t, "checkReport") =>
         life # "active" \/ thread[t].version = "current"
    /\ At(t, "report") \/ At(t, "tell") => thread[t].version = "current"
    /\ At(t, "readResults") => thread[t].reply = xconfFiles
    /\ At(t, "checkReport") \/ At(t, "report") \/ At(t, "tell") =>
         thread[t].result = thread[t].reply

CleanOK == Clean => AskOK

IInv ==
  /\ QueryTypes /\ AloneOK /\ EndOK /\ CleanOK
  /\ OnlyOverlapTerminates /\ EndDoesNoHarm /\ UpdateToldTruly

-----------------------------------------------------------------------------
(* What a step of a thread keeps.                                          *)

\* What was written down stays written down.
LEMMA MetKept ==
  ASSUME spoiled \subseteq spoiled'
  PROVE  /\ \A part, cause : Met(part, cause) => Met(part, cause)'
         /\ Clean' => Clean
  BY DEF Met, Clean

LEMMA SpoilGrows ==
  ASSUME NEW part, NEW cause, Spoil(part, cause) \/ UNCHANGED spoiled
  PROVE  spoiled \subseteq spoiled'
  BY DEF Spoil

LEMMA FailureSpoils == ASSUME NEW cause, Spoil("firmware", cause) PROVE ~Clean'
<1>1. PICK s : s = [part |-> "firmware", cause |-> cause]
  OBVIOUS
<1>2. s \in spoiled' /\ s.part = "firmware"
  BY <1>1 DEF Spoil
<1>3. QED
  BY <1>2 DEF Clean

\* The thread t runs and goes on as r, in what all threads share.
Moves(t, r) ==
  /\ thread' = [thread EXCEPT ![t] = r]
  /\ UNCHANGED <<pc, local, handle, life, notice, fault>> /\ spoiled \subseteq spoiled'
  /\ thread[t].at \notin {"none", "done"}
  /\ r \in ThreadType /\ r.at \notin {"none", "checkVersion"}
  /\ r.at \in {"version", "askVersion", "report", "tell"} => life = "active"
  /\ r.at \in MacLabels => thread[t].at \in MacLabels
  /\ r.at \in {"version", "askVersion"} => r = [NoThread EXCEPT !.at = r.at]
  /\ r.at = "override" => r.result = NoReply /\ r.reply = NoReply

LEMMA MoveKeeps ==
  ASSUME IInv, NEW t \in Threads, NEW r, Moves(t, r), xconfFiles' \in Answers
  PROVE  QueryTypes' /\ AloneOK' /\ EndOK'
<1>1. /\ thread \in [Threads -> ThreadType] /\ thread' \in [Threads -> ThreadType]
      /\ thread'[t] = r /\ \A u \in Threads \ {t} : thread'[u] = thread[u]
  BY DEF Moves, IInv, QueryTypes, ThreadsOK
<1>2. ThreadsOK'
  <2>1. ASSUME NEW u \in Threads
        PROVE  /\ thread'[u].at = "override" =>
                    thread'[u].result = NoReply /\ thread'[u].reply = NoReply
               /\ thread'[u].at \in {"none", "checkVersion", "version", "askVersion"} =>
                    thread'[u] = [NoThread EXCEPT !.at = thread'[u].at]
    <3>1. CASE u = t
      BY <1>1, <3>1 DEF Moves
    <3>2. CASE u # t
      BY <1>1, <3>2 DEF IInv, QueryTypes, ThreadsOK
    <3>3. QED
      BY <3>1, <3>2
  <2>2. QED
    BY <1>1, <2>1 DEF ThreadsOK
<1>3. CallsOK'
  BY DEF Moves, IInv, QueryTypes, CallsOK
<1>4. QueryTypes'
  BY <1>2, <1>3 DEF Moves, IInv, QueryTypes
<1>5. AloneOK'
  BY MetKept DEF Moves, IInv, AloneOK, Serves
<1>6. EndOK'
  <2>1. SUFFICES ASSUME life # "active" PROVE EndSeen'
    BY DEF Moves, IInv, EndOK, AllIdle
  <2>2. EndSeen
    BY <2>1 DEF IInv, EndOK
  <2>3. ASSUME NEW u \in Threads
        PROVE  /\ thread'[u].at \in {"version", "askVersion"} => Met("life", "asking")'
               /\ thread'[u].at \in {"report", "tell"} => Met("life", "telling")'
               /\ thread'[u].at \in MacLabels => Met("life", "mac")'
    <3>1. CASE u = t
      BY <1>1, <2>1, <2>2, <3>1, MetKept DEF Moves, EndSeen
    <3>2. CASE u # t
      BY <1>1, <2>2, <3>2, MetKept DEF Moves, EndSeen
    <3>3. QED
      BY <3>1, <3>2
  <2>4. QED
    BY <2>2, <2>3, MetKept DEF Moves, EndSeen
<1>7. QED
  BY <1>4, <1>5, <1>6

\* What t has to satisfy as r for AskOK, where the files have the answer a.
Sound(t, r, a) ==
  /\ r.at \in {"override", "script", "readResults", "checkReport"} =>
       life # "active" \/ r.version = "current"
  /\ r.at \in {"report", "tell"} => r.version = "current"
  /\ r.at = "readResults" => r.reply = a
  /\ r.at \in {"checkReport", "report", "tell"} => r.result = r.reply

LEMMA AskSound ==
  ASSUME IInv, Clean, NEW t \in Threads, Asks(t)
  PROVE  Sound(t, thread[t], xconfFiles) /\ handle["firmware"] = {t} /\ life # "gone"
  BY DEF IInv, CleanOK, AskOK, Sound, At

\* Only t asks the server, and it goes on soundly.
LEMMA AskMoves ==
  ASSUME IInv, NEW t \in Threads, NEW r, Moves(t, r), Asks(t),
         Clean' => Sound(t, r, xconfFiles')
  PROVE  CleanOK'
<1> SUFFICES ASSUME Clean' PROVE AskOK'
  BY DEF CleanOK
<1>1. Clean /\ UNCHANGED <<handle, life>>
  BY MetKept DEF Moves
<1>2. /\ thread'[t] = r /\ \A u \in Threads \ {t} : thread'[u] = thread[u]
  BY DEF Moves, IInv, QueryTypes, ThreadsOK
<1>3. handle["firmware"] = {t} /\ life # "gone"
  BY <1>1, AskSound
<1>4. ASSUME NEW u \in Threads, Asks(u)' PROVE u = t
  <2>1. SUFFICES ASSUME u # t PROVE FALSE
    OBVIOUS
  <2>2. Asks(u)
    BY <1>2, <1>4, <2>1 DEF Asks
  <2>3. handle["firmware"] = {u}
    BY <1>1, <2>2, AskSound
  <2>4. QED
    BY <1>3, <2>1, <2>3
<1>5. QED
  BY <1>1, <1>2, <1>3, <1>4 DEF AskOK, Sound, At

\* A thread that fetches addresses does not ask the server.
LEMMA OtherMoves ==
  ASSUME IInv, NEW t \in Threads, NEW r, Moves(t, r), UNCHANGED xconfFiles,
         ~Asks(t), r.at \notin FirmwareLabels
  PROVE  CleanOK'
<1> SUFFICES ASSUME Clean' PROVE AskOK'
  BY DEF CleanOK
<1>1. Clean /\ UNCHANGED <<handle, life>>
  BY MetKept DEF Moves
<1>2. /\ thread'[t] = r /\ \A u \in Threads \ {t} : thread'[u] = thread[u]
  BY DEF Moves, IInv, QueryTypes, ThreadsOK
<1>3. \A u \in Threads : Asks(u)' => Asks(u) /\ u # t
  BY <1>2 DEF Asks
<1>4. QED
  BY <1>1, <1>2, <1>3 DEF IInv, CleanOK, AskOK, At

\* What has happened to the process and what was told stays as it is.
LEMMA EndKept ==
  ASSUME IInv, UNCHANGED <<fault, dyingJobs, updateTold>>, spoiled \subseteq spoiled'
  PROVE  OnlyOverlapTerminates' /\ EndDoesNoHarm' /\ UpdateToldTruly'
  BY MetKept DEF IInv, OnlyOverlapTerminates, EndDoesNoHarm, UpdateToldTruly

-----------------------------------------------------------------------------
(* The steps of the threads.                                               *)

LEMMA ThreadRecord ==
  ASSUME IInv, NEW t \in Threads
  PROVE  /\ thread[t] \in ThreadType /\ thread \in [Threads -> ThreadType]
         /\ thread[t] = [at |-> thread[t].at, version |-> thread[t].version,
                         result |-> thread[t].result, reply |-> thread[t].reply]
  BY DEF IInv, QueryTypes, ThreadsOK, ThreadType

LEMMA CheckVersionInv == ASSUME IInv, NEW t \in Threads, CheckVersion(t) PROVE IInv'
<1> DEFINE r == [NoThread EXCEPT !.at = IF life = "active" THEN "version" ELSE "override"]
<1>1. /\ thread[t] = [NoThread EXCEPT !.at = "checkVersion"] /\ thread[t].at = "checkVersion"
  BY DEF CheckVersion, At, IInv, QueryTypes, ThreadsOK
<1>2. thread' = [thread EXCEPT ![t] = r]
  BY <1>1 DEF CheckVersion, Goto, NoThread
<1>3. Moves(t, r)
  BY <1>1, <1>2 DEF CheckVersion, Moves, ThreadType, Labels, FirmwareLabels, MacLabels, NoThread,
     Answers, requests, lifeVars, stateVars, noticeVars
<1>4. Sound(t, r, xconfFiles')
  BY DEF Sound, NoThread
<1>5. Asks(t)
  BY <1>1 DEF Asks, FirmwareLabels
<1> HIDE DEF r
<1>6. xconfFiles' \in Answers
  BY DEF CheckVersion, IInv, QueryTypes
<1>7. QueryTypes' /\ AloneOK' /\ EndOK'
  BY <1>3, <1>6, MoveKeeps
<1>8. CleanOK'
  BY <1>3, <1>4, <1>5, AskMoves
<1>9. OnlyOverlapTerminates' /\ EndDoesNoHarm' /\ UpdateToldTruly'
  BY <1>3, EndKept DEF CheckVersion, lifeVars, Moves
<1>10. QED
  BY <1>7, <1>8, <1>9 DEF IInv

\* A null pointer is followed where _instance was tested before it was cleared.
LEMMA NullSeen ==
  ASSUME IInv, NEW t \in Threads, life # "active",
         \/ thread[t].at \in {"version", "askVersion"} /\ fault' \in {"nullInstance", "nullShell"}
         \/ thread[t].at = "report" /\ fault' = "nullInstance",
         UNCHANGED <<requests, lifeVars, queryVars, noticeVars>>
  PROVE  IInv'
<1> USE DEF requests, lifeVars, queryVars, noticeVars
<1>1. /\ fault' \in {"nullInstance", "nullShell"}
      /\ Met("life", "asking") \/ (Met("life", "telling") /\ fault' = "nullInstance")
  BY DEF IInv, EndOK, EndSeen
<1>2. QueryTypes'
  BY DEF IInv, QueryTypes, CallsOK, ThreadsOK
<1>3. AloneOK' /\ EndOK'
  BY DEF IInv, AloneOK, EndOK, EndSeen, Met, Serves, AllIdle
<1>4. CleanOK'
  BY DEF IInv, CleanOK, Clean, AskOK, Asks, At
<1>5. OnlyOverlapTerminates' /\ EndDoesNoHarm' /\ UpdateToldTruly'
  BY <1>1 DEF IInv, OnlyOverlapTerminates, EndDoesNoHarm, UpdateToldTruly, Met
<1>6. QED
  BY <1>2, <1>3, <1>4, <1>5 DEF IInv

\* What is read for the call of getStbVersionString ...
LEMMA UseInstanceToAsk ==
  ASSUME IInv, NEW t \in Threads, UseInstance(t), At(t, "version"), life = "active"
  PROVE  IInv'
<1> DEFINE r == [NoThread EXCEPT !.at = "askVersion"]
<1>1. thread[t] = [NoThread EXCEPT !.at = "version"] /\ thread[t].at = "version"
  BY DEF At, IInv, QueryTypes, ThreadsOK
<1>2. UNCHANGED <<requests, lifeVars, handle, xconfFiles, updateTold, stateVars>>
  BY DEF UseInstance
<1>3. thread' = [thread EXCEPT ![t] = r] /\ UNCHANGED fault
  BY <1>1 DEF UseInstance, Goto, NoThread, At
<1>4. Moves(t, r)
  BY <1>1, <1>2, <1>3 DEF Moves, ThreadType, Labels, FirmwareLabels, MacLabels, NoThread,
     Answers, requests, lifeVars, stateVars, noticeVars
<1>5. Sound(t, r, xconfFiles') /\ Asks(t)
  BY <1>1 DEF Sound, NoThread, Asks, FirmwareLabels
<1> HIDE DEF r
<1>6. xconfFiles' \in Answers
  BY <1>2 DEF IInv, QueryTypes
<1>7. QueryTypes' /\ AloneOK' /\ EndOK'
  BY <1>4, <1>6, MoveKeeps
<1>8. CleanOK'
  BY <1>4, <1>5, AskMoves
<1>9. OnlyOverlapTerminates' /\ EndDoesNoHarm' /\ UpdateToldTruly'
  BY <1>2, <1>3, EndKept DEF lifeVars, requests
<1>10. QED
  BY <1>7, <1>8, <1>9 DEF IInv

\* ... and for that of reportFirmwareUpdateInfoReceived.
LEMMA UseInstanceToTell ==
  ASSUME IInv, NEW t \in Threads, UseInstance(t), At(t, "report"), life = "active"
  PROVE  IInv'
<1> DEFINE r == [thread[t] EXCEPT !.at = "tell"]
<1>1. /\ thread[t].at = "report" /\ thread[t] \in ThreadType
      /\ thread \in [Threads -> ThreadType]
  BY ThreadRecord DEF At
<1>2. Asks(t)
  BY <1>1 DEF Asks, FirmwareLabels
<1>3. UNCHANGED <<requests, lifeVars, handle, xconfFiles, updateTold, notice, fault>>
  BY DEF UseInstance, stateVars, noticeVars
<1>4. /\ r \in ThreadType /\ r.at = "tell" /\ r.version = thread[t].version
      /\ r.result = thread[t].result /\ r.reply = thread[t].reply
  BY <1>1 DEF ThreadType, Labels, FirmwareLabels
<1>5. thread' = [thread EXCEPT ![t] = r]
  BY <1>1 DEF UseInstance, Goto, At
<1> HIDE DEF r
<1>6. Moves(t, r)
  BY <1>1, <1>3, <1>4, <1>5 DEF Moves, MacLabels, requests, lifeVars
<1>7. Clean' => Sound(t, r, xconfFiles')
  <2>1. Clean' => Sound(t, thread[t], xconfFiles)
    BY <1>2, <1>6, MetKept, AskSound DEF Moves
  <2>2. QED
    BY <1>1, <1>4, <2>1 DEF Sound
<1>8. QueryTypes' /\ AloneOK' /\ EndOK'
  BY <1>3, <1>6, MoveKeeps DEF IInv, QueryTypes
<1>9. CleanOK'
  BY <1>2, <1>6, <1>7, AskMoves
<1>10. OnlyOverlapTerminates' /\ EndDoesNoHarm' /\ UpdateToldTruly'
  BY <1>3, EndKept DEF requests, lifeVars
<1>11. QED
  BY <1>8, <1>9, <1>10 DEF IInv

LEMMA UseInstanceInv == ASSUME IInv, NEW t \in Threads, UseInstance(t) PROVE IInv'
<1>1. At(t, "version") \/ At(t, "report")
  BY DEF UseInstance
<1>2. CASE life = "active"
  BY <1>1, <1>2, UseInstanceToAsk, UseInstanceToTell
<1>3. CASE life # "active"
  <2>1. fault' = "nullInstance" /\ UNCHANGED thread
    BY <1>3 DEF UseInstance
  <2>2. UNCHANGED <<requests, lifeVars, queryVars, noticeVars>>
    BY <2>1 DEF UseInstance, queryVars, stateVars
  <2>3. QED
    BY <1>1, <1>3, <2>1, <2>2, NullSeen DEF At
<1>4. QED
  BY <1>2, <1>3

LEMMA getStbVersionStringInv ==
  ASSUME IInv, NEW t \in Threads, fault = "none", getStbVersionString(t) PROVE IInv'
<1>1. /\ thread[t] = [NoThread EXCEPT !.at = "askVersion"] /\ thread[t].at = "askVersion"
      /\ thread \in [Threads -> ThreadType]
  BY DEF getStbVersionString, At, IInv, QueryTypes, ThreadsOK
<1>2. Asks(t)
  BY <1>1 DEF Asks, FirmwareLabels
<1>3. xconfFiles' \in Answers
  BY DEF getStbVersionString, IInv, QueryTypes
<1>4. PICK v \in {"none", "current", "unknown"} :
        \/ /\ v = "none" /\ fault' = "nullShell" /\ UNCHANGED <<thread, spoiled>>
           /\ life \notin {"active", "unregistered"}
        \/ /\ v # "none" /\ UNCHANGED fault
           /\ thread' = [thread EXCEPT ![t] = [NoThread EXCEPT !.at = "override", !.version = v]]
           /\ \/ v = "current" /\ UNCHANGED spoiled
              \/ v = "unknown" /\ Spoil("firmware", "failure")
  <2>1. CASE life \in {"active", "unregistered"}
    <3>1. /\ UNCHANGED fault
          /\ \/ /\ thread' = [thread EXCEPT ![t].at = "override", ![t].version = "current"]
                /\ UNCHANGED spoiled
             \/ /\ thread' = [thread EXCEPT ![t].at = "override", ![t].version = "unknown"]
                /\ Spoil("firmware", "failure")
      BY <2>1 DEF getStbVersionString
    <3>2. ASSUME NEW v
          PROVE  [thread EXCEPT ![t].at = "override", ![t].version = v] =
                   [thread EXCEPT ![t] = [NoThread EXCEPT !.at = "override", !.version = v]]
      <4>1. /\ [thread EXCEPT ![t].at = "override", ![t].version = v] =
                 [thread EXCEPT ![t] = [thread[t] EXCEPT !.at = "override", !.version = v]]
            /\ [thread[t] EXCEPT !.at = "override", !.version = v] =
                 [NoThread EXCEPT !.at = "override", !.version = v]
        BY <1>1 DEF NoThread
      <4>2. QED
        BY <4>1
    <3>3. QED
      BY <3>1, <3>2
  <2>2. CASE life \notin {"active", "unregistered"}
    BY <1>1, <2>2 DEF getStbVersionString, NoThread
  <2>3. QED
    BY <2>1, <2>2
<1>5. CASE v = "none"
  <2>1. UNCHANGED <<requests, lifeVars, queryVars, noticeVars>>
    BY <1>4, <1>5 DEF getStbVersionString, requests, queryVars, stateVars
  <2>2. QED
    BY <1>1, <1>4, <1>5, <2>1, NullSeen
<1>6. CASE v # "none"
  <2> DEFINE r == [NoThread EXCEPT !.at = "override", !.version = v]
  <2>1. spoiled \subseteq spoiled'
    BY <1>4, <1>6, SpoilGrows
  <2>2. Moves(t, r)
    BY <1>1, <1>4, <1>6, <2>1 DEF getStbVersionString, Moves, ThreadType, Labels, FirmwareLabels,
       MacLabels, NoThread, Answers, lifeVars, stateVars, noticeVars
  <2>3. Clean' => Sound(t, r, xconfFiles')
    <3>1. Clean' => v = "current"
      BY <1>4, <1>6, FailureSpoils
    <3>2. QED
      BY <3>1 DEF Sound, NoThread
  <2> HIDE DEF r
  <2>4. QueryTypes' /\ AloneOK' /\ EndOK'
    BY <1>3, <2>2, MoveKeeps
  <2>5. CleanOK'
    BY <1>2, <2>2, <2>3, AskMoves
  <2>6. OnlyOverlapTerminates' /\ EndDoesNoHarm' /\ UpdateToldTruly'
    BY <1>4, <1>6, <2>1, EndKept DEF getStbVersionString, lifeVars
  <2>7. QED
    BY <2>4, <2>5, <2>6 DEF IInv
<1>7. QED
  BY <1>5, <1>6

LEMMA getXconfOverrideUrlInv ==
  ASSUME IInv, NEW t \in Threads, getXconfOverrideUrl(t) PROVE IInv'
<1>1. /\ thread[t].at = "override" /\ thread[t].result = NoReply /\ thread[t].reply = NoReply
      /\ thread \in [Threads -> ThreadType]
  BY DEF getXconfOverrideUrl, At, IInv, QueryTypes, ThreadsOK
<1>2. Asks(t)
  BY <1>1 DEF Asks, FirmwareLabels
<1>3. PICK r \in ThreadType :
        /\ thread' = [thread EXCEPT ![t] = r]
        /\ r.version = thread[t].version /\ r.at \in {"checkReport", "script"}
        /\ r.result = r.reply
  <2>1. CASE Goto(t, "script")
    <3> DEFINE r == [thread[t] EXCEPT !.at = "script"]
    <3>1. r \in ThreadType /\ r.version = thread[t].version /\ r.at = "script" /\ r.result = r.reply
      BY <1>1 DEF ThreadType, Labels, FirmwareLabels
    <3>2. thread' = [thread EXCEPT ![t] = r]
      BY <1>1, <2>1 DEF Goto
    <3>3. QED
      BY <3>1, <3>2
  <2>2. CASE thread' = [thread EXCEPT ![t].at = "checkReport", ![t].result.http = -1,
                                      ![t].reply.http = -1]
    <3> DEFINE a == [NoReply EXCEPT !.http = -1]
               r == [thread[t] EXCEPT !.at = "checkReport", !.result = a, !.reply = a]
    <3>1. a \in Answers
      BY DEF Answers
    <3>2. thread' = [thread EXCEPT ![t] = r]
      <4>1. thread[t].result = NoReply /\ thread[t].reply = NoReply
        BY <1>1
      <4>2. /\ thread[t] \in ThreadType
            /\ thread' = [thread EXCEPT ![t] =
                 [thread[t] EXCEPT !.at = "checkReport", !.result = [@ EXCEPT !.http = -1],
                                   !.reply = [@ EXCEPT !.http = -1]]]
        BY <1>1, <2>2 DEF ThreadType
      <4>3. QED
        BY <4>1, <4>2 DEF ThreadType
    <3> HIDE DEF a
    <3>3. r \in ThreadType /\ r.version = thread[t].version /\ r.at = "checkReport"
          /\ r.result = r.reply
      BY <1>1, <3>1 DEF ThreadType, Labels, FirmwareLabels
    <3>4. QED
      BY <3>2, <3>3
  <2>3. QED
    BY <2>1, <2>2 DEF getXconfOverrideUrl
<1>4. UNCHANGED <<requests, lifeVars, handle, xconfFiles, updateTold, notice, fault>>
  BY DEF getXconfOverrideUrl, stateVars, noticeVars
<1>5. Moves(t, r)
  BY <1>1, <1>3, <1>4 DEF Moves, MacLabels, requests, lifeVars
<1>6. Clean' => Sound(t, r, xconfFiles')
  <2>1. Clean' => Sound(t, thread[t], xconfFiles)
    BY <1>2, <1>5, MetKept, AskSound DEF Moves
  <2>2. QED
    BY <1>1, <1>3, <2>1 DEF Sound
<1>7. QueryTypes' /\ AloneOK' /\ EndOK'
  BY <1>4, <1>5, MoveKeeps DEF IInv, QueryTypes
<1>8. CleanOK'
  BY <1>2, <1>5, <1>6, AskMoves
<1>9. OnlyOverlapTerminates' /\ EndDoesNoHarm' /\ UpdateToldTruly'
  BY <1>4, EndKept DEF requests, lifeVars
<1>10. QED
  BY <1>7, <1>8, <1>9 DEF IInv

LEMMA RunScriptInv == ASSUME IInv, NEW t \in Threads, RunScript(t) PROVE IInv'
<1>1. /\ thread[t].at = "script" /\ thread[t] \in ThreadType /\ thread \in [Threads -> ThreadType]
  BY ThreadRecord DEF RunScript, At
<1>2. Asks(t)
  BY <1>1 DEF Asks, FirmwareLabels
<1>3. UNCHANGED <<pc, local, lifeVars, handle, updateTold, notice, fault>>
  BY DEF RunScript, stateVars, noticeVars
<1>4. PICK r \in ThreadType :
        /\ thread' = [thread EXCEPT ![t] = r]
        /\ r.version = thread[t].version /\ r.at = "readResults"
        /\ \/ r.reply = xconfFiles' /\ xconfFiles' \in Answers /\ UNCHANGED spoiled
           \/ Spoil("firmware", "failure") /\ UNCHANGED xconfFiles
  <2>1. CASE \E reply \in Replies :
               /\ xconfFiles' = reply
               /\ thread' = [thread EXCEPT ![t].at = "readResults", ![t].reply = reply]
               /\ UNCHANGED spoiled
    <3>1. PICK reply \in Replies :
               /\ xconfFiles' = reply
               /\ thread' = [thread EXCEPT ![t].at = "readResults", ![t].reply = reply]
               /\ UNCHANGED spoiled
      BY <2>1
    <3> DEFINE r == [thread[t] EXCEPT !.at = "readResults", !.reply = reply]
    <3>2. r \in ThreadType /\ r.version = thread[t].version /\ r.at = "readResults"
          /\ r.reply = reply
      BY <1>1 DEF ThreadType, Labels, FirmwareLabels, Answers
    <3>3. thread' = [thread EXCEPT ![t] = r]
      BY <1>1, <3>1
    <3>4. reply \in Answers
      BY DEF Answers
    <3>5. QED
      BY <3>1, <3>2, <3>3, <3>4
  <2>2. CASE Goto(t, "readResults") /\ Spoil("firmware", "failure") /\ UNCHANGED xconfFiles
    <3> DEFINE r == [thread[t] EXCEPT !.at = "readResults"]
    <3>1. r \in ThreadType /\ r.version = thread[t].version /\ r.at = "readResults"
      BY <1>1 DEF ThreadType, Labels, FirmwareLabels
    <3>2. thread' = [thread EXCEPT ![t] = r]
      BY <1>1, <2>2 DEF Goto
    <3>3. QED
      BY <2>2, <3>1, <3>2
  <2>3. QED
    BY <2>1, <2>2 DEF RunScript
<1>5. spoiled \subseteq spoiled'
  BY <1>4, SpoilGrows
<1>6. Moves(t, r)
  BY <1>1, <1>3, <1>4, <1>5 DEF Moves, MacLabels, lifeVars
<1>7. Clean' => Sound(t, r, xconfFiles')
  <2>1. Clean' => r.reply = xconfFiles'
    BY <1>4, FailureSpoils
  <2>2. Clean' => Sound(t, thread[t], xconfFiles)
    BY <1>2, <1>5, MetKept, AskSound
  <2>3. QED
    BY <1>1, <1>4, <2>1, <2>2 DEF Sound
<1>8. QueryTypes' /\ AloneOK' /\ EndOK'
  BY <1>4, <1>6, MoveKeeps DEF IInv, QueryTypes
<1>9. CleanOK'
  BY <1>2, <1>6, <1>7, AskMoves
<1>10. OnlyOverlapTerminates' /\ EndDoesNoHarm' /\ UpdateToldTruly'
  BY <1>3, <1>5, EndKept DEF lifeVars
<1>11. QED
  BY <1>8, <1>9, <1>10 DEF IInv

LEMMA ReadResultsInv == ASSUME IInv, NEW t \in Threads, ReadResults(t) PROVE IInv'
<1> DEFINE r == [thread[t] EXCEPT !.at = "checkReport", !.result = xconfFiles]
<1>1. /\ thread[t].at = "readResults" /\ thread[t] \in ThreadType
      /\ thread \in [Threads -> ThreadType] /\ xconfFiles \in Answers
  BY ThreadRecord DEF ReadResults, At, IInv, QueryTypes
<1>2. Asks(t)
  BY <1>1 DEF Asks, FirmwareLabels
<1>3. UNCHANGED <<requests, lifeVars, handle, xconfFiles, updateTold, notice, fault>>
  BY DEF ReadResults, stateVars, noticeVars
<1>4. /\ r \in ThreadType /\ r.version = thread[t].version /\ r.at = "checkReport"
      /\ r.result = xconfFiles /\ r.reply = thread[t].reply
  BY <1>1 DEF ThreadType, Labels, FirmwareLabels
<1>5. thread' = [thread EXCEPT ![t] = r]
  BY <1>1 DEF ReadResults
<1> HIDE DEF r
<1>6. Moves(t, r)
  BY <1>1, <1>3, <1>4, <1>5 DEF Moves, MacLabels, requests, lifeVars
<1>7. Clean' => Sound(t, r, xconfFiles')
  <2>1. Clean' => Sound(t, thread[t], xconfFiles)
    BY <1>2, <1>6, MetKept, AskSound DEF Moves
  <2>2. QED
    BY <1>1, <1>4, <2>1 DEF Sound
<1>8. QueryTypes' /\ AloneOK' /\ EndOK'
  BY <1>1, <1>3, <1>6, MoveKeeps
<1>9. CleanOK'
  BY <1>2, <1>6, <1>7, AskMoves
<1>10. OnlyOverlapTerminates' /\ EndDoesNoHarm' /\ UpdateToldTruly'
  BY <1>3, EndKept DEF requests, lifeVars
<1>11. QED
  BY <1>8, <1>9, <1>10 DEF IInv

LEMMA CheckReportInv == ASSUME IInv, NEW t \in Threads, CheckReport(t) PROVE IInv'
<1> DEFINE r == [thread[t] EXCEPT !.at = IF life = "active" THEN "report" ELSE "done"]
<1>1. /\ thread[t].at = "checkReport" /\ thread[t] \in ThreadType
      /\ thread \in [Threads -> ThreadType]
  BY ThreadRecord DEF CheckReport, At
<1>2. Asks(t)
  BY <1>1 DEF Asks, FirmwareLabels
<1>3. UNCHANGED <<requests, lifeVars, handle, xconfFiles, updateTold, notice, fault>>
  BY DEF CheckReport, stateVars, noticeVars
<1>4. /\ r \in ThreadType /\ r.version = thread[t].version
      /\ r.at = (IF life = "active" THEN "report" ELSE "done")
      /\ r.result = thread[t].result /\ r.reply = thread[t].reply
  BY <1>1 DEF ThreadType, Labels, FirmwareLabels
<1>5. thread' = [thread EXCEPT ![t] = r]
  BY <1>1 DEF CheckReport, Goto
<1> HIDE DEF r
<1>6. Moves(t, r)
  BY <1>1, <1>3, <1>4, <1>5 DEF Moves, MacLabels, requests, lifeVars
<1>7. Clean' => Sound(t, r, xconfFiles')
  <2>1. Clean' => Sound(t, thread[t], xconfFiles)
    BY <1>2, <1>6, MetKept, AskSound DEF Moves
  <2>2. QED
    BY <1>1, <1>4, <2>1 DEF Sound
<1>8. QueryTypes' /\ AloneOK' /\ EndOK'
  BY <1>3, <1>6, MoveKeeps DEF IInv, QueryTypes
<1>9. CleanOK'
  BY <1>2, <1>6, <1>7, AskMoves
<1>10. OnlyOverlapTerminates' /\ EndDoesNoHarm' /\ UpdateToldTruly'
  BY <1>3, EndKept DEF requests, lifeVars
<1>11. QED
  BY <1>8, <1>9, <1>10 DEF IInv

LEMMA ReportInv ==
  ASSUME IInv, NEW t \in Threads, reportFirmwareUpdateInfoReceived(t) PROVE IInv'
<1> DEFINE r == [thread[t] EXCEPT !.at = "done"]
<1>1. /\ thread[t].at = "tell" /\ thread[t] \in ThreadType
      /\ thread \in [Threads -> ThreadType]
  BY ThreadRecord DEF reportFirmwareUpdateInfoReceived, At
<1>2. Asks(t)
  BY <1>1 DEF Asks, FirmwareLabels
<1>3. UNCHANGED <<requests, life, handle, xconfFiles, notice, fault>>
  BY DEF reportFirmwareUpdateInfoReceived, stateVars, noticeVars
<1>4. r \in ThreadType /\ r.at = "done"
  BY <1>1 DEF ThreadType, Labels
<1>5. thread' = [thread EXCEPT ![t] = r]
  BY <1>1 DEF reportFirmwareUpdateInfoReceived, Goto
<1> HIDE DEF r
<1>6. Moves(t, r)
  BY <1>1, <1>3, <1>4, <1>5 DEF Moves, MacLabels, requests
<1>7. Sound(t, r, xconfFiles')
  BY <1>4 DEF Sound
<1>8. QueryTypes' /\ AloneOK' /\ EndOK'
  BY <1>3, <1>6, MoveKeeps DEF IInv, QueryTypes
<1>9. CleanOK'
  BY <1>2, <1>6, <1>7, AskMoves
<1>10. OnlyOverlapTerminates' /\ EndDoesNoHarm'
  <2>1. dyingJobs' => dyingJobs \/ life # "active"
    BY DEF reportFirmwareUpdateInfoReceived
  <2>2. UNCHANGED <<spoiled, fault>>
    BY <1>3 DEF requests
  <2>3. life # "active" => Met("life", "telling")
    BY <1>1 DEF IInv, EndOK, EndSeen
  <2>4. QED
    BY <2>1, <2>2, <2>3 DEF IInv, OnlyOverlapTerminates, EndDoesNoHarm, Met
<1>11. UpdateToldTruly'
  <2>1. SUFFICES ASSUME Clean, updateTold'.enum = "available"
                 PROVE  updateTold'.offered \notin {"none", "current"}
    BY <1>3 DEF UpdateToldTruly, Clean, requests
  <2>2. /\ thread[t].version = "current" /\ thread[t].result = thread[t].reply
    BY <1>1, <1>2, <2>1, AskSound DEF Sound
  <2>3. /\ updateTold'.enum = updateAvailableEnum(thread[t].result, thread[t].version)
        /\ updateTold'.offered = thread[t].reply.offered
    BY DEF reportFirmwareUpdateInfoReceived
  <2>4. QED
    BY <2>1, <2>2, <2>3 DEF updateAvailableEnum
<1>12. QED
  BY <1>8, <1>9, <1>10, <1>11 DEF IInv

LEMMA MacStepInv ==
  ASSUME IInv, NEW t \in Threads, Fetch(t) \/ TellAddresses(t) PROVE IInv'
<1>1. /\ thread[t].at \in MacLabels /\ thread[t] \in ThreadType
      /\ thread \in [Threads -> ThreadType]
  BY ThreadRecord DEF Fetch, TellAddresses, At, MacLabels
<1>2. PICK l \in {"tellAddresses", "done"} : Goto(t, l)
  BY DEF Fetch, TellAddresses
<1> DEFINE r == [thread[t] EXCEPT !.at = l]
<1>3. /\ UNCHANGED <<requests, life, handle, xconfFiles, updateTold, notice, fault>>
      /\ dyingJobs' => (dyingJobs \/ life # "active")
  <2>1. CASE Fetch(t)
    BY <2>1 DEF Fetch, lifeVars, stateVars, noticeVars
  <2>2. CASE TellAddresses(t)
    BY <2>2 DEF TellAddresses, stateVars, noticeVars
  <2>3. QED
    BY <2>1, <2>2
<1>4. r \in ThreadType /\ r.at = l
  BY <1>1 DEF ThreadType, Labels, MacLabels
<1>5. thread' = [thread EXCEPT ![t] = r]
  BY <1>1, <1>2 DEF Goto
<1> HIDE DEF r
<1>6. Moves(t, r)
  BY <1>1, <1>3, <1>4, <1>5 DEF Moves, requests, MacLabels
<1>7. ~Asks(t) /\ r.at \notin FirmwareLabels
  BY <1>1, <1>4 DEF Asks, FirmwareLabels, MacLabels
<1>8. QueryTypes' /\ AloneOK' /\ EndOK'
  BY <1>3, <1>6, MoveKeeps DEF IInv, QueryTypes
<1>9. CleanOK'
  BY <1>3, <1>6, <1>7, OtherMoves
<1>10. OnlyOverlapTerminates' /\ EndDoesNoHarm' /\ UpdateToldTruly'
  <2>1. UNCHANGED <<spoiled, fault, updateTold>>
    BY <1>3 DEF requests
  <2>2. life # "active" => Met("life", "mac")
    BY <1>1 DEF IInv, EndOK, EndSeen
  <2>3. dyingJobs' => dyingJobs \/ Met("life", "mac")
    BY <1>3, <2>2
  <2>4. QED
    BY <2>1, <2>3 DEF IInv, OnlyOverlapTerminates, EndDoesNoHarm, UpdateToldTruly, Met
<1>11. QED
  BY <1>8, <1>9, <1>10 DEF IInv

-----------------------------------------------------------------------------
(* The calls.                                                              *)

\* The threads and what was told stay; what t asks is asked of a handle that
\* does not change, unless nobody asks.
LEMMA ThreadsKept ==
  ASSUME IInv, UNCHANGED <<thread, xconfFiles, life>>, spoiled \subseteq spoiled',
         Clean /\ handle'["firmware"] # handle["firmware"] => \A t \in Threads : ~Asks(t)
  PROVE  ThreadsOK' /\ CleanOK'
<1>1. ThreadsOK'
  BY DEF IInv, QueryTypes, ThreadsOK
<1>2. CleanOK'
  <2>1. SUFFICES ASSUME Clean' PROVE AskOK'
    BY DEF CleanOK
  <2>2. Clean
    BY <2>1, MetKept
  <2>3. CASE handle'["firmware"] = handle["firmware"]
    BY <2>2, <2>3 DEF IInv, CleanOK, AskOK, Asks, At
  <2>4. CASE handle'["firmware"] # handle["firmware"]
    BY <2>2, <2>4 DEF AskOK, Asks
  <2>5. QED
    BY <2>3, <2>4
<1>3. QED
  BY <1>1, <1>2

LEMMA WorkerServes ==
  ASSUME IInv, NEW w \in Workers, pc[w] # "idle", fault = "none"
  PROVE  life # "gone" /\ \E k \in Kinds : local[w] = [part |-> k] /\ local[w].part = k
  BY DEF IInv, EndOK, AllIdle, QueryTypes, CallsOK, Calls

LEMMA OverlapsGrows == ASSUME NEW part, Overlaps(part) PROVE spoiled \subseteq spoiled'
  BY DEF Overlaps, Spoil

LEMMA OverlapsMet == ASSUME NEW part, Overlaps(part), Busy(part) PROVE Met(part, "overlap")'
  BY DEF Overlaps, Spoil, Met

LEMMA QueryInv == ASSUME IInv, NEW w \in Workers, NEW kind \in Kinds, Query(w, kind) PROVE IInv'
<1>1. PICK c \in Calls : c = [part |-> kind] /\ c.part = kind
  <2>1. [part |-> kind] \in Calls /\ [part |-> kind].part = kind
    BY DEF Calls
  <2>2. QED
    BY <2>1
<1>2. PICK l \in {"assign", "join"} : l = IF handle[kind] = {} THEN "assign" ELSE "join"
  OBVIOUS
<1>3. /\ pc[w] = "idle" /\ pc' = [pc EXCEPT ![w] = l] /\ local' = [local EXCEPT ![w] = c]
      /\ life = "active" /\ Overlaps(kind)
      /\ UNCHANGED <<life, dyingJobs, handle, thread, xconfFiles, updateTold, notice, fault>>
  BY <1>1, <1>2 DEF stateVars, noticeVars, Query, Start, lifeVars, queryVars
<1>4. /\ pc \in [Workers -> {"idle", "join", "assign"}]
      /\ local \in [Workers -> Calls \union {NoCall}]
  BY DEF IInv, QueryTypes, CallsOK
<1>5. spoiled \subseteq spoiled'
  BY <1>3, OverlapsGrows
<1>6. CallsOK'
  <2>1. \A v \in Workers : pc[v] # "idle" => local[v] \in Calls
    BY DEF IInv, QueryTypes, CallsOK
  <2>2. QED
    BY <1>3, <1>4, <2>1 DEF CallsOK
<1>7. ThreadsOK' /\ CleanOK'
  BY <1>3, <1>5, ThreadsKept
<1>8. QueryTypes'
  BY <1>3, <1>6, <1>7 DEF IInv, QueryTypes
<1>9. AloneOK'
  <2>1. SUFFICES ASSUME NEW k \in Kinds, ~Met(k, "overlap")'
                 PROVE  /\ \A u, v \in Workers : Serves(u, k)' /\ Serves(v, k)' => u = v
                        /\ \A v \in Workers : Serves(v, k)' /\ pc'[v] = "assign" => handle'[k] = {}
    BY DEF AloneOK
  <2>2. ~Met(k, "overlap")
    BY <1>5, <2>1, MetKept
  <2>3. \A v \in Workers \ {w} : pc'[v] = pc[v] /\ local'[v] = local[v]
    BY <1>3, <1>4
  <2>4. pc'[w] = l /\ local'[w].part = kind
    BY <1>1, <1>3, <1>4
  <2>5. CASE k = kind
    <3>1. \A v \in Workers : ~Serves(v, k)
      BY <1>3, <2>1, <2>5, OverlapsMet DEF Busy, Serves
    <3>2. QED
      BY <1>2, <1>3, <2>3, <2>4, <2>5, <3>1 DEF Serves
  <2>6. CASE k # kind
    <3>1. \A v \in Workers : Serves(v, k)' => v # w /\ Serves(v, k) /\ pc'[v] = pc[v]
      BY <2>3, <2>4, <2>6 DEF Serves
    <3>2. QED
      BY <1>3, <2>2, <3>1 DEF IInv, AloneOK
  <2>7. QED
    BY <2>5, <2>6
<1>10. EndOK'
  BY <1>3 DEF EndOK
<1>11. OnlyOverlapTerminates' /\ EndDoesNoHarm' /\ UpdateToldTruly'
  BY <1>3, <1>5, EndKept
<1>12. QED
  BY <1>7, <1>8, <1>9, <1>10, <1>11 DEF IInv

\* A worker goes on, or is done, with the call it has.
LEMMA CallGoesOn ==
  ASSUME IInv, NEW w \in Workers, pc[w] # "idle", NEW l \in {"idle", "assign"},
         pc' = [pc EXCEPT ![w] = l],
         local' = [local EXCEPT ![w] = IF l = "idle" THEN NoCall ELSE local[w]]
  PROVE  /\ CallsOK'
         /\ \A v \in Workers, k \in Kinds :
              Serves(v, k)' => Serves(v, k) /\ (v = w => l # "idle")
         /\ \A v \in Workers \ {w} : pc'[v] = pc[v]
<1>1. /\ pc \in [Workers -> {"idle", "join", "assign"}]
      /\ local \in [Workers -> Calls \union {NoCall}]
      /\ \A v \in Workers : pc[v] # "idle" => local[v] \in Calls
  BY DEF IInv, QueryTypes, CallsOK
<1>2. CallsOK'
  BY <1>1 DEF CallsOK
<1>3. QED
  BY <1>1, <1>2 DEF Serves

LEMMA CallParts ==
  ASSUME IInv, NEW w \in Workers, pc[w] # "idle", NEW l \in {"idle", "assign"},
         pc' = [pc EXCEPT ![w] = l],
         local' = [local EXCEPT ![w] = IF l = "idle" THEN NoCall ELSE local[w]],
         NEW v \in Workers, pc'[v] # "idle"
  PROVE  pc[v] # "idle" /\ local'[v].part = local[v].part
  BY DEF IInv, QueryTypes, CallsOK

LEMMA JoinInv == ASSUME IInv, NEW w \in Workers, fault = "none", Join(w) PROVE IInv'
<1>1. PICK kind \in Kinds : local[w].part = kind /\ life # "gone" /\ pc[w] = "join"
  BY WorkerServes DEF Join
<1>2. PICK l \in {"idle", "assign"} :
        /\ pc' = [pc EXCEPT ![w] = l]
        /\ local' = [local EXCEPT ![w] = IF l = "idle" THEN NoCall ELSE local[w]]
        /\ \/ l = "idle" /\ UNCHANGED handle
           \/ /\ l = "assign" /\ handle' = [handle EXCEPT ![kind] = {}]
              /\ \E t \in handle[kind] : thread[t].at = "done"
  <2>1. CASE handle[kind] = {} /\ Finish(w) /\ UNCHANGED handle
    BY <2>1 DEF Finish, Step
  <2>2. CASE /\ \E t \in handle[kind] : thread[t].at = "done"
             /\ handle' = [handle EXCEPT ![kind] = {}]
             /\ Step(w, "assign", local[w])
    BY <2>2 DEF Step
  <2>3. QED
    BY <1>1, <2>1, <2>2 DEF Join
<1>3. UNCHANGED <<spoiled, life, dyingJobs, thread, xconfFiles, updateTold, notice, fault>>
  BY DEF Join, lifeVars, stateVars, noticeVars
<1>4. handle \in [Kinds -> SUBSET Threads] /\ spoiled \subseteq spoiled'
  BY <1>3 DEF IInv, QueryTypes
<1>5. /\ CallsOK' /\ \A v \in Workers \ {w} : pc'[v] = pc[v]
      /\ \A v \in Workers, k \in Kinds : Serves(v, k)' => Serves(v, k) /\ (v = w => l # "idle")
  BY <1>1, <1>2, CallGoesOn
<1>6. Clean /\ handle'["firmware"] # handle["firmware"] => \A t \in Threads : ~Asks(t)
  <2>1. SUFFICES ASSUME Clean, handle'["firmware"] # handle["firmware"], NEW u \in Threads, Asks(u)
                 PROVE  FALSE
    OBVIOUS
  <2>2. PICK t \in handle["firmware"] : thread[t].at = "done"
    BY <1>2, <1>4, <2>1 DEF Kinds
  <2>3. t = u
    BY <2>1, <2>2, AskSound
  <2>4. QED
    BY <2>1, <2>2, <2>3 DEF Asks, FirmwareLabels
<1>7. ThreadsOK' /\ CleanOK'
  BY <1>3, <1>4, <1>6, ThreadsKept
<1>8. handle' \in [Kinds -> SUBSET Threads]
  BY <1>2, <1>4
<1>9. QueryTypes'
  BY <1>3, <1>5, <1>7, <1>8 DEF IInv, QueryTypes
<1>10. AloneOK'
  <2>1. SUFFICES ASSUME NEW k \in Kinds, ~Met(k, "overlap")'
                 PROVE  /\ \A u, v \in Workers : Serves(u, k)' /\ Serves(v, k)' => u = v
                        /\ \A v \in Workers : Serves(v, k)' /\ pc'[v] = "assign" => handle'[k] = {}
    BY DEF AloneOK
  <2>2. /\ \A u, v \in Workers : Serves(u, k) /\ Serves(v, k) => u = v
        /\ \A v \in Workers : Serves(v, k) /\ pc[v] = "assign" => handle[k] = {}
    BY <1>3, <2>1 DEF IInv, AloneOK, Met
  <2>3. handle[k] = {} => handle'[k] = {}
    BY <1>2, <1>4
  <2>4. Serves(w, k)' => handle'[k] = {}
    <3>1. SUFFICES ASSUME Serves(w, k)' PROVE handle'[k] = {}
      OBVIOUS
    <3>2. l = "assign" /\ k = kind
      BY <1>1, <1>5, <3>1 DEF Serves
    <3>3. QED
      BY <1>2, <1>4, <3>2
  <2>5. QED
    BY <1>5, <2>2, <2>3, <2>4
<1>11. EndOK'
  <2>1. SUFFICES ASSUME life # "active" PROVE EndSeen'
    BY <1>1, <1>3 DEF EndOK
  <2>2. EndSeen
    BY <2>1 DEF IInv, EndOK
  <2>3. ASSUME NEW v \in Workers, pc'[v] # "idle"
        PROVE  Met("life", "call")' /\ (local'[v].part = "mac" => Met("life", "mac")')
    <3>1. pc[v] # "idle" /\ local'[v].part = local[v].part
      BY <1>1, <1>2, <2>3, CallParts
    <3>2. QED
      BY <1>3, <2>2, <3>1 DEF EndSeen, Met
  <2>4. QED
    BY <1>3, <2>2, <2>3 DEF EndSeen, Met
<1>12. OnlyOverlapTerminates' /\ EndDoesNoHarm' /\ UpdateToldTruly'
  BY <1>3, <1>4, EndKept
<1>13. QED
  BY <1>7, <1>9, <1>10, <1>11, <1>12 DEF IInv

LEMMA AssignInv == ASSUME IInv, NEW w \in Workers, fault = "none", Assign(w) PROVE IInv'
<1>1. PICK kind \in Kinds : local[w].part = kind /\ life # "gone" /\ pc[w] = "assign"
  BY WorkerServes DEF Assign
<1>2. PICK t \in Threads :
        /\ thread[t].at = "none"
        /\ thread' = [thread EXCEPT ![t].at = FirstStep[kind]]
        /\ handle' = [handle EXCEPT ![kind] = {t}]
        /\ fault' = IF handle[kind] = {} THEN fault ELSE "terminate"
  BY <1>1 DEF Assign
<1>3. /\ pc' = [pc EXCEPT ![w] = "idle"] /\ local' = [local EXCEPT ![w] = NoCall]
      /\ UNCHANGED <<spoiled, life, dyingJobs, xconfFiles, updateTold, notice>>
  BY DEF Assign, Finish, Step, lifeVars, stateVars, noticeVars
<1>4. /\ thread \in [Threads -> ThreadType] /\ handle \in [Kinds -> SUBSET Threads]
      /\ thread[t] = [NoThread EXCEPT !.at = "none"]
  BY <1>2 DEF IInv, QueryTypes, ThreadsOK
<1>5. PICK r \in ThreadType :
        /\ r = [NoThread EXCEPT !.at = FirstStep[kind]]
        /\ r.at = (IF kind = "firmware" THEN "checkVersion" ELSE "fetch")
  <2>1. /\ FirstStep[kind] = (IF kind = "firmware" THEN "checkVersion" ELSE "fetch")
        /\ FirstStep[kind] \in Labels /\ NoReply \in Answers
    BY DEF FirstStep, Kinds, Labels, FirmwareLabels, MacLabels, Answers
  <2> DEFINE x == [NoThread EXCEPT !.at = FirstStep[kind]]
  <2>2. x \in ThreadType /\ x.at = FirstStep[kind]
    BY <2>1 DEF ThreadType, NoThread
  <2>3. QED
    BY <2>1, <2>2
<1>6. thread' = [thread EXCEPT ![t] = r]
  BY <1>2, <1>4, <1>5 DEF NoThread
<1>7. /\ thread'[t] = r /\ \A u \in Threads \ {t} : thread'[u] = thread[u]
      /\ handle'[kind] = {t} /\ \A k \in Kinds \ {kind} : handle'[k] = handle[k]
  BY <1>2, <1>4, <1>6
<1>8. /\ CallsOK' /\ \A v \in Workers \ {w} : pc'[v] = pc[v]
      /\ \A v \in Workers, k \in Kinds : Serves(v, k)' => Serves(v, k) /\ v # w
  <2>1. PICK l \in {"idle", "assign"} : l = "idle"
    OBVIOUS
  <2>2. QED
    BY <1>1, <1>3, <2>1, CallGoesOn
<1>9. QueryTypes'
  <2>1. ThreadsOK'
    <3>1. ASSUME NEW u \in Threads
          PROVE  /\ thread'[u].at = "override" =>
                      thread'[u].result = NoReply /\ thread'[u].reply = NoReply
                 /\ thread'[u].at \in {"none", "checkVersion", "version", "askVersion"} =>
                      thread'[u] = [NoThread EXCEPT !.at = thread'[u].at]
      <4>1. CASE u = t
        BY <1>5, <1>7, <4>1 DEF NoThread
      <4>2. CASE u # t
        BY <1>7, <4>2 DEF IInv, QueryTypes, ThreadsOK
      <4>3. QED
        BY <4>1, <4>2
    <3>2. thread' \in [Threads -> ThreadType]
      BY <1>4, <1>6
    <3>3. QED
      BY <3>1, <3>2 DEF ThreadsOK
  <2>2. handle' \in [Kinds -> SUBSET Threads]
    BY <1>2, <1>4
  <2>3. QED
    BY <1>3, <1>8, <2>1, <2>2 DEF IInv, QueryTypes
<1>10. \A k \in Kinds : ~Met(k, "overlap") =>
         /\ \A u, v \in Workers : Serves(u, k) /\ Serves(v, k) => u = v
         /\ \A v \in Workers : Serves(v, k) /\ pc[v] = "assign" => handle[k] = {}
  BY DEF IInv, AloneOK
<1>11. Serves(w, kind) /\ (~Met(kind, "overlap") => handle[kind] = {})
  BY <1>1, <1>10 DEF Serves
<1>12. AloneOK'
  <2>1. SUFFICES ASSUME NEW k \in Kinds, ~Met(k, "overlap")'
                 PROVE  /\ \A u, v \in Workers : Serves(u, k)' /\ Serves(v, k)' => u = v
                        /\ \A v \in Workers : Serves(v, k)' /\ pc'[v] = "assign" => handle'[k] = {}
    BY DEF AloneOK
  <2>2. ~Met(k, "overlap")
    BY <1>3, <2>1 DEF Met
  <2>3. CASE k = kind
    BY <1>8, <1>10, <1>11, <2>2, <2>3
  <2>4. CASE k # kind
    BY <1>7, <1>8, <1>10, <2>2, <2>4
  <2>5. QED
    BY <2>3, <2>4
<1>13. EndOK'
  <2>1. SUFFICES ASSUME life # "active" PROVE EndSeen'
    BY <1>1, <1>3 DEF EndOK
  <2>2. EndSeen
    BY <2>1 DEF IInv, EndOK
  <2>3. ASSUME NEW u \in Threads
        PROVE  /\ thread'[u].at \in {"version", "askVersion"} => Met("life", "asking")'
               /\ thread'[u].at \in {"report", "tell"} => Met("life", "telling")'
               /\ thread'[u].at \in MacLabels => Met("life", "mac")'
    <3>1. CASE u # t
      BY <1>3, <1>7, <2>2, <3>1 DEF EndSeen, Met
    <3>2. CASE u = t /\ kind = "firmware"
      BY <1>5, <1>7, <3>2 DEF MacLabels
    <3>3. CASE u = t /\ kind = "mac"
      BY <1>1, <1>3, <1>5, <1>7, <2>2, <3>3 DEF EndSeen, Met
    <3>4. QED
      BY <3>1, <3>2, <3>3 DEF Kinds
  <2>4. ASSUME NEW v \in Workers, pc'[v] # "idle"
        PROVE  Met("life", "call")' /\ (local'[v].part = "mac" => Met("life", "mac")')
    <3>1. PICK l \in {"idle", "assign"} : l = "idle"
      OBVIOUS
    <3>2. pc[v] # "idle" /\ local'[v].part = local[v].part
      BY <1>1, <1>3, <2>4, <3>1, CallParts
    <3>3. QED
      BY <1>3, <2>2, <3>2 DEF EndSeen, Met
  <2>5. QED
    BY <1>3, <2>2, <2>3, <2>4 DEF EndSeen, Met
<1>14. CleanOK'
  <2>1. SUFFICES ASSUME Clean' PROVE AskOK'
    BY DEF CleanOK
  <2>2. Clean /\ ~Met("firmware", "overlap")
    <3>1. Clean
      BY <1>3, <2>1 DEF Clean
    <3>2. ASSUME Met("firmware", "overlap") PROVE FALSE
      BY <3>1, <3>2 DEF Clean, Met
    <3>3. QED
      BY <3>1, <3>2
  <2>3. CASE kind = "firmware"
    <3>1. \A u \in Threads : ~Asks(u)
      BY <1>11, <2>2, <2>3, AskSound
    <3>2. \A u \in Threads : Asks(u)' => u = t
      BY <1>7, <3>1 DEF Asks
    <3>3. handle'["firmware"] = {t} /\ life' # "gone" /\ thread'[t].at = "checkVersion"
      BY <1>1, <1>3, <1>5, <1>7, <2>3
    <3>4. QED
      BY <3>2, <3>3 DEF AskOK, At
  <2>4. CASE kind # "firmware"
    <3>1. handle'["firmware"] = handle["firmware"]
      BY <1>7, <2>4 DEF Kinds
    <3>2. \A u \in Threads : Asks(u)' => Asks(u) /\ u # t
      BY <1>5, <1>7, <2>4 DEF Asks, FirmwareLabels
    <3>3. QED
      BY <1>3, <1>7, <2>2, <3>1, <3>2 DEF IInv, CleanOK, AskOK, At
  <2>5. QED
    BY <2>3, <2>4
<1>15. OnlyOverlapTerminates' /\ EndDoesNoHarm' /\ UpdateToldTruly'
  <2>1. fault' = "terminate" => Met(kind, "overlap")
    BY <1>2, <1>11
  <2>2. fault' \notin {"nullInstance", "nullShell", "freed"}
    BY <1>2
  <2>3. QED
    BY <1>3, <2>1, <2>2 DEF IInv, OnlyOverlapTerminates, EndDoesNoHarm, UpdateToldTruly, Met
<1>16. QED
  BY <1>9, <1>12, <1>13, <1>14, <1>15 DEF IInv

-----------------------------------------------------------------------------
(* The plugin, the bus and the answers at once.                            *)

\* The bus thread goes on with a state, if at all.
LEMMA QueriesSame ==
  ASSUME IInv, UNCHANGED <<pc, local, spoiled, life, queryVars, fault>>,
         notice' # NoNotice => life = "active" \/ notice # NoNotice,
         dyingJobs' => dyingJobs \/ (life # "active" /\ notice # NoNotice)
  PROVE  IInv'
<1> USE DEF queryVars
<1>1. ThreadsOK' /\ CleanOK'
  BY ThreadsKept
<1>2. QueryTypes'
  BY <1>1 DEF IInv, QueryTypes, CallsOK
<1>3. AloneOK' /\ EndOK'
  BY DEF IInv, AloneOK, EndOK, EndSeen, Met, Serves, AllIdle
<1>4. OnlyOverlapTerminates' /\ EndDoesNoHarm' /\ UpdateToldTruly'
  <2>1. life # "active" /\ notice # NoNotice => Met("life", "bus")
    BY DEF IInv, EndOK, EndSeen
  <2>2. QED
    BY <2>1 DEF IInv, OnlyOverlapTerminates, EndDoesNoHarm, UpdateToldTruly, Met
<1>5. QED
  BY <1>1, <1>2, <1>3, <1>4 DEF IInv

LEMMA NoticeInv ==
  ASSUME IInv, systemStateChanged \/ OnFirmwareUpdateStateChange \/ AnnounceState
  PROVE  IInv'
<1>1. CASE systemStateChanged
  BY <1>1, QueriesSame DEF systemStateChanged, lifeVars
<1>2. CASE OnFirmwareUpdateStateChange
  <2>1. notice # NoNotice
    BY <1>2 DEF OnFirmwareUpdateStateChange, NoNotice
  <2>2. QED
    BY <1>2, <2>1, QueriesSame DEF OnFirmwareUpdateStateChange, lifeVars, requests
<1>3. CASE AnnounceState
  <2>1. notice # NoNotice
    BY <1>3 DEF AnnounceState, NoNotice
  <2>2. QED
    BY <1>3, <2>1, QueriesSame DEF AnnounceState, requests
<1>4. QED
  BY <1>1, <1>2, <1>3

LEMMA DestroyInv == ASSUME IInv, Destroy PROVE IInv'
<1>1. /\ life' = "unregistered"
      /\ UNCHANGED <<pc, local, dyingJobs, handle, thread, xconfFiles, updateTold, notice, fault>>
      /\ \A cause \in UnderWay : Met("life", cause)'
  <2>1. spoiled' = spoiled \cup {[part |-> "life", cause |-> cause] : cause \in UnderWay}
    BY DEF Destroy
  <2>2. \A cause \in UnderWay : Met("life", cause)'
    BY <2>1 DEF Met
  <2>3. QED
    BY <2>2 DEF Destroy, queryVars, stateVars, noticeVars
<1>2. spoiled \subseteq spoiled'
  BY DEF Destroy
<1>3. QueryTypes'
  BY <1>1 DEF IInv, QueryTypes, CallsOK, ThreadsOK
<1>4. AloneOK'
  BY <1>1, <1>2, MetKept DEF IInv, AloneOK, Serves
<1>5. EndOK'
  <2>1. ASSUME NEW t \in Threads
        PROVE  /\ thread[t].at \in {"version", "askVersion"} => Met("life", "asking")'
               /\ thread[t].at \in {"report", "tell"} => Met("life", "telling")'
               /\ thread[t].at \in MacLabels => Met("life", "mac")'
    <3>1. thread[t].at \in {"version", "askVersion"} => "asking" \in UnderWay
      BY DEF UnderWay, At
    <3>2. thread[t].at \in {"report", "tell"} => "telling" \in UnderWay
      BY DEF UnderWay, At
    <3>3. thread[t].at \in MacLabels => "mac" \in UnderWay
      BY DEF UnderWay, At, MacLabels
    <3>4. QED
      BY <1>1, <3>1, <3>2, <3>3
  <2>2. ASSUME NEW w \in Workers, pc[w] # "idle"
        PROVE  Met("life", "call")' /\ (local[w].part = "mac" => Met("life", "mac")')
    <3>1. "call" \in UnderWay
      BY <2>2 DEF UnderWay, AllIdle
    <3>2. local[w].part = "mac" => "mac" \in UnderWay
      BY <2>2 DEF UnderWay, Busy
    <3>3. QED
      BY <1>1, <3>1, <3>2
  <2>3. notice # NoNotice => Met("life", "bus")'
    <3>1. notice # NoNotice => "bus" \in UnderWay
      BY DEF UnderWay
    <3>2. QED
      BY <1>1, <3>1
  <2>4. QED
    BY <1>1, <2>1, <2>2, <2>3 DEF EndOK, EndSeen
<1>6. CleanOK'
  <2>1. Clean' => Clean
    BY <1>2, MetKept
  <2>2. QED
    BY <1>1, <2>1 DEF IInv, CleanOK, AskOK, Asks, At
<1>7. OnlyOverlapTerminates' /\ EndDoesNoHarm' /\ UpdateToldTruly'
  BY <1>1, <1>2, EndKept
<1>8. QED
  BY <1>3, <1>4, <1>5, <1>6, <1>7 DEF IInv

LEMMA EndStepInv ==
  ASSUME IInv, fault = "none", ReleaseShell \/ JoinMembers \/ Construct PROVE IInv'
<1>1. /\ UNCHANGED <<pc, local, spoiled, dyingJobs, thread, xconfFiles, updateTold, notice>>
      /\ life # "active"
  BY DEF ReleaseShell, JoinMembers, Construct, requests, queryVars, stateVars, noticeVars
<1>2. EndSeen
  BY <1>1 DEF IInv, EndOK
<1>3. /\ handle' \in [Kinds -> SUBSET Threads]
      /\ life' \in {"active", "unregistered", "released", "gone"}
  BY DEF ReleaseShell, JoinMembers, Construct, queryVars, IInv, QueryTypes
<1>4. QueryTypes'
  BY <1>1, <1>3 DEF IInv, QueryTypes, CallsOK, ThreadsOK
<1>5. AloneOK'
  <2>1. \A k \in Kinds : handle'[k] = handle[k] \/ handle'[k] = {}
    BY DEF ReleaseShell, JoinMembers, Construct, queryVars
  <2>2. QED
    BY <1>1, <2>1 DEF IInv, AloneOK, Serves, Met
<1>6. EndOK'
  <2>1. EndSeen'
    BY <1>1, <1>2 DEF EndSeen, Met
  <2>2. life' = "gone" /\ fault' = "none" => AllIdle /\ notice = NoNotice
    BY DEF ReleaseShell, JoinMembers, Construct
  <2>3. QED
    BY <1>1, <2>1, <2>2 DEF EndOK, AllIdle
<1>7. CleanOK'
  <2>1. SUFFICES ASSUME Clean PROVE AskOK'
    BY <1>1 DEF CleanOK, Clean
  <2>2. \A t \in Threads : Asks(t)' = Asks(t)
    BY <1>1 DEF Asks
  <2>3. CASE ReleaseShell
    BY <1>1, <2>1, <2>3 DEF ReleaseShell, queryVars, IInv, CleanOK, AskOK, Asks, At
  <2>4. CASE JoinMembers
    <3>1. ASSUME NEW t \in Threads, Asks(t) PROVE FALSE
      <4>1. t \in handle["firmware"] /\ "firmware" \in Kinds
        BY <2>1, <3>1, AskSound DEF Kinds
      <4>2. QED
        BY <2>4, <3>1, <4>1 DEF JoinMembers, Asks, FirmwareLabels
    <3>2. QED
      BY <2>2, <3>1 DEF AskOK
  <2>5. CASE Construct
    <3>1. ASSUME NEW t \in Threads, Asks(t) PROVE FALSE
      BY <2>1, <2>5, <3>1, AskSound DEF Construct
    <3>2. QED
      BY <2>2, <3>1 DEF AskOK
  <2>6. QED
    BY <2>3, <2>4, <2>5
<1>8. OnlyOverlapTerminates' /\ EndDoesNoHarm' /\ UpdateToldTruly'
  <2>1. fault' \in {fault, "freed"} /\ (fault' = "freed" => ~(AllIdle /\ notice = NoNotice))
    BY DEF ReleaseShell, JoinMembers, Construct
  <2>2. fault' = "freed" => Met("life", "call") \/ Met("life", "bus")
    BY <1>2, <2>1 DEF EndSeen, AllIdle
  <2>3. fault' \in {"none", "freed"}
    BY <2>1
  <2>4. QED
    BY <1>1, <2>2, <2>3 DEF IInv, OnlyOverlapTerminates, EndDoesNoHarm, UpdateToldTruly, Met
<1>9. QED
  BY <1>4, <1>5, <1>6, <1>7, <1>8 DEF IInv

-----------------------------------------------------------------------------
(* The theorems.                                                           *)

LEMMA InitIInv == FirmwareInit => IInv
<1> SUFFICES ASSUME FirmwareInit PROVE IInv
  OBVIOUS
<1> USE DEF FirmwareInit, RequestsInit
<1>0. NoReply \in Answers
  BY DEF Answers
<1>1. /\ NoThread \in ThreadType /\ NoThread.at = "none"
      /\ NoThread = [NoThread EXCEPT !.at = "none"]
  <2>1. NoThread \in ThreadType /\ NoThread.at = "none"
    BY <1>0 DEF NoThread, ThreadType, Labels
  <2>2. NoThread = [NoThread EXCEPT !.at = "none"]
    <3>1. NoThread = [x \in DOMAIN NoThread |-> NoThread[x]] /\ NoThread["at"] = "none"
      BY DEF NoThread
    <3>2. [NoThread EXCEPT !.at = "none"] =
            [x \in DOMAIN NoThread |-> IF x = "at" THEN "none" ELSE NoThread[x]]
      OBVIOUS
    <3>3. QED
      BY <3>1, <3>2
  <2>3. QED
    BY <2>1, <2>2
<1>2. \A t \in Threads : thread[t] = NoThread
  OBVIOUS
<1>3. ThreadsOK
  BY <1>1, <1>2 DEF ThreadsOK
<1>4. QueryTypes
  BY <1>3 DEF QueryTypes, CallsOK, Answers
<1>5. AloneOK /\ EndOK
  BY DEF AloneOK, EndOK, Serves, NoNotice
<1>6. CleanOK
  BY <1>1, <1>2 DEF CleanOK, AskOK, Asks, FirmwareLabels
<1>7. OnlyOverlapTerminates /\ EndDoesNoHarm /\ UpdateToldTruly
  BY DEF OnlyOverlapTerminates, EndDoesNoHarm, UpdateToldTruly, NothingTold
<1>8. QED
  BY <1>4, <1>5, <1>6, <1>7 DEF IInv

LEMMA NextIInv == IInv /\ [FirmwareNext]_vars => IInv'
<1> SUFFICES ASSUME IInv, [FirmwareNext]_vars PROVE IInv'
  OBVIOUS
<1>1. ASSUME NEW t \in Threads, fault = "none", ThreadStep(t) PROVE IInv'
  BY <1>1, CheckVersionInv, UseInstanceInv, getStbVersionStringInv, getXconfOverrideUrlInv, RunScriptInv,
     ReadResultsInv, CheckReportInv, ReportInv, MacStepInv DEF ThreadStep
<1>2. ASSUME NEW w \in Workers, fault = "none", WorkerStep(w) PROVE IInv'
  BY <1>2, JoinInv, AssignInv DEF WorkerStep
<1>3. ASSUME NEW w \in Workers, NEW kind \in Kinds, Query(w, kind) PROVE IInv'
  BY <1>3, QueryInv
<1>4. ASSUME NEW w \in Workers, GetFirmwareDownloadPercent(w) \/ GetDownloadedFirmwareInfo(w)
      PROVE  IInv'
  BY <1>4, QueriesSame DEF GetFirmwareDownloadPercent, GetDownloadedFirmwareInfo, Instant, lifeVars,
     noticeVars
<1>5. CASE systemStateChanged \/ OnFirmwareUpdateStateChange \/ AnnounceState \/ Download
  <2>1. CASE Download
    BY <2>1, QueriesSame DEF Download, lifeVars, noticeVars
  <2>2. QED
    BY <1>5, <2>1, NoticeInv
<1>6. CASE fault = "none" /\ (Destroy \/ ReleaseShell \/ JoinMembers \/ Construct)
  BY <1>6, DestroyInv, EndStepInv
<1>7. CASE UNCHANGED vars
  BY <1>7, QueriesSame DEF vars, requests, lifeVars, stateVars, noticeVars
<1>8. QED
  BY <1>1, <1>2, <1>3, <1>4, <1>5, <1>6, <1>7 DEF FirmwareNext

LEMMA SpecIInv == FirmwareSpec => []IInv
  BY InitIInv, NextIInv, PTL DEF FirmwareSpec

\* Queries one after the other never assign over a thread that can be joined
\* (GetFirmwareUpdateInfo and GetMacAddresses with their thread handles).
THEOREM OverlapTerminates == FirmwareSpec => []OnlyOverlapTerminates
<1>1. IInv => OnlyOverlapTerminates
  BY DEF IInv
<1>2. QED
  BY <1>1, SpecIInv, PTL

\* However the plugin's end falls among queries, calls and the bus, only what it
\* catches behind a test of _instance, or what tests nothing, does harm (the
\* destructor, firmwareUpdateInfoReceived, getMacAddressesAsync).
THEOREM EndIsHarmless == FirmwareSpec => []EndDoesNoHarm
<1>1. IInv => EndDoesNoHarm
  BY DEF IInv
<1>2. QED
  BY <1>1, SpecIInv, PTL

\* Where no query met another or a failure, "available" is said only when the
\* server offered another version in that query (firmwareUpdateInfoReceived).
THEOREM AvailableIsTrue == FirmwareSpec => []UpdateToldTruly
<1>1. IInv => UpdateToldTruly
  BY DEF IInv
<1>2. QED
  BY <1>1, SpecIInv, PTL

-----------------------------------------------------------------------------
(* The update state, and the progress of a download.                       *)

\* This object heard of the update state, unless it has none.
StateOK ==
  /\ notice \in [at : {"none", "received", "announce"}, state : States \union {0}]
  /\ notice.at # "none" => notice.state \in States \ {CriticalReboot}
  /\ notice.at = "announce" => notice.state = m_FwUpdateState_LatestEvent
  /\ m_FwUpdateState_LatestEvent \in {0} \union (States \ {CriticalReboot})
  /\ notice.at # "announce" => stateTold \subseteq {m_FwUpdateState_LatestEvent}
  /\ m_FwUpdateState_LatestEvent # 0 => m_FwUpdateState_LatestEvent \in Heard

DownloadInv ==
  /\ StateOK
  /\ progress.downloaded \in Nat /\ progress.total \in Nat
  /\ percentAnswer \in -1 .. 100

\* A quotient cut to an integer.
LEMMA CutBounds ==
  ASSUME NEW d \in Nat, NEW n \in Nat \ {0}, d <= n
  PROVE  /\ (100 * d) \div n \in 0 .. 100
         /\ (100 * d) \div n = 100 => d = n
<1> DEFINE q == (100 * d) \div n
<1>1. q \in Int /\ q * n <= 100 * d /\ 100 * d < (q + 1) * n
  OBVIOUS
<1> HIDE DEF q
<1>2. q <= 100
  BY <1>1
<1>3. q >= 0
  BY <1>1
<1>4. q = 100 => d = n
  BY <1>1
<1>5. QED
  BY <1>1, <1>2, <1>3, <1>4 DEF q

LEMMA PercentBounds ==
  ASSUME NEW p, p.downloaded \in Nat, p.total \in Nat \ {0},
         NEW a \in getDownloadProgress(p)
  PROVE  a \in -1 .. 100 /\ (a = 100 => p.downloaded = p.total)
<1>1. CASE p.downloaded > p.total
  BY <1>1 DEF getDownloadProgress
<1>2. CASE p.downloaded <= p.total
  <2> DEFINE cut == (100 * p.downloaded) \div p.total
  <2>1. cut \in 0 .. 100 /\ (cut = 100 => p.downloaded = p.total)
    <3>1. p.downloaded \in Nat /\ p.total \in Nat \ {0} /\ p.downloaded <= p.total
      BY <1>2
    <3>2. QED
      BY <3>1, CutBounds
  <2>2. a \in {cut - 1, cut}
    BY <1>2 DEF getDownloadProgress
  <2> HIDE DEF cut
  <2>3. QED
    BY <2>1, <2>2
<1>3. QED
  BY <1>1, <1>2

LEMMA InitDownload == FirmwareInit => DownloadInv
  BY DEF FirmwareInit, DownloadInv, StateOK, NoProgress, NoNotice

\* The steps that leave the download alone.
LEMMA OthersSame ==
  ASSUME \/ \E t \in Threads : ThreadStep(t)
         \/ \E w \in Workers : WorkerStep(w)
         \/ \E w \in Workers, kind \in Kinds : Query(w, kind)
         \/ Destroy \/ ReleaseShell \/ JoinMembers \/ UNCHANGED vars
  PROVE  UNCHANGED stateVars
<1>1. ASSUME NEW t \in Threads, ThreadStep(t) PROVE UNCHANGED stateVars
  BY <1>1, Zenon DEF ThreadStep, CheckVersion, UseInstance, getStbVersionString, getXconfOverrideUrl, RunScript,
     ReadResults, CheckReport, reportFirmwareUpdateInfoReceived, Fetch, TellAddresses
<1>2. ASSUME NEW w \in Workers, WorkerStep(w) PROVE UNCHANGED stateVars
  BY <1>2, Zenon DEF WorkerStep, Join, Assign
<1>3. ASSUME NEW w \in Workers, NEW kind \in Kinds, Query(w, kind) PROVE UNCHANGED stateVars
  BY <1>3, Zenon DEF Query
<1>4. CASE Destroy \/ ReleaseShell \/ JoinMembers
  BY <1>4, Zenon DEF Destroy, ReleaseShell, JoinMembers
<1>5. CASE UNCHANGED vars
  BY <1>5, Zenon DEF vars
<1>6. QED
  BY <1>1, <1>2, <1>3, <1>4, <1>5, Zenon

LEMMA StepTells ==
  ASSUME IInv, DownloadInv, [FirmwareNext]_vars
  PROVE  /\ DownloadInv'
         /\ infoAnswer'.downloaded /\ infoAnswer # infoAnswer' =>
              \E state \in Heard : state >= Downloading
         /\ percentAnswer' = 100 /\ percentAnswer # 100 =>
              progress.downloaded = progress.total
<1> DEFINE Goal ==
      /\ DownloadInv'
      /\ infoAnswer'.downloaded /\ infoAnswer # infoAnswer' =>
           \E state \in Heard : state >= Downloading
      /\ percentAnswer' = 100 /\ percentAnswer # 100 =>
           progress.downloaded = progress.total
<1>1. CASE UNCHANGED stateVars
  <2>1. DownloadInv'
    BY <1>1 DEF stateVars, noticeVars, DownloadInv, StateOK, Heard
  <2>2. QED
    BY <1>1, <2>1 DEF stateVars
<1>2. ASSUME NEW w \in Workers, GetFirmwareDownloadPercent(w) PROVE Goal
  <2>1. /\ UNCHANGED <<progress, noticeVars, infoAnswer>>
        /\ percentAnswer' \in IF progress.total = 0 THEN {-1} ELSE getDownloadProgress(progress)
    BY <1>2 DEF GetFirmwareDownloadPercent
  <2>2. /\ percentAnswer' \in -1 .. 100
        /\ percentAnswer' = 100 => progress.downloaded = progress.total
    <3>1. CASE progress.total = 0
      BY <2>1, <3>1
    <3>2. CASE progress.total # 0
      <4>1. progress.total \in Nat \ {0} /\ progress.downloaded \in Nat
        BY <3>2 DEF DownloadInv
      <4>2. percentAnswer' \in getDownloadProgress(progress)
        BY <2>1, <3>2
      <4>3. QED
        BY <4>1, <4>2, PercentBounds
    <3>3. QED
      BY <3>1, <3>2
  <2>3. DownloadInv'
    BY <2>1, <2>2 DEF DownloadInv, StateOK, Heard, noticeVars
  <2>4. QED
    BY <2>1, <2>2, <2>3
<1>3. ASSUME NEW w \in Workers, GetDownloadedFirmwareInfo(w) PROVE Goal
  <2>1. UNCHANGED <<progress, noticeVars, percentAnswer>>
    BY <1>3 DEF GetDownloadedFirmwareInfo
  <2>2. infoAnswer'.downloaded => m_FwUpdateState_LatestEvent >= Downloading
    <3> DEFINE known == m_FwUpdateState_LatestEvent >= Downloading
    <3>1. \/ infoAnswer' = NoInfo
          \/ \E file \in StatusFiles :
               infoAnswer' = [downloaded |-> file.version /\ known,
                              deferred |-> file.reboot = "yes"]
      BY <1>3 DEF GetDownloadedFirmwareInfo
    <3> HIDE DEF known
    <3>2. infoAnswer'.downloaded => known
      <4>1. CASE infoAnswer' = NoInfo
        <5>1. NoInfo.downloaded = FALSE
          BY DEF NoInfo
        <5>2. QED
          BY <4>1, <5>1
      <4>2. ASSUME NEW file \in StatusFiles,
                   infoAnswer' = [downloaded |-> file.version /\ known,
                                  deferred |-> file.reboot = "yes"]
            PROVE  infoAnswer'.downloaded => known
        <5>1. infoAnswer'.downloaded = (file.version /\ known)
          BY <4>2
        <5>2. QED
          BY <5>1
      <4>3. QED
        BY <3>1, <4>1, <4>2
    <3>3. QED
      BY <3>2 DEF known
  <2>3. m_FwUpdateState_LatestEvent >= Downloading =>
          \E state \in Heard : state >= Downloading
    <3>1. m_FwUpdateState_LatestEvent >= Downloading => m_FwUpdateState_LatestEvent # 0
      BY DEF Downloading
    <3>2. QED
      BY <3>1 DEF DownloadInv, StateOK
  <2>4. DownloadInv'
    BY <2>1 DEF DownloadInv, StateOK, Heard, noticeVars
  <2>5. QED
    BY <2>1, <2>2, <2>3, <2>4
<1>4. CASE systemStateChanged \/ OnFirmwareUpdateStateChange \/ AnnounceState
  <2>1. UNCHANGED <<progress, percentAnswer, infoAnswer>>
    BY <1>4 DEF systemStateChanged, OnFirmwareUpdateStateChange, AnnounceState
  <2>2. StateOK
    BY DEF DownloadInv
  <2>3. CASE systemStateChanged
    <3>1. /\ notice = NoNotice /\ UNCHANGED <<m_FwUpdateState_LatestEvent, stateTold>>
          /\ \/ notice' = NoNotice
             \/ \E state \in States \ {CriticalReboot} :
                  notice' = [at |-> "received", state |-> state]
      BY <2>3 DEF systemStateChanged
    <3>2. StateOK'
      BY <2>2, <3>1 DEF StateOK, Heard, NoNotice
    <3>3. QED
      BY <2>1, <3>2 DEF DownloadInv
  <2>4. CASE OnFirmwareUpdateStateChange
    <3>1. CASE notice.state = m_FwUpdateState_LatestEvent
      <4>1. /\ notice.at = "received" /\ notice' = NoNotice
            /\ UNCHANGED <<m_FwUpdateState_LatestEvent, stateTold>>
        BY <2>4, <3>1 DEF OnFirmwareUpdateStateChange
      <4>2. StateOK'
        BY <2>2, <4>1 DEF StateOK, Heard, NoNotice
      <4>3. QED
        BY <2>1, <4>2 DEF DownloadInv
    <3>2. CASE notice.state # m_FwUpdateState_LatestEvent
      <4>1. /\ notice.at = "received" /\ m_FwUpdateState_LatestEvent' = notice.state
            /\ notice' = [at |-> "announce", state |-> notice.state] /\ UNCHANGED stateTold
        BY <2>2, <2>4, <3>2 DEF OnFirmwareUpdateStateChange, StateOK
      <4>2. notice.state \in States \ {CriticalReboot}
        BY <2>2, <4>1 DEF StateOK
      <4>3. notice'.at = "announce" /\ notice'.state = notice.state
        BY <4>1
      <4>4. notice' \in [at : {"none", "received", "announce"}, state : States \union {0}]
        BY <4>1, <4>2
      <4>5. m_FwUpdateState_LatestEvent' \in Heard'
        BY <4>1, <4>3 DEF Heard
      <4>6. StateOK'
        BY <4>1, <4>2, <4>3, <4>4, <4>5 DEF StateOK
      <4>7. QED
        BY <2>1, <4>6 DEF DownloadInv
    <3>3. QED
      BY <3>1, <3>2
  <2>5. CASE AnnounceState
    <3>1. /\ notice.at = "announce" /\ stateTold' = {notice.state} /\ notice' = NoNotice
          /\ UNCHANGED m_FwUpdateState_LatestEvent
      BY <2>5 DEF AnnounceState
    <3>2. StateOK'
      BY <2>2, <3>1 DEF StateOK, Heard, NoNotice
    <3>3. QED
      BY <2>1, <3>2 DEF DownloadInv
  <2>6. QED
    BY <1>4, <2>1, <2>3, <2>4, <2>5
<1>5. CASE Download
  <2>1. UNCHANGED <<noticeVars, percentAnswer, infoAnswer>>
    BY <1>5 DEF Download
  <2>2. PICK total \in Totals :
          \E downloaded \in {0, 1, total \div 2, total - 1, total, total + 1} :
            progress' = [downloaded |-> downloaded, total |-> total]
    BY <1>5 DEF Download
  <2>3. total \in Nat \ {0}
    BY FirmwareAssumption
  <2>4. progress'.downloaded \in Nat /\ progress'.total \in Nat
    BY <2>2, <2>3
  <2>5. QED
    BY <2>1, <2>4 DEF DownloadInv, StateOK, Heard, noticeVars
<1>6. CASE fault = "none" /\ Construct
  <2>1. UNCHANGED <<progress, percentAnswer, infoAnswer>>
    BY <1>6 DEF Construct
  <2>2. notice' = NoNotice
    BY <1>6 DEF Construct, IInv, EndOK
  <2>3. StateOK'
    BY <1>6, <2>2 DEF Construct, StateOK, NoNotice
  <2>4. QED
    BY <2>1, <2>3 DEF DownloadInv
<1>7. CASE ~Construct /\ ~systemStateChanged /\ ~OnFirmwareUpdateStateChange /\ ~AnnounceState /\
           ~Download /\
           ~(\E w \in Workers : GetFirmwareDownloadPercent(w) \/ GetDownloadedFirmwareInfo(w))
  <2>1. UNCHANGED stateVars
    BY <1>7, OthersSame DEF FirmwareNext
  <2>2. QED
    BY <1>1, <2>1
<1>8. QED
  <2>1. Construct => fault = "none"
    BY DEF FirmwareNext, vars, lifeVars, Construct
  <2>2. QED
    BY <1>2, <1>3, <1>4, <1>5, <1>6, <1>7, <2>1

LEMMA SpecDownload == FirmwareSpec => []DownloadInv
<1>1. IInv /\ DownloadInv /\ [FirmwareNext]_vars => DownloadInv'
  BY StepTells
<1>2. QED
  BY InitDownload, SpecIInv, <1>1, PTL DEF FirmwareSpec

\* The object that gives a downloaded version heard of the download itself
\* (GetDownloadedFirmwareInfo), and at 100 percent the image is complete
\* (GetFirmwareDownloadPercent).
THEOREM DownloadIsTrue == FirmwareSpec => DownloadToldTruly
<1> DEFINE Told == infoAnswer'.downloaded /\ infoAnswer # infoAnswer' =>
                     \E state \in Heard : state >= Downloading
           Complete == percentAnswer' = 100 /\ percentAnswer # 100 =>
                         progress.downloaded = progress.total
<1>1. IInv /\ DownloadInv /\ [FirmwareNext]_vars => [Told]_vars /\ [Complete]_vars
  BY StepTells
<1> HIDE DEF Told, Complete
<1>2. FirmwareSpec => [][Told]_vars /\ [][Complete]_vars
  BY <1>1, SpecIInv, SpecDownload, PTL DEF FirmwareSpec
<1>3. QED
  BY <1>2 DEF Told, Complete, DownloadToldTruly, DownloadHeardOf, HundredIsComplete

\* Every reachable state is well typed: handles hold threads, the update state is
\* never a critical reboot, and a percentage is at most 100.
THEOREM TypeCorrect == FirmwareSpec => []FirmwareTypeOK
<1>1. IInv /\ DownloadInv => FirmwareTypeOK
  BY DEF IInv, QueryTypes, DownloadInv, StateOK, FirmwareTypeOK
<1>2. QED
  BY <1>1, SpecIInv, SpecDownload, PTL
=============================================================================
