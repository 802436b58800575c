---------------------------- MODULE NameAndFlags ----------------------------
(***************************************************************************)
(* The friendly name, kept in memory and in an RFC parameter, and the two  *)
(* flags of the manufacturer library: the blocklist flag, whose changes    *)
(* are told, and the factory reset flag.  None is guarded by a lock.       *)
(***************************************************************************)
EXTENDS Requests

CONSTANT Names

DefaultName == "Living Room"

ASSUME NamesAssumption == DefaultName \in Names /\ "unset" \notin Names

VARIABLES
  m_friendlyName, rfcFriendlyName,   \* rfcFriendlyName: "unset" where it is not set
  nameAnnounced,                     \* the last name an event told
  nameTold,                          \* history: was m_friendlyName told since it was stored
  blocklist, fsrFlag,                \* as the library has them
  blocklistAnnounced                 \* the last blocklist flag an event told

toldVars == <<nameAnnounced, nameTold>>

nameVars == <<m_friendlyName, rfcFriendlyName, nameAnnounced, nameTold, blocklist,
              fsrFlag, blocklistAnnounced>>

flagVars == <<blocklist, fsrFlag, blocklistAnnounced>>

\* Configure takes the stored name, when RFC has one and answers.
ConfigureName(stored) == IF stored = "unset" THEN DefaultName ELSE stored

GetFriendlyName == m_friendlyName

\* GetBlocklistFlag, when the library answers it.
GetBlocklistFlag == blocklist

NameInit ==
  /\ rfcFriendlyName \in Names \cup {"unset"}
  /\ m_friendlyName = ConfigureName(rfcFriendlyName)
  /\ nameAnnounced = m_friendlyName /\ nameTold = TRUE
  /\ blocklist \in BOOLEAN /\ blocklistAnnounced = blocklist
  /\ fsrFlag \in BOOLEAN

-----------------------------------------------------------------------------
(* SetFriendlyName: another name is stored, told, and only then persisted. *)

SetFriendlyName(w, name) ==
  /\ m_friendlyName # name
  /\ Start(w, "makeParams", [part |-> "name", name |-> name])
  /\ Overlaps("name")
  /\ m_friendlyName' = name
  /\ nameTold' = FALSE
  /\ UNCHANGED <<rfcFriendlyName, nameAnnounced, flagVars>>

\* The event is given the member, which another call may have changed by then.
MakeParams(w) ==
  /\ pc[w] = "makeParams"
  /\ Step(w, "tellName", [local[w] EXCEPT !.name = m_friendlyName])
  /\ UNCHANGED <<spoiled, nameVars>>

\* dispatchEvent, with the name as it was then.
TellName(w) ==
  /\ pc[w] = "tellName"
  /\ nameAnnounced' = local[w].name
  /\ nameTold' = (nameTold \/ local[w].name = m_friendlyName)
  /\ Step(w, "readName", local[w])
  /\ UNCHANGED <<spoiled, m_friendlyName, rfcFriendlyName, flagVars>>

\* setRFCParameter is given the member too.
ReadName(w) ==
  /\ pc[w] = "readName"
  /\ Step(w, "setRFCParameter", [local[w] EXCEPT !.name = m_friendlyName])
  /\ UNCHANGED <<spoiled, nameVars>>

\* A failure is written to the log, and the request succeeds all the same.
SetRFCParameter(w) ==
  /\ pc[w] = "setRFCParameter"
  /\ \/ rfcFriendlyName' = local[w].name /\ UNCHANGED spoiled
     \/ UNCHANGED rfcFriendlyName /\ Spoil("name", "failure")
  /\ Finish(w)
  /\ UNCHANGED <<m_friendlyName, toldVars, flagVars>>

-----------------------------------------------------------------------------
(* The manufacturer library.                                               *)

\* SetBlocklistFlag asks for the old flag; no answer is taken for "false".
SetBlocklistFlag(w, flag) ==
  \E old \in {blocklist, FALSE} :
    /\ Start(w, "setBlocklist", [part |-> "blocklist", flag |-> flag, old |-> old])
    /\ IF old # blocklist THEN Spoil("blocklist", "failure") ELSE Overlaps("blocklist")
    /\ UNCHANGED nameVars

\* The flag is set; on failure the call ends with an error.
SetBlocklist(w) ==
  /\ pc[w] = "setBlocklist"
  /\ \/ blocklist' = local[w].flag /\ Step(w, "tellBlocklist", local[w])
     \/ UNCHANGED blocklist /\ Finish(w)
  /\ UNCHANGED <<spoiled, m_friendlyName, rfcFriendlyName, toldVars, fsrFlag,
                 blocklistAnnounced>>

\* Mutant: the flag is compared with what is there now.
CompareLate(w) ==
  /\ pc[w] = "tellBlocklist"
  /\ blocklistAnnounced' =
       IF blocklist # local[w].flag THEN local[w].flag ELSE blocklistAnnounced
  /\ Finish(w)
  /\ UNCHANGED <<spoiled, m_friendlyName, rfcFriendlyName, toldVars, blocklist, fsrFlag>>

\* OnBlocklistChanged, when the old flag was another one.
TellBlocklist(w) ==
  /\ pc[w] = "tellBlocklist"
  /\ blocklistAnnounced' =
       IF local[w].old # local[w].flag THEN local[w].flag ELSE blocklistAnnounced
  /\ Finish(w)
  /\ UNCHANGED <<spoiled, m_friendlyName, rfcFriendlyName, toldVars, blocklist, fsrFlag>>

\* SetFSRFlag passes the flag on, and its failure back.
SetFSRFlag(w, flag) ==
  /\ Instant(w, "blocklist")
  /\ fsrFlag' \in {flag, fsrFlag}
  /\ UNCHANGED <<spoiled, m_friendlyName, rfcFriendlyName, toldVars, blocklist,
                 blocklistAnnounced>>

-----------------------------------------------------------------------------
\* A new process reads the stored name, or has the default one.
NameRestarts ==
  /\ m_friendlyName' = ConfigureName(rfcFriendlyName)
  /\ nameAnnounced' = m_friendlyName' /\ nameTold' = TRUE
  /\ UNCHANGED <<rfcFriendlyName, flagVars>>

NameStep(w) ==
  \/ MakeParams(w) \/ TellName(w) \/ ReadName(w) \/ SetRFCParameter(w)
  \/ SetBlocklist(w) \/ TellBlocklist(w)
  \/ \E name \in Names : SetFriendlyName(w, name)
  \/ \E flag \in BOOLEAN : SetBlocklistFlag(w, flag) \/ SetFSRFlag(w, flag)

-----------------------------------------------------------------------------
(* Properties.                                                             *)

NameTypeOK ==
  /\ m_friendlyName \in Names /\ nameAnnounced \in Names /\ nameTold \in BOOLEAN
  /\ rfcFriendlyName \in Names \cup {"unset"}
  /\ blocklist \in BOOLEAN /\ fsrFlag \in BOOLEAN /\ blocklistAnnounced \in BOOLEAN

\* A call that stored a name and is still to dispatch an event.
TellingName == \E w \in Workers : pc[w] \in {"makeParams", "tellName"}

\* However calls overlap, once none is about to tell a name, the name that
\* GetFriendlyName answers was told since it was stored.
NameTold == TellingName \/ nameTold

\* Calls that met nobody tell it last.  (Of two that overlap, the one that read
\* the member first may dispatch last, and clients are left with the old name.)
NameAnnounced ==
  TellingName \/ Met("name", "overlap") \/ nameAnnounced = GetFriendlyName

\* After calls that met nobody and no failure of RFC, a restart keeps the name.
NamePersists == Undisturbed("name") => m_friendlyName = ConfigureName(rfcFriendlyName)

\* After such calls the last blocklist event has the flag GetBlocklistFlag answers.
BlocklistAnnounced == Undisturbed("blocklist") => blocklistAnnounced = GetBlocklistFlag
=============================================================================
