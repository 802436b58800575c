--------------------------- MODULE UploadTracker ---------------------------
(***************************************************************************)
(* What log-upload tracking promises, without threads, processes or locks. *)
(*                                                                         *)
(* There is one slot.  Starting an upload puts a process that was never    *)
(* tracked before into the slot, or empties it when the process could not  *)
(* be started.  The upload in the slot is reported to the clients once,    *)
(* and the report empties the slot.  Nothing else is ever reported.        *)
(***************************************************************************)
EXTENDS Sequences

CONSTANTS
  Pids,    \* processes that may run an upload
  NoPid,   \* the empty slot
  Status   \* what clients may be told about an upload

VARIABLES
  slot,     \* the upload that is being tracked, or NoPid
  started,  \* the uploads ever put into the slot
  reports   \* reports[p] : what was said about p, in order

trackerVars == <<slot, started, reports>>

TrackerInit ==
  /\ slot = NoPid
  /\ started = {}
  /\ reports = [p \in Pids |-> << >>]

Start(p) ==
  /\ p \in Pids \ started
  /\ slot' = p
  /\ started' = started \union {p}
  /\ UNCHANGED reports

FailToStart ==
  /\ slot' = NoPid
  /\ UNCHANGED <<started, reports>>

Report(s) ==
  /\ slot # NoPid
  /\ reports' = [reports EXCEPT ![slot] = Append(@, s)]
  /\ slot' = NoPid
  /\ UNCHANGED started

TrackerNext ==
  \/ \E p \in Pids : Start(p)
  \/ FailToStart
  \/ \E s \in Status : Report(s)

TrackerSpec == TrackerInit /\ [][TrackerNext]_trackerVars
=============================================================================
