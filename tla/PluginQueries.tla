---------------------------- MODULE PluginQueries ----------------------------
(***************************************************************************)
(* The queries that need other plugins, served side by side by the same    *)
(* threads, while the other plugins come and go.                           *)
(***************************************************************************)
EXTENDS Forwarding, DeviceQueries, PlatformCaps

queriesVars == <<requests, otherVars, forwardVars, queryVars, capsVars>>

QueriesInit == RequestsInit /\ OthersInit /\ ForwardInit /\ DeviceInit /\ CapsInit

QueriesNext ==
  \/ ForwardNext /\ UNCHANGED <<queryVars, capsVars>>
  \/ DeviceNext /\ UNCHANGED <<forwardVars, capsVars>>
  \/ CapsNext /\ UNCHANGED <<forwardVars, queryVars>>
  \/ SwitchPlugin /\ UNCHANGED <<forwardVars, queryVars, capsVars>>

QueriesSpec == QueriesInit /\ [][QueriesNext]_queriesVars

QueriesTypeOK == OthersTypeOK /\ ForwardTypeOK /\ DeviceTypeOK /\ CapsTypeOK

\* What an answer says of the migration, of the sections of a device query and
\* of the first features asked for is what was set, found and given.
AnswersTrue == StatusToldIsStatusSet /\ FailureHidesNothingLater /\ FirstFeaturesTrue

\* A receiver version that was told stays, and a device type is empty only on
\* the word of AuthService.
AnswersStay == ReceiverVersionStays /\ EmptyTypeFromAuth
=============================================================================
