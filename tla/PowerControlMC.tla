--------------------------- MODULE PowerControlMC ---------------------------
(* An instance of PowerControl for TLC: the workers are interchangeable.   *)
EXTENDS PowerControl, TLC

CONSTANTS w1, w2

TwoWorkers == {w1, w2}

Interchangeable == Permutations(TwoWorkers)

PowerParts == {"power", "beforeReboot", "wakeup", "changes"}

Budget(power, beforeReboot, wakeup, changes) ==
  [power |-> power, beforeReboot |-> beforeReboot, wakeup |-> wakeup, changes |-> changes]

\* Requests next to changes of PowerManager's own, and requests of each kind.
PowerBudgets ==
  {Budget(2, 0, 0, 1), Budget(0, 3, 0, 0), Budget(0, 0, 3, 0), Budget(0, 0, 0, 4),
   Budget(1, 1, 1, 1)}

\* Both sides of both limits of the deep sleep timer.
SecondsAtLimits == {-1, 0, 1, 864000, 864001}

=============================================================================
