----------------------------- MODULE SettingsMC -----------------------------
(* An instance of Settings for TLC: the workers are interchangeable.       *)
EXTENDS Settings, TLC

CONSTANTS w1, w2

TwoWorkers == {w1, w2}

Interchangeable == Permutations(TwoWorkers)

SettingsParts == {"territory", "timezone", "name", "blocklist"}

Budget(territory, timezone, name, blocklistAndFsr) ==
  [territory |-> territory, timezone |-> timezone, name |-> name,
   blocklist |-> blocklistAndFsr]

\* Several requests for one part, and one for each of two that share a crash.
SettingsBudgets ==
  {Budget(3, 0, 0, 0), Budget(0, 2, 0, 0), Budget(0, 0, 3, 0), Budget(0, 0, 0, 3),
   Budget(1, 1, 0, 0), Budget(0, 0, 1, 1), Budget(1, 0, 1, 0)}

=============================================================================
