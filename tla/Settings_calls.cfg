CONSTANTS
  w1 = w1
  w2 = w2
  Workers <- TwoWorkers
  Parts <- SettingsParts
  Budgets <- SettingsBudgets
  TerritoryInputs = {"USA", "GBR", "usa", "empty"}
  RegionInputs = {"US-CA", "empty", "FR-75"}
  StandardTerritories = {"USA", "GBR"}
  ValidRegions = {"US-CA"}
  Zones = {"America/New_York", "Europe/London"}
  OtherZones = {"Nowhere"}
  Accuracies = {"FINAL", "empty", "WRONG"}
  Names = {"Living Room", "Den"}
SPECIFICATION SettingsSpec
SYMMETRY Interchangeable
INVARIANTS SettingsTypeOK ZoneAnnounced EventsTellSettings CopiesFollowSettings
PROPERTY TerritoryIsRegister
CHECK_DEADLOCK FALSE
