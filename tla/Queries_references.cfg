CONSTANTS
  w1 = w1
  w2 = w2
  Workers <- TwoWorkers
  Parts <- QueryParts
  Budgets <- QueryBudgets
  Plugins <- OtherPluginSet
  Statuses <- StatusArguments
  Sections <- DeviceSections
  AccountFields <- AccountInfoFields
  DeviceFields <- DeviceInfoFields
SYMMETRY WorkerSymmetry
SPECIFICATION QueriesSpec
INVARIANTS QueriesTypeOK ReferencesBalanced GivenIsKept AnswersTrue
PROPERTIES AnswersStay
CHECK_DEADLOCK FALSE
