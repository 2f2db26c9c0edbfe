SPECIFICATION Spec
CONSTANTS
  None = None  PyFalse = PyFalse
  a = a  b = b
  Methods = {"GET", "POST"}
  Urls <- TwoSchemes
  Bodies = {"none", "bytes"}
  RetryArgs <- EveryLimit
  UsesProxy = TRUE
  MayFail = TRUE
  MaxHops = 5
CHECK_DEADLOCK FALSE
INVARIANTS HopsWithinBudget GivesUpAfterBudget HopsRewritten HistoryRecordsRedirects
