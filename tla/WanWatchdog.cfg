SPECIFICATION Spec
CONSTANTS
  FailRounds = 2
  FirstActionAfter = 1
  SettleAfterAction = 5
  BudgetWindow = 11
  BudgetActions = 2
  BackoffInterval = 7
  ArmChoices = {TRUE, FALSE}
  Gaps = {1, 6}
  MaxTime = 16
  Faults = {"raise", "kill", "save", "corrupt", "offline"}
  MaxFaults = 1
CHECK_DEADLOCK FALSE
INVARIANTS BudgetHolds RestartsAreSpaced OneRestartPerOutage
PROPERTIES NeverHasty AFaultForgetsOneRestart
VIEW FewFailures
