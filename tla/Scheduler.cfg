SPECIFICATION Spec
CONSTANTS
  Task_Timer_MaxNum = 2
  Period <- MCPeriod
  Periods <- MCPeriods
  W = 10
  MaxBusy = 2
  MaxCredit = 7
INVARIANTS
  TypeOK
  RunsFitPeriods
  Punctual
PROPERTIES
  NeverEarly
