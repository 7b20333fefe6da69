SPECIFICATION FairSpec
CONSTANTS
  t1 = t1
  t2 = t2
  t3 = t3
  Tasks = {t1, t2}
  InitTask = init
  Idle = idle
  Null = null
  Prio <- MCPrioPair
  Signals = {s1}
  Quantum = 2
  MaxCount = 2
  Mortal = {t1, t2}
  Sleepers = {t1, t2}
  SleepInCS = FALSE
  IrqInExit = FALSE
PROPERTY Preemptible
