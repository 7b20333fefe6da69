SPECIFICATION FairSpec
CONSTANTS
  t1 = t1
  t2 = t2
  t3 = t3
  Tasks = {t1, t2, t3}
  InitTask = init
  Idle = idle
  Null = null
  Prio <- MCPrio
  Signals = {s1}
  Quantum = 2
  MaxCount = 2
  Mortal = {}
  Sleepers = {t1, t3}
  SleepInCS = FALSE
  IrqInExit = FALSE
PROPERTIES RoundRobin Preemptible
