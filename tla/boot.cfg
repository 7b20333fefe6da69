SPECIFICATION FairBoot
CONSTANTS
  MaxStray = 2
  LbaLimit = 2
  Lbas = {0, 1}
  MaxNum = 2
  DeviceNums = {0, 1, 2}
  BlockBytes = 2
  AddrLimit = 8
  Blocks = {0, 3, 5}
  MaxIdleRetries = 2
  MaxAcmd41Retries = 2
  AddrLimit32 = 12
  LowEnd = 1
  KernelLoad = 2
  Stage2Load = 5
  Stage2End = 6
  StackGuard = 8
  MemSize = 9
  Segments <- MCSegments
  MaxSegments = 2
  Sizes = {0, 2}
  Entries = {0, 3}
  Machines <- MCMachines
INVARIANTS BootTypeOK InstalledInAscii RightBlock RightSectors FirmwareIntact StartsImage
PROPERTIES BusyLeftAlone 
