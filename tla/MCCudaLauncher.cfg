SPECIFICATION Spec
CONSTANTS
  Functions <- McFunctions
  MaxFunctions = 3
  KernelNames <- McKernelNames
  UnsignedRange = 4
  SizeRange = 128
  ElementBytes = 8
  Sizes <- McSizes
INVARIANTS
  TypeOK
  CompilesClosedPrograms
  LaunchMatchesKernel
  DeviceMemoryIsOwned
  ReportsWhatRan
CHECK_DEADLOCK FALSE
