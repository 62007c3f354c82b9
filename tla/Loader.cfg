CONSTANTS
  Bootstrap <- Boot
  Entry <- Main
  FileSystems <- Disks
  MaxRejects = 1
  MaxImports = 2
  MaxCallbacks = 2
  Careful = TRUE
SPECIFICATION Spec
INVARIANTS
  CachesAgree RightModule PendingExact ExitStatus CleanExit
