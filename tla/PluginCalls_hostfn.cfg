\* A host function called while the plugin's own Instance runs.
CONSTANTS
  Main = main
  Audio = audio
  Workers = {}
  None = none
  SharedMemory = TRUE
  MaxDepth = 1
  MaxCallbacks = 1
SPECIFICATION Spec
PROPERTY HostFunctionsForward
