SPECIFICATION Spec
CONSTANTS
  ollama = ollama
  lmstudio = lmstudio
  gpt = gpt
  llama = llama
  phi = phi
  qwen = qwen
  NoOne = NoOne
  Providers = {ollama, lmstudio}
  Models = {gpt, llama, phi, qwen}
  Slow = {lmstudio}
  Owner <- MCOwner
  Listed <- MCListed
  MaxCommands = 3
  MaxEdits = 2
  MaxCrashes = 1
CHECK_DEADLOCK FALSE
INVARIANTS
  RouteInv
PROPERTIES
  UndoneIsUndone
