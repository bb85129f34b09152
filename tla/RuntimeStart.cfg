\* Two runtimes whose files all fit, over no store or one of an earlier release.
SPECIFICATION StartSpec
CONSTANTS
  orchestrator = orchestrator
  planner = planner
  prompt = prompt
  None = None
  Openers = {orchestrator, planner}
  Orchestrator = orchestrator
  Prompts = {prompt}
  FilesOf <- MCFilesOf
  MaxFailures = 1
PROPERTIES
  StoreIsMigrated
