CONSTANTS
  read = read
  edit = edit
  Tools <- MCTools
  Safe = {read}
  Mutating = {edit}
  Asking = {edit}
  Batches <- MCBatches
  MaxRuns = 2
  MaxTurns <- MCTurns
  MaxRuleRetries = 1
CHECK_DEADLOCK FALSE
SPECIFICATION FairSpec
INVARIANTS TypeOK WritesAreCovered PromptsAreTakenBack
PROPERTIES RequestsAgree GuidanceArrives AbortFreesSession
