\* the camera wrappers, held to what their documentation says
SPECIFICATION Spec
CONSTANTS
  Calls <- MCCamuCalls
  Slots = {0, 1}
  NoCall = NoCall
  SendsStale <- MCSendsStale
  LosesWords <- MCLosesWords
  Misplaces <- MCMisplaces
  KeepsSlots <- MCKeepsSlots
INVARIANT
  EveryParameterIsSent
