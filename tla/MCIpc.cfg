\* every wrapper, one thread
SPECIFICATION Spec
CONSTANTS
  Calls <- MCCalls
  Slots = {0, 1}
  NoCall = NoCall
  SendsStale <- MCSendsStale
  LosesWords <- MCLosesWords
  Misplaces <- MCMisplaces
  KeepsSlots <- MCKeepsSlots
INVARIANTS
  SentWordsAreStored
  StoredWordsAreSent
  KernelReadsWhatWasMeant
  StaticsGivenBack
