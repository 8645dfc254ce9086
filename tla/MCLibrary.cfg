\* every service; one program with three buffers; eight nodes; every kind of
\* parameter; a channel with one buffer more than the DSP takes
SPECIFICATION LibSpec
CONSTANTS
  Services <- AllServices
  MaxUsers = 3
  Miscounts <- MCMiscounts
  Leaks <- MCLeaks
  Layouts <- MCLayouts
  Sizes = {1, 2}
  Alignments = {1, 2}
  MaxBuffers = 3
  MaxLost = 1
  Nodes = {1, 2, 3, 4, 5, 6, 7, 8}
  Nil = Nil
  Key <- MCKey
  Commands = {"wakeup", "pause", "message", "response", "dsp"}
  NoCommand = "none"
  HandlesDsp = {"dsp"}
  WaveBufs = {b1, b2, b3, b4}
  NoBuf = NoBuf
  BufSlots = 2
  SeqLimit = 5
  MaxSync = 1
INVARIANTS
  CountsItsUsers
  UsersAreServed
  NothingStaysOpen
  HeapIsSound
 
  TreeIsSound
  NoParameterLeftBehind
  QueueIsSound
PROPERTIES
  DoneForAReason
  AllocatorIsImplemented
SYMMETRY
  MCSymmetry
