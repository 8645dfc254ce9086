\* four buffers fill the heap
SPECIFICATION LibSpec
CONSTANTS
  Services <- AllServices
  MaxUsers = 3
  Miscounts <- MCMiscounts
  Leaks <- MCLeaks
  Layouts <- MCLayouts
  Sizes = {1, 2}
  Alignments = {1, 2}
  MaxBuffers = 4
  MaxLost = 1
  Nodes = {1, 2, 3, 4, 5, 6, 7, 8}
  Nil = Nil
  Key <- MCKey
  Commands = {"wakeup", "pause", "message", "response", "dsp"}
  NoCommand = "none"
  HandlesDsp = {"dsp"}
  WaveBufs = {b1}
  NoBuf = NoBuf
  BufSlots = 1
  SeqLimit = 2
  MaxSync = 0
INVARIANT BuffersAreDisjoint
