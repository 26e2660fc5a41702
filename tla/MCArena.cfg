CONSTANTS
  b1 = b1
  b2 = b2
  b3 = b3
  Blocks <- MCBlocks
  Hdr = 1
  Page = 4
  Commit = 2
  Reserve = 8
  Sizes <- MCSizes
  Aligns <- MCAligns
  MaxMarks = 2
  MaxLive = 3
SPECIFICATION Spec
SYMMETRY BlockPerms
INVARIANTS TypeOK LiveIsUsable PopAsserts NoBlockLeak ArenaInv
PROPERTIES RewindRestores OnlyExactFitsFail ImplementsBumpStack
