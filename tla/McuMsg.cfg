SPECIFICATION McuFairSpec
CONSTANTS
  Senders = {s1, s2}
  Cids = {c1, c2}
  SeqSpace = 3
  Late = 1
  MaxCmds = 3
INVARIANTS
  AnswersOwnCommand
PROPERTIES
  EverySenderReturns
