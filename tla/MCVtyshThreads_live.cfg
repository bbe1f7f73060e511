SPECIFICATION FairSpec
CONSTANTS
  Cmds <- SomeCmds
  ConfTerm <- MCConfTerm
  MaxRange = 1
  MaxUp = 1
  MaxTodo = 1
  MaxDown = 1
  MaxSignals = 0
  Signals = {}
PROPERTIES
  CommandEnds
  ChangesArrive
  LeftTxnEnds
