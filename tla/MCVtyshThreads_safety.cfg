SPECIFICATION Spec
CONSTANTS
  Cmds <- AllCmds
  ConfTerm <- MCConfTerm
  MaxRange = 2
  MaxUp = 1
  MaxTodo = 1
  MaxDown = 1
  MaxSignals = 1
  Signals = {"SIGINT", "SIGTSTP"}
INVARIANTS
  MutualExclusion
  TxnUnderLock
  NoLostWakeup
PROPERTIES
  LeftTxnIsKept
