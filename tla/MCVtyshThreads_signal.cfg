SPECIFICATION Spec
CONSTANTS
  Cmds <- SomeCmds
  ConfTerm <- MCConfTerm
  MaxRange = 1
  MaxUp = 1
  MaxTodo = 1
  MaxDown = 0
  MaxSignals = 1
  Signals = {"SIGINT"}
PROPERTY
  SignalReleasesOwnLock
