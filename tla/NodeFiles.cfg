\* Two commands one after another; every step may fail, the agent may die.
SPECIFICATION Spec
CONSTANTS
  Cmd = {c1, c2}
  NoCmd = NoCmd
  Kinds = {"APPLY_CONFIG", "INSTALL_XRAYR", "UPGRADE_XRAYR"}
  Faults = {"fetch", "read", "backup", "backupConf", "bin", "conf", "unit", "reload", "restart", "undo", "exit"}
  Overlap = FALSE
SYMMETRY Interchangeable
VIEW WithoutForgotten
INVARIANTS
  FilesTypeOK
  FailedIsUndone
  FailedRunsAgain
  SuccessIsInPlace
CHECK_DEADLOCK FALSE
