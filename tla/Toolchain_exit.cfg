\* One installation, one component of which fails.
CONSTANTS
  Procs = {p}
  Components = {cargo, rustc}
  Cargo = cargo
  Parts = 1
  Rustowlc = rustowlc
  MaxStarts = 1
SPECIFICATION Spec
INVARIANT ExitCodeTells
CHECK_DEADLOCK FALSE
