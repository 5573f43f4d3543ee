\* One window and one other process of the same user, a component of two files.
CONSTANTS
  Procs = {w1, p}
  Windows = {w1}
  Components = {cargo}
  Cargo = cargo
  Parts = 2
  Rustowlc = rustowlc
  MaxStarts = 2
SPECIFICATION BootSpec
INVARIANTS ReinstallRepairs ConcurrentInstallsAgree ActivatedOverWhole
PROPERTIES ActivationSettles
CHECK_DEADLOCK FALSE
