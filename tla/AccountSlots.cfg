CONSTANTS
  Names = {a, b}
  Procs = {p, q}
  MaxCommands = 3
  MaxKeys = 2
  MaxMishaps = 1
SPECIFICATION Spec
SYMMETRY Symmetry
CONSTRAINT Relevant
INVARIANTS SlotsWhole NoSessionLost ExpiredIsDead LiveIsUsable
\* The commands are used up.
CHECK_DEADLOCK FALSE
