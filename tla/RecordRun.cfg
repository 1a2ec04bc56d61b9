CONSTANTS
  r1 = r1
  r2 = r2
  Runs = {r1, r2}
  Raw = {r2}
  None = None
  MaxRows = 1
  MaxFaults = 2
  MaxBytes <- MCMaxBytes
  StatusReserve = 2
  Growth = {1}
  Vias = {"run", "root"}
SPECIFICATION Spec
INVARIANT TypeOK
INVARIANT StatusTrue
INVARIANT VerdictTrue
INVARIANT StartRecovers
CHECK_DEADLOCK FALSE
PROPERTY RecorderEnds
