SPECIFICATION Spec
CONSTANTS
  Times = {1, 2}
  Inputs <- MCInputs
  Requests <- MCRequests
INVARIANTS
  TypeOK
  AcceptedExactly
  StrictTotalOrder
  DocumentedOrder
CHECK_DEADLOCK FALSE
