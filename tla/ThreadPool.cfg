SPECIFICATION Spec
CONSTANTS
  w1 = w1
  w2 = w2
  w3 = w3
  r1 = r1
  r2 = r2
  r3 = r3
  Workers = {w1, w2, w3}
  Requests = {r1, r2, r3}
  NoRequest = NoRequest
  Priority <- MCPriority
INVARIANTS
  TypeOK
  ExactlyOnce
  Accounting
  ResultsAreTrue
  NoWorkerSleepsOnWork
  ClientNotForgotten
  NobodySleepsAtJoin
PROPERTIES
  GetReturns
  DestructorReturns
  ImplementsService
