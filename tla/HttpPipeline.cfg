CONSTANT Reqs = {r1, r2}
SPECIFICATION FairSpec
INVARIANTS
  TypeOK
  OneLineEach
  LoggedIsSent
  TokenGuards
  CallsAreClean
  LinesCanBeJoined
PROPERTIES AuditIsLogged
CHECK_DEADLOCK FALSE
