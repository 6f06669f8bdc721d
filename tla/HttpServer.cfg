CONSTANT Conns = {c1, c2}
SPECIFICATION FairSpec
INVARIANTS TypeOK NothingLeftBehind CleanExitLosesNoReply DrainNeverHangs
PROPERTIES SignalEndsServer
CHECK_DEADLOCK FALSE
