CONSTANT Conns = {c1}
SPECIFICATION FairSpec
INVARIANTS TypeOK StrictMeansPrivate DrainIsNotInterrupted ZeroMeansDrained
PROPERTIES SignalEndsProcess
CHECK_DEADLOCK FALSE
