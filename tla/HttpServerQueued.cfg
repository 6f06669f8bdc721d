CONSTANT Conns = {c1, c2}
SPECIFICATION FairSpec
PROPERTIES QueuedStopsAtShutdown
CHECK_DEADLOCK FALSE
