CONSTANT Conns = {c1}
SPECIFICATION Spec
INVARIANTS DrainedIsNil
CHECK_DEADLOCK FALSE
