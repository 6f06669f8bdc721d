CONSTANT Reqs = {r1, r2}
SPECIFICATION Spec
INVARIANTS AuditJoinsItsRequest
CHECK_DEADLOCK FALSE
