CONSTANT Requests <- MCRequests
SPECIFICATION Spec
INVARIANTS TypeOK PrefixMapped
PROPERTY WholeRangeMapped
CHECK_DEADLOCK FALSE
