SPECIFICATION Spec
CONSTANT ParamChoices <- DefaultParams
INVARIANT QueriesStayOffTheWifi
CHECK_DEADLOCK FALSE
