CONSTANT Roles = {"viewer"}
SPECIFICATION SessionSpec
INVARIANT CloseIsExplained
CHECK_DEADLOCK FALSE
