\* Documents in four formats are read to their end.
SPECIFICATION Spec
CONSTANTS
    Contents <- MCContents
    Subject <- MCSubject
INVARIANTS ItemsOfDocument KnowsItself
PROPERTY DocumentIsRead
CHECK_DEADLOCK FALSE
