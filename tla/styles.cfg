\* Style sheets of counter styles, and quantities.
SPECIFICATION Spec
CONSTANTS
    Infinity <- MCInfinity
    Integer <- MCInteger
INVARIANTS MarkersCount QuantityIsMeant
PROPERTY SheetIsRead
CHECK_DEADLOCK FALSE
