\* Table names of up to three characters over x, s and '_'; two join tables.
CONSTANTS
    Chars = {"x", "s", "_"}
    MaxLen = 3
    MaxTables = 2
    Pending = Pending
    Panic = Panic
SPECIFICATION Spec
INVARIANT JoinTableNamesDistinct
CHECK_DEADLOCK FALSE
