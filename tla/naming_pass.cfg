\* Table names of up to two characters over x, s and '_'; two join tables.
CONSTANTS
    Chars = {"x", "s", "_"}
    MaxLen = 2
    MaxTables = 2
    Pending = Pending
    Panic = Panic
SPECIFICATION Spec
PROPERTY
    RefinesRegistry
\* A schema creates finitely many join tables; the model stops once all are named and read back.
CHECK_DEADLOCK FALSE
