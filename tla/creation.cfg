SPECIFICATION Spec
CONSTANTS
    x1 = x1
    x2 = x2
    i1 = i1
    i2 = i2
    Client <- MCClient
    Item <- MCItem
    MaxReservations = 3
SYMMETRY Symmetry
INVARIANTS
    TypeOK
    NonceInOneRow
    ItemInOneRow
CHECK_DEADLOCK FALSE
