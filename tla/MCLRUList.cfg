\* Three accounts, so that an operation meets the first, the middle and the last
\* node and addresses are reused after a node is deleted, and time for a node to
\* expire, come back and expire again.
CONSTANTS
    Keys = {k1, k2, k3}
    Conns = {c1, c2}
    NULL = NULL
    LiveTime = 2
    MaxClock = 7
    Addresses = {1, 2, 3, 4, 5, 6}
SPECIFICATION Spec
SYMMETRY Symmetry
INVARIANTS
    TypeOK
    LinksMatch
    MapOwnsHeap
    OrderedByUse
PROPERTIES
    ListSpec
    UsersSpec
