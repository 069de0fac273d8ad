\* Two calls, to any two endpoints.
CONSTANTS
    Calls = {c1, c2}
    NoResponse = NoResponse
SPECIFICATION Spec
INVARIANTS
    TypeOK
    BodiesClosed
PROPERTIES
    ImplementsRemoteCall
\* Both calls return and their requests are handled.
CHECK_DEADLOCK FALSE
