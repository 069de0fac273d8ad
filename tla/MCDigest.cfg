\* Any two of 900 reservations and 36 submissions, one after the other.
CONSTANTS
    Base = 4
    WordBytes = 2
    Reservations <- MCReservations
    Submissions <- MCSubmissions
    NoRequest = NoRequest
SPECIFICATION Spec
INVARIANTS
    GatewayFindsDigest
    DigestIsOfOneRequest
\* Two requests are signed.
CHECK_DEADLOCK FALSE
