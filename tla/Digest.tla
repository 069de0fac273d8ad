------------------------------- MODULE Digest -------------------------------
(***************************************************************************)
(* The digests that client.Client signs (types/types.go:28-68), up to the  *)
(* hash: the bytes of a reservation request and of a submitted             *)
(* transaction.  The gateway computes them anew from the request it got    *)
(* (taiyi's preconf_request.rs, which the comments of types.go cite) and   *)
(* checks the signature against its own.                                   *)
(***************************************************************************)
EXTENDS Integers, SequencesExt

CONSTANTS
    Base,           \* how many values a byte has: 256, fewer for TLC
    WordBytes,      \* how many bytes a uint64 has: 8, fewer for TLC
    Reservations,   \* the reservations asked for
    Submissions,    \* the transactions submitted, with their reservations' ids
    NoRequest       \* nothing was signed yet

\* How many values n bytes have.
Power[n \in Nat] == IF n = 0 THEN 1 ELSE Base * Power[n - 1]

Uint64Values == 0 .. Power[WordBytes] - 1
Uint256Values == 0 .. Power[4 * WordBytes] - 1

ReserveRequest ==
    [target_slot : Uint64Values, gas_limit : Uint64Values, deposit : Uint256Values,
     tip : Uint256Values, blob_count : Uint64Values]

UuidBytes == 16
HashBytes == 32

SubmitTxRequest == [request_id : [1 .. UuidBytes -> Nat], tx_hash : [1 .. HashBytes -> Nat]]

ASSUME BaseAssumption == Base \in Nat \ {0, 1} /\ WordBytes \in Nat \ {0}
ASSUME ReservationsAssumption == \A r \in Reservations : r \in ReserveRequest
ASSUME SubmissionsAssumption == \A s \in Submissions : s \in SubmitTxRequest
ASSUME NoRequestAssumption == NoRequest \notin Reservations \cup Submissions

-----------------------------------------------------------------------------
(* types.go.                                                               *)

\* binary.LittleEndian: the n lowest bytes of x, the lowest first.
LittleEndian(x, n) == [i \in 1 .. n |-> (x \div Power[i - 1]) % Base]

AppendUint64(to, x) == to \o LittleEndian(x, WordBytes)

\* hexutil.U256 is an array of four uint64, the lowest first.
Limb(x, i) == (x \div Power[i * WordBytes]) % Power[WordBytes]

\* The limbs in the order they are written down in.
AppendHighFirst(to, x) ==
    AppendUint64(AppendUint64(AppendUint64(AppendUint64(to,
        Limb(x, 3)), Limb(x, 2)), Limb(x, 1)), Limb(x, 0))

AppendUint256(to, x) ==
    AppendUint64(AppendUint64(AppendUint64(AppendUint64(to,
        Limb(x, 0)), Limb(x, 1)), Limb(x, 2)), Limb(x, 3))

\* The request without its tip, which equals the deposit when Send asks.
WithoutTip(r) ==
    AppendUint64(AppendUint256(AppendUint64(AppendUint64(<< >>,
        r.target_slot), r.gas_limit), r.deposit), r.blob_count)

ReserveBytes(r) ==
    AppendUint64(AppendUint256(AppendUint256(AppendUint64(AppendUint64(<< >>,
        r.target_slot), r.gas_limit), r.deposit), r.tip), r.blob_count)

\* The first half of the id is three numbers, which a uuid.UUID has the high
\* byte first.
AppendUuidToLe(to, id) ==
    to \o <<id[4], id[3], id[2], id[1]>> \o <<id[6], id[5]>> \o <<id[8], id[7]>>
       \o SubSeq(id, 9, UuidBytes)

SubmitBytes(s) == AppendUuidToLe(<< >>, s.request_id) \o s.tx_hash

-----------------------------------------------------------------------------
(* The gateway.                                                            *)

\* to_le_bytes of each number, one after the other.
GatewayReserveBytes(r) ==
    LittleEndian(r.target_slot, WordBytes) \o LittleEndian(r.gas_limit, WordBytes)
        \o LittleEndian(r.deposit, 4 * WordBytes) \o LittleEndian(r.tip, 4 * WordBytes)
        \o LittleEndian(r.blob_count, WordBytes)

\* Uuid::to_bytes_le: each of the three numbers turned around.
GatewaySubmitBytes(s) ==
    LET field(first, last) == Reverse(SubSeq(s.request_id, first, last))
    IN  field(1, 4) \o field(5, 6) \o field(7, 8) \o SubSeq(s.request_id, 9, UuidBytes)
            \o s.tx_hash

-----------------------------------------------------------------------------
(* A client that signs one request after another.                          *)

VARIABLES
    request,        \* the request made last, or NoRequest
    digest,         \* the bytes it signed for it
    earlier         \* the request before it, and its bytes

vars == <<request, digest, earlier>>

Init ==
    /\ request = NoRequest
    /\ digest = << >>
    /\ earlier = [request |-> NoRequest, digest |-> << >>]

Signs(r, bytes) ==
    /\ earlier.request = NoRequest
    /\ earlier' = [request |-> request, digest |-> digest]
    /\ request' = r
    /\ digest' = bytes

\* signReserveBlockspace and signSubmitTx of client.Client.
SignReserve(r) == Signs(r, ReserveBytes(r))
SignSubmit(s) == Signs(s, SubmitBytes(s))

Next ==
    \/ \E r \in Reservations : SignReserve(r)
    \/ \E s \in Submissions : SignSubmit(s)

Spec == Init /\ [][Next]_vars

-----------------------------------------------------------------------------
\* The gateway finds the bytes that were signed, also for amounts of more than
\* one uint64, which no test has, and for ids whose bytes differ.
GatewayFindsDigest ==
    /\ request \in Reservations => digest = GatewayReserveBytes(request)
    /\ request \in Submissions => digest = GatewaySubmitBytes(request)

\* A signature is good for one request: two requests that differ in anything, of
\* one kind or of both, are signed over different bytes.
DigestIsOfOneRequest ==
    (earlier.request # NoRequest /\ earlier.digest = digest) => earlier.request = request
=============================================================================
