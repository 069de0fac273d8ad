---------------------------- MODULE NonceManager ----------------------------
(***************************************************************************)
(* signWithNextNonce (txmgr/txmgr.go:334-368): the goroutines that call    *)
(* Send on one PreconfTxMgr share the pointer m.nonce and serialise on     *)
(* m.nonceLock, which stays held across the two network calls of the       *)
(* critical section (NonceAt and the remote Signer).  Each network call    *)
(* may fail; a failed signature gives the nonce back.                      *)
(***************************************************************************)
EXTENDS Uint64, Sequences

CONSTANTS
    Callers,        \* the goroutines that sign transactions
    NoNonce,        \* m.nonce is the nil pointer
    NoCaller,       \* m.nonceLock is free
    MaxSigned       \* bound: how many transactions are signed in all

ASSUME NoNonceAssumption == NoNonce \notin Uint64s
ASSUME NoCallerAssumption == NoCaller \notin Callers
\* A process does not sign 2^64 transactions.
ASSUME MaxSignedAssumption == MaxSigned \in 0 .. (MaxUint64 + 1)

VARIABLES
    nonce,          \* m.nonce: NoNonce, or the nonce last handed out
    nonceLock,      \* the holder of m.nonceLock, or NoCaller
    pc,             \* where each caller is in signWithNextNonce
    txNonce,        \* x.Nonce, the nonce written in each caller's txMessage
    signed,         \* history: the nonces of the signed transactions, in order
    account         \* the account's nonce at the latest block (external)

vars == <<nonce, nonceLock, pc, txNonce, signed, account>>

PcValues == {"idle", "locked", "assign", "sign"}

Init ==
    /\ nonce = NoNonce
    /\ nonceLock = NoCaller
    /\ pc = [c \in Callers |-> "idle"]
    /\ txNonce = [c \in Callers |-> 0]
    /\ signed = << >>
    /\ account \in Uint64s

-----------------------------------------------------------------------------
(* The guards and assignments of the function, and plausible slips of each. *)

LockIgnored(c) == TRUE
\* m.nonceLock.Lock() returns to c only when nobody holds the lock.
LockFree(c) == nonceLock = NoCaller

FetchAlways == TRUE
\* The nonce is fetched only while m.nonce is nil.
MustFetch == nonce = NoNonce

NonceKept(n) == n
\* A failed signature decrements *m.nonce, so that the next call reuses it.
NonceAfterFailedSign(n) == Dec(n)

\* Every return of c goes through the deferred Unlock.
Return(c) ==
    /\ nonceLock' = NoCaller
    /\ pc' = [pc EXCEPT ![c] = "idle"]

-----------------------------------------------------------------------------
Lock(c) ==
    /\ pc[c] = "idle"
    /\ LockFree(c)
    /\ Len(signed) < MaxSigned
    /\ nonceLock' = c
    /\ pc' = [pc EXCEPT ![c] = "locked"]
    /\ UNCHANGED <<nonce, txNonce, signed, account>>

FetchNonce(c) ==
    /\ pc[c] = "locked"
    /\ MustFetch
    /\ nonce' = account
    /\ pc' = [pc EXCEPT ![c] = "assign"]
    /\ UNCHANGED <<nonceLock, txNonce, signed, account>>

\* A return without the deferred Unlock.
FetchNonceFailsLocked(c) ==
    /\ pc[c] = "locked"
    /\ MustFetch
    /\ pc' = [pc EXCEPT ![c] = "idle"]
    /\ UNCHANGED <<nonce, nonceLock, txNonce, signed, account>>

FetchNonceFails(c) ==
    /\ pc[c] = "locked"
    /\ MustFetch
    /\ Return(c)
    /\ UNCHANGED <<nonce, txNonce, signed, account>>

IncrementNonce(c) ==
    /\ pc[c] = "locked"
    /\ ~MustFetch
    /\ nonce' = Inc(nonce)
    /\ pc' = [pc EXCEPT ![c] = "assign"]
    /\ UNCHANGED <<nonceLock, txNonce, signed, account>>

\* The type switch: both transaction types craftTx builds have a Nonce field.
AssignNonce(c) ==
    /\ pc[c] = "assign"
    /\ txNonce' = [txNonce EXCEPT ![c] = nonce]
    /\ pc' = [pc EXCEPT ![c] = "sign"]
    /\ UNCHANGED <<nonce, nonceLock, signed, account>>

Sign(c) ==
    /\ pc[c] = "sign"
    /\ signed' = Append(signed, txNonce[c])
    /\ Return(c)
    /\ UNCHANGED <<nonce, txNonce, account>>

SignFails(c) ==
    /\ pc[c] = "sign"
    /\ nonce' = NonceAfterFailedSign(nonce)
    /\ Return(c)
    /\ UNCHANGED <<txNonce, signed, account>>

\* The signer's own steps, between Lock and the return.
Critical(c) ==
    \/ FetchNonce(c)
    \/ FetchNonceFails(c)
    \/ IncrementNonce(c)
    \/ AssignNonce(c)
    \/ Sign(c)
    \/ SignFails(c)

\* External: transactions of the account reach the chain (ours or another
\* wallet's); the chain never reaches the last nonce twice.
AccountAdvances ==
    /\ account < MaxUint64
    /\ account' = account + 1
    /\ UNCHANGED <<nonce, nonceLock, pc, txNonce, signed>>

Next ==
    \/ \E c \in Callers : Lock(c) \/ Critical(c)
    \/ AccountAdvances

Spec == Init /\ [][Next]_vars

\* Both network calls of the critical section run under a context with
\* m.cfg.NetworkTimeout, so a caller inside it keeps moving.
FairSpec == Spec /\ \A c \in Callers : WF_vars(Critical(c))

-----------------------------------------------------------------------------
TypeOK ==
    /\ nonce \in Uint64s \cup {NoNonce}
    /\ nonceLock \in Callers \cup {NoCaller}
    /\ pc \in [Callers -> PcValues]
    /\ txNonce \in [Callers -> Uint64s]
    /\ signed \in Seq(Uint64s)
    /\ account \in Uint64s

\* No two signed transactions carry the same nonce, however the callers
\* interleave and whichever fetches and signatures fail: the chain could
\* include only one of the two (signWithNextNonce under m.nonceLock).
NoNonceSignedTwice ==
    \A i, j \in 1 .. Len(signed) : i # j => signed[i] # signed[j]

\* The signed transactions use up the nonces without a gap, around the end of
\* the uint64 range too: a signature that fails after the increment (or right
\* after the fetch, where 0 is decremented to 2^64 - 1) leaves no hole.
SignedNoncesConsecutive ==
    \A i \in 1 .. Len(signed) - 1 : signed[i + 1] = Inc(signed[i])

\* Whoever takes m.nonceLock releases it, on each path of signWithNextNonce.
LockIsReleased ==
    \A c \in Callers : nonceLock = c ~> nonceLock # c

\* The nonce the next signed transaction will carry, if the calls before it
\* fail or return.
Upcoming ==
    IF nonce = NoNonce THEN NoNonce
    ELSE IF \E c \in Callers : pc[c] \in {"assign", "sign"} THEN nonce
    ELSE Inc(nonce)

\* signWithNextNonce, with its lock, its two network calls and its failures,
\* behaves as an allocator that issues consecutive nonces in single steps.
Allocator == INSTANCE NonceAllocator WITH next <- Upcoming, issued <- signed

ImplementsAllocator == Allocator!Spec
=============================================================================
