------------------------- MODULE NonceManagerProofs -------------------------
(***************************************************************************)
(* Proofs about NonceManager for any number of callers, any uint64 range   *)
(* and any number of signatures that does not exceed the range.            *)
(***************************************************************************)
EXTENDS NonceManager, TLAPS

USE NoNonceAssumption, NoCallerAssumption, MaxSignedAssumption,
    MaxUint64Assumption DEF Uint64s

-----------------------------------------------------------------------------
(* Arithmetic of the uint64 counter.                                       *)

\* m.nonce++ stays a uint64.
LEMMA IncType == \A n \in Uint64s : Inc(n) \in Uint64s
  BY DEF Inc

\* So does m.nonce--.
LEMMA DecType == \A n \in Uint64s : Dec(n) \in Uint64s
  BY DEF Dec

\* A failed signature undoes the increment, across the end of the range too.
LEMMA IncDec == \A n \in Uint64s : Inc(Dec(n)) = n
  BY DEF Inc, Dec

-----------------------------------------------------------------------------
(* The inductive invariant.                                                *)

\* A caller is inside signWithNextNonce exactly while it holds the lock.
LockInv == \A c \in Callers : pc[c] # "idle" <=> nonceLock = c

\* The bound on signatures, with room for the one being made.
BoundInv ==
    /\ Len(signed) <= MaxSigned
    /\ nonceLock # NoCaller => Len(signed) < MaxSigned

Allocated == \E c \in Callers : pc[c] \in {"assign", "sign"}

\* m.nonce follows the last signed nonce, or is its successor while a caller
\* is between the increment and the signature.
NonceInv ==
    /\ (signed # << >> \/ Allocated) => nonce # NoNonce
    /\ signed # << >> =>
          nonce = IF Allocated THEN Inc(signed[Len(signed)]) ELSE signed[Len(signed)]
    /\ \A c \in Callers : pc[c] = "sign" => txNonce[c] = nonce

\* b is d steps after a, around the range at most once.
Apart(a, b, d) == b = a + d \/ b = a + d - (MaxUint64 + 1)

\* The distance of two signed nonces is that of their positions.
DistanceInv ==
    \A i, j \in 1 .. Len(signed) : i < j => Apart(signed[i], signed[j], j - i)

IInv ==
    /\ TypeOK
    /\ LockInv
    /\ BoundInv
    /\ NonceInv
    /\ SignedNoncesConsecutive
    /\ DistanceInv

-----------------------------------------------------------------------------
\* The state starts with its types.
LEMMA TypeInit == Init => TypeOK
  BY DEF Init, TypeOK, PcValues

\* It keeps them, as m.nonce is not nil when it is copied.
LEMMA TypeNext == TypeOK /\ NonceInv /\ [Next]_vars => TypeOK'
<1> SUFFICES ASSUME TypeOK, NonceInv, [Next]_vars
             PROVE  TypeOK'
  OBVIOUS
<1> USE DEF TypeOK, PcValues
<1>1. ASSUME NEW c \in Callers, Lock(c)
      PROVE  TypeOK'
  BY <1>1 DEF Lock
<1>2. ASSUME NEW c \in Callers, FetchNonce(c)
      PROVE  TypeOK'
  BY <1>2 DEF FetchNonce
<1>3. ASSUME NEW c \in Callers, FetchNonceFails(c)
      PROVE  TypeOK'
  BY <1>3 DEF FetchNonceFails, Return
<1>4. ASSUME NEW c \in Callers, IncrementNonce(c)
      PROVE  TypeOK'
  BY <1>4, IncType DEF IncrementNonce, MustFetch
<1>5. ASSUME NEW c \in Callers, AssignNonce(c)
      PROVE  TypeOK'
  BY <1>5 DEF AssignNonce, NonceInv, Allocated
<1>6. ASSUME NEW c \in Callers, Sign(c)
      PROVE  TypeOK'
  BY <1>6 DEF Sign, Return
<1>7. ASSUME NEW c \in Callers, SignFails(c)
      PROVE  TypeOK'
  BY <1>7, DecType DEF SignFails, Return, NonceAfterFailedSign, NonceInv, Allocated
<1>8. CASE AccountAdvances
  BY <1>8 DEF AccountAdvances
<1>9. CASE UNCHANGED vars
  BY <1>9 DEF vars
<1> QED
  BY <1>1, <1>2, <1>3, <1>4, <1>5, <1>6, <1>7, <1>8, <1>9 DEF Next, Critical

-----------------------------------------------------------------------------
\* The invariant holds before the first call.
LEMMA InvInit == Init => IInv
<1> SUFFICES ASSUME Init
             PROVE  IInv
  OBVIOUS
<1>1. TypeOK
  BY TypeInit
<1>2. LockInv /\ BoundInv
  BY DEF Init, LockInv, BoundInv
<1>3. NonceInv
  BY DEF Init, NonceInv, Allocated
<1>4. SignedNoncesConsecutive /\ DistanceInv
  BY DEF Init, SignedNoncesConsecutive, DistanceInv
<1> QED
  BY <1>1, <1>2, <1>3, <1>4 DEF IInv

\* The successor of a nonce is one step further from the nonces before it.
LEMMA ApartInc ==
    ASSUME NEW a \in Uint64s, NEW b \in Uint64s, NEW d \in Nat, d < MaxUint64,
           Apart(a, b, d)
    PROVE  Apart(a, Inc(b), d + 1)
  BY DEF Apart, Inc

\* One more signature, of the successor of the last one.
LEMMA DistanceStep ==
    ASSUME TypeOK, DistanceInv, Len(signed) < MaxSigned, NEW n \in Uint64s,
           signed # << >> => n = Inc(signed[Len(signed)]),
           signed' = Append(signed, n)
    PROVE  DistanceInv'
<1> USE DEF TypeOK
<1> DEFINE last == Len(signed)
<1>1. last \in Nat /\ last < MaxUint64 + 1
  OBVIOUS
<1>2. /\ Len(signed') = last + 1
      /\ signed'[last + 1] = n
      /\ \A i \in 1 .. last : signed'[i] = signed[i] /\ signed[i] \in Uint64s
  OBVIOUS
<1>3. SUFFICES ASSUME NEW i \in 1 .. last + 1, NEW j \in 1 .. last + 1, i < j
               PROVE  Apart(signed'[i], signed'[j], j - i)
  BY <1>2 DEF DistanceInv
<1>4. i \in 1 .. last /\ last \in 1 .. last
  BY <1>1, <1>3
<1>5. CASE j <= last
  <2>1. j \in 1 .. last
    BY <1>1, <1>5
  <2>2. Apart(signed[i], signed[j], j - i)
    BY <1>4, <2>1, <1>3 DEF DistanceInv
  <2>3. signed'[i] = signed[i] /\ signed'[j] = signed[j]
    BY <1>2, <1>4, <2>1
  <2> QED
    BY <2>2, <2>3
<1>6. CASE j = last + 1
  <2>1. Apart(signed[i], signed[last], last - i)
    <3>1. CASE i < last
      BY <1>4, <3>1 DEF DistanceInv
    <3>2. CASE i = last
      BY <1>2, <1>4, <3>2 DEF Apart
    <3> QED
      BY <1>4, <3>1, <3>2
  <2>2. last - i \in Nat /\ last - i < MaxUint64
    BY <1>1, <1>4
  <2>3. Apart(signed[i], Inc(signed[last]), last - i + 1)
    BY <1>2, <1>4, <2>1, <2>2, ApartInc
  <2>4. signed'[i] = signed[i] /\ signed'[j] = Inc(signed[last])
    BY <1>1, <1>2, <1>4, <1>6
  <2>5. j - i = last - i + 1
    BY <1>1, <1>4, <1>6
  <2> QED
    BY <2>3, <2>4, <2>5
<1>7. j <= last \/ j = last + 1
  BY <1>1
<1> QED
  BY <1>5, <1>6, <1>7

\* Every step keeps the invariant.
LEMMA InvNext == IInv /\ [Next]_vars => IInv'
<1> SUFFICES ASSUME IInv, [Next]_vars
             PROVE  IInv'
  OBVIOUS
<1> USE DEF IInv
<1>1. TypeOK'
  BY TypeNext
<1>2. ASSUME NEW c \in Callers, Lock(c)
      PROVE  IInv'
  <2> USE <1>2 DEF Lock, LockFree, TypeOK, PcValues
  <2>1. LockInv' /\ BoundInv'
    BY DEF LockInv, BoundInv
  <2>2. Allocated' = Allocated
    BY DEF Allocated
  <2>3. NonceInv'
    BY <2>2 DEF NonceInv
  <2>4. SignedNoncesConsecutive' /\ DistanceInv'
    BY DEF SignedNoncesConsecutive, DistanceInv
  <2> QED
    BY <1>1, <2>1, <2>3, <2>4
<1>3. ASSUME NEW c \in Callers, FetchNonce(c)
      PROVE  IInv'
  <2> USE <1>3 DEF FetchNonce, MustFetch, TypeOK, PcValues
  <2>1. LockInv' /\ BoundInv'
    BY DEF LockInv, BoundInv
  <2>2. signed = << >> /\ ~Allocated
    BY DEF NonceInv
  <2>3. NonceInv'
    BY <2>2 DEF NonceInv, Allocated
  <2>4. SignedNoncesConsecutive' /\ DistanceInv'
    BY DEF SignedNoncesConsecutive, DistanceInv
  <2> QED
    BY <1>1, <2>1, <2>3, <2>4
<1>4. ASSUME NEW c \in Callers, FetchNonceFails(c)
      PROVE  IInv'
  <2> USE <1>4 DEF FetchNonceFails, Return, MustFetch, TypeOK, PcValues
  <2>1. LockInv' /\ BoundInv'
    BY DEF LockInv, BoundInv
  <2>2. signed = << >> /\ ~Allocated
    BY DEF NonceInv
  <2>3. NonceInv'
    BY <2>2 DEF NonceInv, Allocated
  <2>4. SignedNoncesConsecutive' /\ DistanceInv'
    BY DEF SignedNoncesConsecutive, DistanceInv
  <2> QED
    BY <1>1, <2>1, <2>3, <2>4
<1>5. ASSUME NEW c \in Callers, IncrementNonce(c)
      PROVE  IInv'
  <2> USE <1>5 DEF IncrementNonce, MustFetch, TypeOK, PcValues
  <2>1. LockInv' /\ BoundInv'
    BY DEF LockInv, BoundInv
  <2>2. ~Allocated
    BY DEF Allocated, LockInv
  <2>3. Allocated'
    BY DEF Allocated
  <2>4. nonce' # NoNonce
    BY IncType
  <2>5. \A d \in Callers : pc'[d] # "sign"
    BY <2>2 DEF Allocated
  <2>6. NonceInv'
    BY <2>2, <2>3, <2>4, <2>5 DEF NonceInv
  <2>7. SignedNoncesConsecutive' /\ DistanceInv'
    BY DEF SignedNoncesConsecutive, DistanceInv
  <2> QED
    BY <1>1, <2>1, <2>6, <2>7
<1>6. ASSUME NEW c \in Callers, AssignNonce(c)
      PROVE  IInv'
  <2> USE <1>6 DEF AssignNonce, TypeOK, PcValues
  <2>1. LockInv' /\ BoundInv'
    BY DEF LockInv, BoundInv
  <2>2. Allocated /\ Allocated'
    BY DEF Allocated
  <2>3. \A d \in Callers : pc'[d] = "sign" => d = c
    BY DEF LockInv
  <2>4. NonceInv'
    BY <2>2, <2>3 DEF NonceInv
  <2>5. SignedNoncesConsecutive' /\ DistanceInv'
    BY DEF SignedNoncesConsecutive, DistanceInv
  <2> QED
    BY <1>1, <2>1, <2>4, <2>5
<1>7. ASSUME NEW c \in Callers, Sign(c)
      PROVE  IInv'
  <2> USE <1>7 DEF Sign, Return, TypeOK, PcValues
  <2>1. Allocated
    BY DEF Allocated
  <2>2. /\ nonce \in Uint64s
        /\ txNonce[c] = nonce
        /\ signed # << >> => nonce = Inc(signed[Len(signed)])
    BY <2>1 DEF NonceInv
  <2>3. /\ Len(signed) \in Nat
        /\ Len(signed') = Len(signed) + 1
        /\ \A i \in 1 .. Len(signed) : signed'[i] = signed[i]
        /\ signed'[Len(signed) + 1] = nonce
    BY <2>2
  <2>4. Len(signed) < MaxSigned
    BY DEF BoundInv, LockInv
  <2>5. LockInv' /\ BoundInv'
    BY <2>3, <2>4 DEF LockInv, BoundInv
  <2>6. ~Allocated'
    BY DEF Allocated, LockInv
  <2>7. \A d \in Callers : pc'[d] # "sign"
    BY <2>6 DEF Allocated
  <2>8. NonceInv'
    BY <2>2, <2>3, <2>6, <2>7 DEF NonceInv
  <2>9. SignedNoncesConsecutive'
    BY <2>2, <2>3 DEF SignedNoncesConsecutive
  <2>10. DistanceInv'
    BY <2>2, <2>4, DistanceStep
  <2> QED
    BY <1>1, <2>5, <2>8, <2>9, <2>10
<1>8. ASSUME NEW c \in Callers, SignFails(c)
      PROVE  IInv'
  <2> USE <1>8 DEF SignFails, Return, NonceAfterFailedSign, TypeOK, PcValues
  <2>1. LockInv' /\ BoundInv'
    BY DEF LockInv, BoundInv
  <2>2. Allocated /\ ~Allocated'
    BY DEF Allocated, LockInv
  <2>3. nonce \in Uint64s
    BY <2>2 DEF NonceInv
  <2>4. nonce' # NoNonce
    BY <2>3, DecType
  <2>5. signed # << >> => nonce' = signed[Len(signed)]
    BY <2>2, <2>3 DEF NonceInv, Inc, Dec
  <2>6. \A d \in Callers : pc'[d] # "sign"
    BY <2>2 DEF Allocated
  <2>7. NonceInv'
    BY <2>2, <2>4, <2>5, <2>6 DEF NonceInv
  <2>8. SignedNoncesConsecutive' /\ DistanceInv'
    BY DEF SignedNoncesConsecutive, DistanceInv
  <2> QED
    BY <1>1, <2>1, <2>7, <2>8
<1>9. CASE AccountAdvances \/ UNCHANGED vars
  <2> UNCHANGED <<nonce, nonceLock, pc, txNonce, signed>>
    BY <1>9 DEF AccountAdvances, vars
  <2>1. LockInv' /\ BoundInv'
    BY DEF LockInv, BoundInv
  <2>2. NonceInv'
    BY DEF NonceInv, Allocated
  <2>3. SignedNoncesConsecutive' /\ DistanceInv'
    BY DEF SignedNoncesConsecutive, DistanceInv
  <2> QED
    BY <1>1, <2>1, <2>2, <2>3
<1> QED
  BY <1>2, <1>3, <1>4, <1>5, <1>6, <1>7, <1>8, <1>9 DEF Next, Critical

\* The inductive invariant holds throughout signWithNextNonce.
THEOREM Invariance == Spec => []IInv
  BY InvInit, InvNext, PTL DEF Spec

-----------------------------------------------------------------------------
(* The properties.                                                         *)

\* The state stays within its types, for any number of callers.
THEOREM TypeCorrect == Spec => []TypeOK
<1>1. IInv => TypeOK
  BY DEF IInv
<1> QED
  BY <1>1, Invariance, PTL

\* signWithNextNonce never gives two signed transactions one nonce, whatever
\* the interleaving and the failures: the distance of two signed nonces is not
\* a multiple of 2^64 as long as no more than 2^64 transactions are signed.
THEOREM NoncesUnique == Spec => []NoNonceSignedTwice
<1>1. ASSUME IInv
      PROVE  NoNonceSignedTwice
  <2> SUFFICES ASSUME NEW i \in 1 .. Len(signed), NEW j \in 1 .. Len(signed), i < j
               PROVE  signed[i] # signed[j]
    BY <1>1 DEF NoNonceSignedTwice, IInv, TypeOK
  <2>1. j - i \in 1 .. MaxUint64
    BY <1>1 DEF IInv, TypeOK, BoundInv
  <2>2. signed[i] \in Uint64s /\ signed[j] \in Uint64s
    BY <1>1 DEF IInv, TypeOK
  <2> QED
    BY <1>1, <2>1, <2>2 DEF IInv, DistanceInv, Apart
<1> QED
  BY <1>1, Invariance, PTL

\* The signed transactions use consecutive nonces: a failed signature between
\* two of them leaves no gap, at the ends of the uint64 range either.
THEOREM NoncesConsecutive == Spec => []SignedNoncesConsecutive
<1>1. IInv => SignedNoncesConsecutive
  BY DEF IInv
<1> QED
  BY <1>1, Invariance, PTL

-----------------------------------------------------------------------------
(* The refinement: the signature of a transaction is the one step at which *)
(* the allocator issues a nonce; all else is learning it or stuttering.    *)

\* At the start no nonce was issued.
LEMMA AllocatorInit == Init => Allocator!Init
  BY DEF Init, Allocator!Init, Allocator!Uint64s, Upcoming

\* Only Sign issues; the first fetch learns the account's nonce.
LEMMA AllocatorNext ==
    IInv /\ [Next]_vars => [Allocator!Next]_(Allocator!vars)
<1> SUFFICES ASSUME IInv, [Next]_vars
             PROVE  [Allocator!Next]_(Allocator!vars)
  OBVIOUS
<1> USE DEF IInv, TypeOK, PcValues
<1> DEFINE Stutters == Upcoming' = Upcoming /\ UNCHANGED <<signed, account>>
<1>0. Upcoming = IF nonce = NoNonce THEN NoNonce
                 ELSE IF Allocated THEN nonce ELSE Inc(nonce)
  BY DEF Upcoming, Allocated
<1>1. Upcoming' = IF nonce' = NoNonce THEN NoNonce
                  ELSE IF Allocated' THEN nonce' ELSE Inc(nonce')
  BY DEF Upcoming, Allocated
<1>2. ASSUME NEW c \in Callers, Lock(c)
      PROVE  Stutters
  <2>1. Allocated' = Allocated
    BY <1>2 DEF Lock, Allocated
  <2> QED
    BY <1>0, <1>1, <1>2, <2>1 DEF Lock
<1>3. ASSUME NEW c \in Callers, FetchNonce(c)
      PROVE  Allocator!Learn
  <2>1. Allocated'
    BY <1>3 DEF FetchNonce, Allocated
  <2> QED
    BY <1>0, <1>1, <1>3, <2>1 DEF FetchNonce, MustFetch, Allocator!Learn
<1>4. ASSUME NEW c \in Callers, FetchNonceFails(c)
      PROVE  Stutters
  BY <1>0, <1>1, <1>4 DEF FetchNonceFails, Return, MustFetch
<1>5. ASSUME NEW c \in Callers, IncrementNonce(c)
      PROVE  Stutters
  <2>1. ~Allocated
    BY <1>5 DEF IncrementNonce, Allocated, LockInv
  <2>2. Allocated'
    BY <1>5 DEF IncrementNonce, Allocated
  <2>3. nonce' # NoNonce
    BY <1>5, IncType DEF IncrementNonce, MustFetch
  <2> QED
    BY <1>0, <1>1, <1>5, <2>1, <2>2, <2>3 DEF IncrementNonce, MustFetch
<1>6. ASSUME NEW c \in Callers, AssignNonce(c)
      PROVE  Stutters
  <2>1. Allocated /\ Allocated'
    BY <1>6 DEF AssignNonce, Allocated
  <2> QED
    BY <1>0, <1>1, <1>6, <2>1 DEF AssignNonce
<1>7. ASSUME NEW c \in Callers, Sign(c)
      PROVE  Allocator!Issue
  <2>1. Allocated
    BY <1>7 DEF Sign, Allocated
  <2>2. ~Allocated'
    BY <1>7 DEF Sign, Return, Allocated, LockInv
  <2>3. nonce # NoNonce /\ txNonce[c] = nonce
    BY <1>7, <2>1 DEF Sign, NonceInv
  <2> QED
    BY <1>0, <1>1, <1>7, <2>1, <2>2, <2>3
    DEF Sign, Return, Allocator!Issue, Allocator!Upcoming, Allocator!Inc, Inc
<1>8. ASSUME NEW c \in Callers, SignFails(c)
      PROVE  Stutters
  <2>1. Allocated
    BY <1>8 DEF SignFails, Allocated
  <2>2. ~Allocated'
    BY <1>8 DEF SignFails, Return, Allocated, LockInv
  <2>3. nonce \in Uint64s
    BY <2>1 DEF NonceInv
  <2>4. nonce' # NoNonce /\ Inc(nonce') = nonce
    BY <1>8, <2>3, DecType, IncDec DEF SignFails, NonceAfterFailedSign
  <2> QED
    BY <1>0, <1>1, <1>8, <2>1, <2>2, <2>3, <2>4 DEF SignFails
<1>9. CASE AccountAdvances
  <2>1. Upcoming' = Upcoming
    BY <1>9 DEF AccountAdvances, Upcoming
  <2> QED
    BY <1>9, <2>1 DEF AccountAdvances, Allocator!AccountAdvances, Allocator!Next
<1>10. CASE UNCHANGED vars
  BY <1>10 DEF vars, Upcoming, Allocator!vars
<1>11. Stutters => UNCHANGED Allocator!vars
  BY DEF Allocator!vars
<1> QED
  BY <1>2, <1>3, <1>4, <1>5, <1>6, <1>7, <1>8, <1>9, <1>10, <1>11
  DEF Next, Critical, Allocator!Next

\* signWithNextNonce behaves as the abstract allocator: seen from outside, a
\* call that signs is one step, and a call that fails changes nothing.
THEOREM AllocatorImplemented == Spec => ImplementsAllocator
  BY AllocatorInit, AllocatorNext, Invariance, PTL
  DEF Spec, ImplementsAllocator, Allocator!Spec
=============================================================================
