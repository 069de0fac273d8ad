------------------------------- MODULE Uint64 -------------------------------
(***************************************************************************)
(* Go's uint64 as txmgr.go uses it: nonces and slots are unsigned, and     *)
(* ++, -- and + 1 wrap around silently at the ends of the range.           *)
(***************************************************************************)
EXTENDS Integers

CONSTANT MaxUint64      \* the largest uint64: 2^64 - 1, a small number for TLC

ASSUME MaxUint64Assumption == MaxUint64 \in Nat \ {0}

Uint64s == 0 .. MaxUint64

\* The increment of a uint64 (txmgr.go: `*m.nonce++`, `head+1`, `slot+1`).
Inc(n) == IF n = MaxUint64 THEN 0 ELSE n + 1

\* A decrement that does not wrap, as a signed counter would have it.
SignedDec(n) == n - 1

\* The decrement of a uint64 (txmgr.go: `*m.nonce--`): 0 becomes MaxUint64.
Dec(n) == IF n = 0 THEN MaxUint64 ELSE n - 1
=============================================================================
