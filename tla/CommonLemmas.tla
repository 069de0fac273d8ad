---------------------------- MODULE CommonLemmas ----------------------------
(***************************************************************************)
(* What several proofs need and the library does not state: induction over *)
(* the natural numbers and functions defined by it, as facts about sets    *)
(* (NaturalsInduction has an operator as parameter; all that is taken from *)
(* the library is that < is well founded), division by a number that is    *)
(* not known, and sequences put together.                                  *)
(***************************************************************************)
EXTENDS Integers, NaturalsInduction, WellFoundedInduction, SequenceTheorems, TLAPS

\* A set of natural numbers has a least element.
LEMMA Least ==
    ASSUME NEW T, T \subseteq Nat, T # {}
    PROVE  \E n \in T : \A m \in T : n <= m
<1>1. PICK n \in T : \A m \in T : <<m, n>> \notin OpToRel(<, Nat)
  BY WFMin, NatLessThanWellFounded, Zenon
<1>2. \A m \in T : ~ (m < n)
  BY <1>1, Zenon DEF OpToRel
<1> QED
  BY <1>2

\* Induction: T is the set of the numbers with some property.
LEMMA Induction ==
    ASSUME NEW T, 0 \in T, \A n \in Nat : n \in T => n + 1 \in T
    PROVE  Nat \subseteq T
<1> DEFINE U == Nat \ T
<1>1. CASE U = {}
  BY <1>1
<1>2. CASE U # {}
  <2>1. PICK n \in U : \A m \in U : n <= m
    <3> HIDE DEF U
    <3>1. U \subseteq Nat
      BY DEF U
    <3> QED
      BY <1>2, <3>1, Least
  <2>2. n \in Nat /\ n # 0
    BY <2>1
  <2>3. n - 1 \in Nat /\ n - 1 \notin U
    BY <2>1, <2>2
  <2> QED
    BY <2>1, <2>2, <2>3
<1> QED
  BY <1>1, <1>2

\* What computes the first n values of a function defined by recursion.
Computes(f, n, S, first, step) ==
    /\ f \in [0 .. n -> S]
    /\ f[0] = first
    /\ \A i \in 0 .. n - 1 : f[i + 1] = step[i][f[i]]

\* Two of them agree as far as they go.
LEMMA ComputesSame ==
    ASSUME NEW S, NEW first, NEW step, NEW f, NEW g, NEW n \in Nat, NEW m \in Nat,
           Computes(f, n, S, first, step), Computes(g, m, S, first, step)
    PROVE  \A i \in Nat : i <= n /\ i <= m => f[i] = g[i]
<1> DEFINE T == {i \in Nat : i <= n /\ i <= m => f[i] = g[i]}
<1>1. 0 \in T
  BY DEF Computes
<1>2. ASSUME NEW i \in Nat, i \in T
      PROVE  i + 1 \in T
  <2>1. ASSUME i + 1 <= n, i + 1 <= m
        PROVE  f[i + 1] = g[i + 1]
    <3>1. i \in 0 .. n - 1 /\ i \in 0 .. m - 1 /\ f[i] = g[i]
      BY <1>2, <2>1
    <3> QED
      BY <3>1 DEF Computes
  <2> QED
    BY <2>1
<1> HIDE DEF T
<1>3. Nat \subseteq T
  BY <1>1, <1>2, Induction
<1> QED
  BY <1>3 DEF T

\* Every first part of the function can be computed.
LEMMA ComputesMore ==
    ASSUME NEW S, NEW first \in S, NEW step \in [Nat -> [S -> S]]
    PROVE  \A n \in Nat : \E f : Computes(f, n, S, first, step)
<1> DEFINE T == {n \in Nat : \E f : Computes(f, n, S, first, step)}
<1>1. 0 \in T
  <2>1. Computes([i \in 0 .. 0 |-> first], 0, S, first, step)
    BY DEF Computes
  <2> QED
    BY <2>1
<1>2. ASSUME NEW n \in Nat, n \in T
      PROVE  n + 1 \in T
  <2>1. PICK f : Computes(f, n, S, first, step)
    BY <1>2
  <2> DEFINE g == [i \in 0 .. n + 1 |-> IF i = n + 1 THEN step[n][f[n]] ELSE f[i]]
  <2>2. f[n] \in S /\ step[n][f[n]] \in S
    <3>1. f[n] \in S
      BY <2>1 DEF Computes
    <3> QED
      BY <3>1
  <2>3. g \in [0 .. n + 1 -> S] /\ g[0] = first
    <3>1. \A i \in 0 .. n + 1 : i # n + 1 => i \in 0 .. n
      OBVIOUS
    <3>2. \A i \in 0 .. n : f[i] \in S
      BY <2>1 DEF Computes
    <3>3. 0 \in 0 .. n + 1 /\ 0 # n + 1 /\ f[0] = first
      BY <2>1 DEF Computes
    <3> QED
      BY <2>2, <3>1, <3>2, <3>3
  <2>4. ASSUME NEW i \in 0 .. (n + 1) - 1
        PROVE  g[i + 1] = step[i][g[i]]
    <3>1. CASE i = n
      <4>1. i + 1 = n + 1 /\ i + 1 \in 0 .. n + 1 /\ i \in 0 .. n + 1 /\ i # n + 1
        BY <3>1
      <4> QED
        BY <3>1, <4>1
    <3>2. CASE i # n
      <4>1. i \in 0 .. n - 1 /\ i + 1 # n + 1 /\ i + 1 \in 0 .. n + 1 /\ i \in 0 .. n + 1 /\ i # n + 1
        BY <3>2
      <4>2. g[i + 1] = f[i + 1] /\ g[i] = f[i]
        BY <4>1
      <4> QED
        BY <2>1, <4>1, <4>2 DEF Computes
    <3> QED
      BY <3>1, <3>2
  <2> HIDE DEF g
  <2>5. Computes(g, n + 1, S, first, step)
    BY <2>3, <2>4 DEF Computes
  <2> QED
    BY <2>5
<1> HIDE DEF T
<1>3. Nat \subseteq T
  BY <1>1, <1>2, Induction
<1> QED
  BY <1>3 DEF T

\* A function over the natural numbers that starts with first and goes on with
\* step.
Follows(f, S, first, step) ==
    /\ f \in [Nat -> S]
    /\ f[0] = first
    /\ \A n \in Nat : f[n + 1] = step[n][f[n]]

\* There is one.
LEMMA Recursion ==
    ASSUME NEW S, NEW first \in S, NEW step \in [Nat -> [S -> S]]
    PROVE  \E f : Follows(f, S, first, step)
<1> DEFINE part(n) == CHOOSE f : Computes(f, n, S, first, step)
           f == [n \in Nat |-> part(n)[n]]
<1>1. ASSUME NEW n \in Nat
      PROVE  Computes(part(n), n, S, first, step)
  <2>1. \E g : Computes(g, n, S, first, step)
    BY ComputesMore
  <2> QED
    BY <2>1, Zenon
<1> HIDE DEF part
<1>2. f \in [Nat -> S] /\ f[0] = first
  <2>1. ASSUME NEW n \in Nat
        PROVE  part(n)[n] \in S
    <3>1. part(n) \in [0 .. n -> S] /\ n \in 0 .. n
      BY <1>1 DEF Computes
    <3> QED
      BY <3>1
  <2>2. part(0)[0] = first
    BY <1>1 DEF Computes
  <2> QED
    BY <2>1, <2>2
<1>3. ASSUME NEW n \in Nat
      PROVE  f[n + 1] = step[n][f[n]]
  <2>1. Computes(part(n), n, S, first, step) /\ Computes(part(n + 1), n + 1, S, first, step)
    BY <1>1
  <2>2. part(n + 1)[n + 1] = step[n][part(n + 1)[n]]
    <3>1. n \in 0 .. (n + 1) - 1
      OBVIOUS
    <3> QED
      BY <2>1, <3>1 DEF Computes
  <2>3. part(n + 1)[n] = part(n)[n]
    BY <2>1, ComputesSame
  <2>4. f[n] = part(n)[n] /\ f[n + 1] = part(n + 1)[n + 1]
    BY DEF f
  <2> QED
    BY <2>2, <2>3, <2>4
<1> HIDE DEF f
<1>4. Follows(f, S, first, step)
  BY <1>2, <1>3 DEF Follows
<1> QED
  BY <1>4

-----------------------------------------------------------------------------
(* Division.                                                               *)

\* The product grows with a factor.
LEMMA TimesGrows ==
    ASSUME NEW a \in Nat, NEW b \in Nat, NEW c \in Nat, a <= b
    PROVE  a * c \in Nat /\ b * c \in Nat /\ a * c <= b * c
  OBVIOUS

\* Quotient and remainder.
LEMMA Division ==
    ASSUME NEW x \in Nat, NEW d \in Nat \ {0}
    PROVE  /\ x \div d \in Nat /\ x % d \in Nat /\ x % d < d /\ x % d <= d - 1
           /\ x = (x \div d) * d + (x % d)
  OBVIOUS

\* There is only one way to write x with them.
LEMMA DivisionIs ==
    ASSUME NEW x \in Nat, NEW d \in Nat \ {0}, NEW q \in Nat, NEW r \in Nat,
           x = q * d + r, r < d
    PROVE  x \div d = q /\ x % d = r
<1> DEFINE p == x \div d
           s == x % d
<1>1. p \in Nat /\ s \in Nat /\ s < d /\ x = p * d + s
  BY Division
<1> HIDE DEF p, s
<1>2. ~ (q < p)
  <2> SUFFICES ASSUME q < p
               PROVE  FALSE
    OBVIOUS
  <2>1. (q + 1) * d <= p * d
    BY <1>1, TimesGrows
  <2>2. (q + 1) * d = q * d + d
    OBVIOUS
  <2> QED
    BY <1>1, <2>1, <2>2
<1>3. ~ (p < q)
  <2> SUFFICES ASSUME p < q
               PROVE  FALSE
    OBVIOUS
  <2>1. (p + 1) * d <= q * d
    BY <1>1, TimesGrows
  <2>2. (p + 1) * d = p * d + d
    BY <1>1
  <2> QED
    BY <1>1, <2>1, <2>2
<1>4. p = q
  BY <1>1, <1>2, <1>3
<1>5. s = r
  BY <1>1, <1>4
<1> QED
  BY <1>4, <1>5 DEF p, s

\* x divided by d * e: the quotient is that of the quotient by d.
LEMMA DivisionTwice ==
    ASSUME NEW x \in Nat, NEW d \in Nat \ {0}, NEW e \in Nat \ {0}
    PROVE  x \div (d * e) = (x \div d) \div e
<1> DEFINE y == x \div d
           r == x % d
           z == y \div e
           s == y % e
<1>1. y \in Nat /\ r \in Nat /\ r < d /\ x = y * d + r
  BY Division
<1>2. z \in Nat /\ s \in Nat /\ s <= e - 1 /\ y = z * e + s
  <2> HIDE DEF y
  <2> QED
    BY <1>1, Division
<1>3. d * e \in Nat \ {0}
  OBVIOUS
<1> HIDE DEF y, r, z, s
<1>4. x = z * (d * e) + (s * d + r)
  BY <1>1, <1>2
<1>5. s * d + r \in Nat /\ s * d + r < d * e
  <2>1. s * d <= (e - 1) * d /\ s * d \in Nat
    BY <1>2, TimesGrows
  <2>2. (e - 1) * d = d * e - d
    OBVIOUS
  <2>3. d * e \in Nat
    BY <1>3
  <2> DEFINE m == d * e
             k == s * d
  <2> HIDE DEF m, k
  <2>4. k \in Nat /\ m \in Nat /\ k <= m - d
    BY <2>1, <2>2, <2>3 DEF m, k
  <2>5. k + r \in Nat /\ k + r < m
    BY <1>1, <2>4
  <2> QED
    BY <2>5 DEF m, k
<1>6. x \div (d * e) = z
  <2> DEFINE m == d * e
             t == s * d + r
  <2>1. m \in Nat \ {0} /\ t \in Nat /\ t < m /\ x = z * m + t
    BY <1>3, <1>4, <1>5
  <2> HIDE DEF t, m
  <2>2. x \div m = z
    BY <1>2, <2>1, DivisionIs, Zenon
  <2> QED
    BY <2>2 DEF m
<1> QED
  BY <1>6 DEF y, z

\* The remainder for d * e has the remainder for d, and its quotient by d is the
\* quotient's remainder for e.
LEMMA RemainderTwice ==
    ASSUME NEW x \in Nat, NEW d \in Nat \ {0}, NEW e \in Nat \ {0}
    PROVE  (x % (d * e)) \div d = (x \div d) % e
<1> DEFINE y == x \div d
           r == x % d
           z == y \div e
           s == y % e
           m == d * e
           t == s * d + r
<1>1. y \in Nat /\ r \in Nat /\ r < d /\ x = y * d + r
  BY Division
<1>2. z \in Nat /\ s \in Nat /\ s < e /\ y = z * e + s
  <2> HIDE DEF y
  <2> QED
    BY <1>1, Division
<1>3. m \in Nat \ {0}
  OBVIOUS
<1>4. x \div m = z
  BY DivisionTwice, Zenon
<1>5. x % m \in Nat /\ x = (x \div m) * m + (x % m)
  <2> HIDE DEF m
  <2> QED
    BY <1>3, Division
<1>6. x = z * m + t
  <2> HIDE DEF y, r, z, s
  <2> QED
    BY <1>1, <1>2
<1>7. t \in Nat
  <2> HIDE DEF y, r, z, s
  <2> QED
    BY <1>1, <1>2
<1>8. x % m = t
  <2>1. z * m \in Nat
    <3> HIDE DEF z, m
    <3> QED
      BY <1>2, <1>3
  <2> DEFINE k == z * m
  <2>2. x = k + t /\ x = k + (x % m)
    BY <1>4, <1>5, <1>6
  <2> HIDE DEF k, t, m
  <2> QED
    BY <1>5, <1>7, <2>1, <2>2 DEF k
<1>9. t \div d = s
  <2> HIDE DEF t, r, s
  <2>1. t = s * d + r
    BY DEF t
  <2> QED
    BY <1>1, <1>2, <1>7, <2>1, DivisionIs
<1> QED
  BY <1>8, <1>9

\* The remainder for d * e leaves the same remainder for d.
LEMMA RemainderOfRemainder ==
    ASSUME NEW x \in Nat, NEW d \in Nat \ {0}, NEW e \in Nat \ {0}
    PROVE  (x % (d * e)) % d = x % d
<1> DEFINE m == d * e
           y == x % m
           q == x \div m
           p == y \div d
           r == y % d
<1>1. m \in Nat \ {0}
  OBVIOUS
<1>2. q \in Nat /\ y \in Nat /\ x = q * m + y
  <2> HIDE DEF m
  <2> QED
    BY <1>1, Division
<1>3. p \in Nat /\ r \in Nat /\ r < d /\ y = p * d + r
  <2> HIDE DEF y
  <2> QED
    BY <1>2, Division
<1> HIDE DEF y, q, p, r
<1>4. x = (q * e + p) * d + r
  BY <1>2, <1>3
<1>5. q * e + p \in Nat
  BY <1>2, <1>3
<1>6. x % d = r
  <2> DEFINE k == q * e + p
  <2> HIDE DEF k
  <2>1. k \in Nat /\ x = k * d + r
    BY <1>4, <1>5 DEF k
  <2> QED
    BY <1>3, <2>1, DivisionIs
<1> QED
  BY <1>6 DEF r, y

\* What is below d * e has a quotient below e.
LEMMA QuotientBound ==
    ASSUME NEW x \in Nat, NEW d \in Nat \ {0}, NEW e \in Nat, x < d * e
    PROVE  x \div d < e
<1> DEFINE q == x \div d
<1>1. q \in Nat /\ q * d <= x
  BY Division
<1> HIDE DEF q
<1>2. ~ (e <= q)
  <2> SUFFICES ASSUME e <= q
               PROVE  FALSE
    OBVIOUS
  <2>1. e * d <= q * d /\ q * d \in Nat /\ e * d \in Nat
    BY <1>1, TimesGrows
  <2>2. d * e = e * d
    OBVIOUS
  <2> QED
    BY <1>1, <2>1, <2>2
<1> QED
  BY <1>1, <1>2 DEF q

-----------------------------------------------------------------------------
(* Sequences.                                                              *)

\* Concatenations of parts as long as each other are equal if the parts are.
LEMMA ConcatEqual ==
    ASSUME NEW S, NEW s \in Seq(S), NEW t \in Seq(S), NEW u \in Seq(S), NEW v \in Seq(S),
           Len(s) = Len(u), s \o t = u \o v
    PROVE  s = u /\ t = v
<1>1. /\ Len(s) \in Nat /\ Len(t) \in Nat /\ Len(v) \in Nat
      /\ Len(s) + Len(t) = Len(u) + Len(v)
  <2>1. Len(s \o t) = Len(s) + Len(t) /\ Len(u \o v) = Len(u) + Len(v)
    BY ConcatProperties
  <2> QED
    BY <2>1, LenProperties
<1>2. Len(t) = Len(v)
  BY <1>1
<1>3. ASSUME NEW i \in 1 .. Len(s)
      PROVE  s[i] = u[i]
  <2>1. i \in 1 .. Len(s) + Len(t) /\ i \in 1 .. Len(u) + Len(v) /\ i <= Len(s) /\ i <= Len(u)
    BY <1>1
  <2>2. (s \o t)[i] = s[i] /\ (u \o v)[i] = u[i]
    BY <2>1, ConcatProperties
  <2> QED
    BY <2>2
<1>4. s = u
  BY <1>3, SeqEqual
<1> QED
  BY <1>4, ConcatSimplifications

\* Joining adds the lengths up.
LEMMA Joined ==
    ASSUME NEW S, NEW s \in Seq(S), NEW t \in Seq(S)
    PROVE  s \o t \in Seq(S) /\ Len(s \o t) = Len(s) + Len(t)
  BY ConcatProperties

\* A tuple of a given length.
LEMMA FunctionIsSeq ==
    ASSUME NEW S, NEW n \in Nat, NEW f \in [1 .. n -> S]
    PROVE  f \in Seq(S) /\ Len(f) = n
<1>1. f \in Seq(S)
  OBVIOUS
<1>2. DOMAIN f = 1 .. n /\ DOMAIN f = 1 .. Len(f) /\ Len(f) \in Nat
  BY <1>1, LenProperties
<1> QED
  BY <1>1, <1>2

\* A sequence with one more element, as a function.
LEMMA AppendAsFunction ==
    ASSUME NEW S, NEW s \in Seq(S), NEW e \in S
    PROVE  Append(s, e) = [i \in 1 .. Len(s) + 1 |-> IF i = Len(s) + 1 THEN e ELSE s[i]]
<1> DEFINE t == Append(s, e)
<1>1. /\ t \in Seq(S) /\ Len(t) = Len(s) + 1 /\ t[Len(s) + 1] = e
      /\ \A i \in 1 .. Len(s) : t[i] = s[i]
  BY AppendProperties
<1> HIDE DEF t
<1>2. t \in [1 .. Len(s) + 1 -> S] /\ Len(s) \in Nat
  BY <1>1, LenProperties
<1>3. t = [i \in 1 .. Len(s) + 1 |-> t[i]]
  BY <1>2
<1>4. \A i \in 1 .. Len(s) + 1 : t[i] = IF i = Len(s) + 1 THEN e ELSE s[i]
  BY <1>1, <1>2
<1>5. t = [i \in 1 .. Len(s) + 1 |-> IF i = Len(s) + 1 THEN e ELSE s[i]]
  BY <1>3, <1>4
<1> QED
  BY <1>5 DEF t
=============================================================================
