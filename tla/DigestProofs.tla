---------------------------- MODULE DigestProofs ----------------------------
(***************************************************************************)
(* Proofs about Digest, for bytes and words of any size, and any requests. *)
(***************************************************************************)
EXTENDS Digest, CommonLemmas

-----------------------------------------------------------------------------
(* Powers and digits.                                                      *)

\* A byte has two values at least, a word one byte.
LEMMA BaseFacts == /\ Base \in Nat /\ Base > 1
                   /\ WordBytes \in Nat /\ WordBytes > 0
  BY BaseAssumption

\* Power, the recursive function, is what it says.
LEMMA PowerSteps ==
    /\ Power \in [Nat -> Nat \ {0}]
    /\ Power[0] = 1
    /\ \A n \in Nat : Power[n + 1] = Base * Power[n]
<1> DEFINE S == Nat \ {0}
           step == [n \in Nat |-> [p \in S |-> Base * p]]
           body(f) == [n \in Nat |-> IF n = 0 THEN 1 ELSE Base * f[n - 1]]
<1>1. step \in [Nat -> [S -> S]]
  BY BaseFacts
<1>2. 1 \in S
  OBVIOUS
<1> HIDE DEF S, step
<1>3. PICK f : Follows(f, S, 1, step)
  BY <1>1, <1>2, Recursion
<1>4. f \in [Nat -> S] /\ f[0] = 1
  BY <1>3 DEF Follows
<1>5. ASSUME NEW n \in Nat
      PROVE  f[n + 1] = Base * f[n]
  BY <1>3, <1>4 DEF Follows, step
<1>6. f = body(f)
  <2>1. ASSUME NEW n \in Nat
        PROVE  f[n] = IF n = 0 THEN 1 ELSE Base * f[n - 1]
    <3>1. CASE n = 0
      BY <1>4, <3>1
    <3>2. CASE n # 0
      <4>1. n - 1 \in Nat /\ (n - 1) + 1 = n
        BY <3>2
      <4> QED
        BY <1>5, <3>2, <4>1
    <3> QED
      BY <3>1, <3>2
  <2> QED
    BY <1>4, <2>1
<1>7. Power = CHOOSE h : h = body(h)
  BY DEF Power
<1>8. Power = body(Power)
  <2> HIDE DEF body
  <2> QED
    BY <1>6, <1>7
<1> DEFINE g == Power
<1> HIDE DEF g
<1>9. g = [n \in Nat |-> IF n = 0 THEN 1 ELSE Base * g[n - 1]]
  BY <1>8 DEF g
<1>10. g[0] = 1 /\ \A n \in Nat : g[n + 1] = Base * g[n]
  <2>1. g[0] = 1
    BY <1>9
  <2>2. ASSUME NEW n \in Nat
        PROVE  g[n + 1] = Base * g[n]
    <3>1. n + 1 \in Nat /\ n + 1 # 0 /\ (n + 1) - 1 = n
      OBVIOUS
    <3> QED
      BY <1>9, <3>1
  <2> QED
    BY <2>1, <2>2
<1> DEFINE T == {n \in Nat : g[n] \in Nat \ {0}}
<1>11. Nat \subseteq T
  <2>1. 0 \in T
    BY <1>10
  <2>2. ASSUME NEW n \in Nat, n \in T
        PROVE  n + 1 \in T
    BY <1>10, <2>2, BaseFacts
  <2> HIDE DEF T
  <2> QED
    BY <2>1, <2>2, Induction
<1>12. g \in [Nat -> Nat \ {0}]
  BY <1>9, <1>11
<1> QED
  BY <1>10, <1>12 DEF g

\* The law of exponents.
LEMMA PowerSum ==
    ASSUME NEW m \in Nat, NEW n \in Nat
    PROVE  Power[m + n] = Power[m] * Power[n]
<1> DEFINE T == {k \in Nat : Power[m + k] = Power[m] * Power[k]}
<1>1. 0 \in T
  BY PowerSteps
<1>2. ASSUME NEW k \in Nat, k \in T
      PROVE  k + 1 \in T
  <2>1. m + (k + 1) = (m + k) + 1 /\ m + k \in Nat
    OBVIOUS
  <2>2. Power[m + (k + 1)] = Base * Power[m + k] /\ Power[k + 1] = Base * Power[k]
    BY <2>1, PowerSteps
  <2>3. Power[m] \in Nat /\ Power[k] \in Nat /\ Base \in Nat
    BY PowerSteps, BaseFacts
  <2>4. \A x \in Nat, y \in Nat, z \in Nat : x * (y * z) = y * (x * z)
    OBVIOUS
  <2>5. Power[m + k] = Power[m] * Power[k]
    BY <1>2
  <2> QED
    BY <2>2, <2>3, <2>4, <2>5
<1> HIDE DEF T
<1>3. Nat \subseteq T
  BY <1>1, <1>2, Induction
<1> QED
  BY <1>3 DEF T

\* The bytes of a number.
LEMMA LittleEndianType ==
    ASSUME NEW x \in Nat, NEW n \in Nat
    PROVE  /\ LittleEndian(x, n) \in Seq(Nat)
           /\ Len(LittleEndian(x, n)) = n
           /\ \A i \in 1 .. n : LittleEndian(x, n)[i] = (x \div Power[i - 1]) % Base
<1> DEFINE b == LittleEndian(x, n)
<1>1. ASSUME NEW i \in 1 .. n
      PROVE  (x \div Power[i - 1]) % Base \in Nat
  <2>1. Power[i - 1] \in Nat \ {0}
    BY PowerSteps
  <2>2. x \div Power[i - 1] \in Nat
    BY <2>1, Division
  <2> QED
    BY <2>2, BaseFacts, Division
<1>2. b = [i \in 1 .. n |-> (x \div Power[i - 1]) % Base]
  BY DEF LittleEndian
<1> HIDE DEF b
<1>3. b \in [1 .. n -> Nat]
  BY <1>1, <1>2
<1>4. b \in Seq(Nat) /\ Len(b) = n
  BY <1>3
<1> QED
  BY <1>2, <1>4 DEF b

\* The bytes after the first m are those of the quotient.
LEMMA LittleEndianSplit ==
    ASSUME NEW x \in Nat, NEW m \in Nat, NEW n \in Nat
    PROVE  LittleEndian(x, m + n) = LittleEndian(x, m) \o LittleEndian(x \div Power[m], n)
<1> DEFINE y == x \div Power[m]
           s == LittleEndian(x, m + n)
           t == LittleEndian(x, m)
           u == LittleEndian(y, n)
<1>1. Power[m] \in Nat \ {0} /\ y \in Nat
  BY PowerSteps, Division
<1> HIDE DEF y
<1>2. /\ s \in Seq(Nat) /\ Len(s) = m + n
      /\ \A i \in 1 .. m + n : s[i] = (x \div Power[i - 1]) % Base
  BY LittleEndianType
<1>3. /\ t \in Seq(Nat) /\ Len(t) = m
      /\ \A i \in 1 .. m : t[i] = (x \div Power[i - 1]) % Base
  BY LittleEndianType
<1>4. /\ u \in Seq(Nat) /\ Len(u) = n
      /\ \A i \in 1 .. n : u[i] = (y \div Power[i - 1]) % Base
  BY <1>1, LittleEndianType
<1> HIDE DEF s, t, u
<1>5. /\ t \o u \in Seq(Nat) /\ Len(t \o u) = m + n
      /\ \A i \in 1 .. m + n : (t \o u)[i] = IF i <= m THEN t[i] ELSE u[i - m]
  BY <1>3, <1>4, ConcatProperties
<1>6. ASSUME NEW i \in 1 .. m + n
      PROVE  s[i] = (t \o u)[i]
  <2>1. CASE i <= m
    <3>1. i \in 1 .. m
      BY <2>1
    <3> QED
      BY <1>2, <1>3, <1>5, <3>1
  <2>2. CASE i > m
    <3>1. i - m \in 1 .. n /\ (i - m) - 1 \in Nat /\ m + ((i - m) - 1) = i - 1
      BY <2>2
    <3>2. Power[i - 1] = Power[m] * Power[(i - m) - 1]
      BY <3>1, PowerSum
    <3>3. Power[(i - m) - 1] \in Nat \ {0}
      BY <3>1, PowerSteps
    <3>4. x \div Power[i - 1] = y \div Power[(i - m) - 1]
      <4> DEFINE d == Power[m]
                 e == Power[(i - m) - 1]
      <4> HIDE DEF d, e
      <4>1. d \in Nat \ {0} /\ e \in Nat \ {0} /\ Power[i - 1] = d * e
        BY <1>1, <3>2, <3>3 DEF d, e
      <4>2. x \div (d * e) = (x \div d) \div e
        BY <4>1, DivisionTwice, Zenon
      <4> QED
        BY <4>1, <4>2 DEF d, e, y
    <3>5. (t \o u)[i] = u[i - m]
      BY <1>5, <2>2
    <3> QED
      BY <1>2, <1>4, <3>1, <3>4, <3>5
  <2>3. i <= m \/ i > m
    OBVIOUS
  <2> QED
    BY <2>1, <2>2, <2>3, Zenon
<1>7. s = t \o u
  BY <1>2, <1>5, <1>6, SeqEqual
<1> QED
  BY <1>7 DEF s, t, u, y

\* The lowest n bytes are those of the remainder.
LEMMA LittleEndianLow ==
    ASSUME NEW x \in Nat, NEW n \in Nat
    PROVE  LittleEndian(x % Power[n], n) = LittleEndian(x, n)
<1> DEFINE y == x % Power[n]
<1>1. Power[n] \in Nat \ {0} /\ y \in Nat
  BY PowerSteps, Division
<1>2. ASSUME NEW i \in 1 .. n
      PROVE  (y \div Power[i - 1]) % Base = (x \div Power[i - 1]) % Base
  <2> DEFINE d == Power[i - 1]
             e == Power[n - (i - 1)]
             f == Power[n - i]
  <2>1. i - 1 \in Nat /\ n - (i - 1) \in Nat /\ (i - 1) + (n - (i - 1)) = n
        /\ n - i \in Nat /\ (n - i) + 1 = n - (i - 1)
    OBVIOUS
  <2>2. d \in Nat \ {0} /\ e \in Nat \ {0} /\ f \in Nat \ {0} /\ Power[n] = d * e /\ e = Base * f
    BY <2>1, PowerSteps, PowerSum
  <2> HIDE DEF d, e, f
  <2>3. y \div d = (x \div d) % e
    <3>1. (x % (d * e)) \div d = (x \div d) % e
      BY <2>2, RemainderTwice
    <3> QED
      BY <2>2, <3>1
  <2>4. x \div d \in Nat
    BY <2>2, Division
  <2>5. ((x \div d) % (Base * f)) % Base = (x \div d) % Base
    <3> DEFINE z == x \div d
    <3> HIDE DEF z
    <3>1. Base \in Nat \ {0} /\ z \in Nat
      BY <2>4, BaseFacts DEF z
    <3>2. (z % (Base * f)) % Base = z % Base
      BY <2>2, <3>1, RemainderOfRemainder
    <3> QED
      BY <3>2 DEF z
  <2> QED
    BY <2>2, <2>3, <2>5 DEF d
<1> HIDE DEF y
<1>3. LittleEndian(y, n) = LittleEndian(x, n)
  BY <1>2 DEF LittleEndian
<1> QED
  BY <1>3 DEF y

\* Numbers of n bytes that differ have bytes that differ.
LEMMA LittleEndianInjective ==
    ASSUME NEW n \in Nat, NEW x \in 0 .. Power[n] - 1, NEW y \in 0 .. Power[n] - 1,
           LittleEndian(x, n) = LittleEndian(y, n)
    PROVE  x = y
<1> DEFINE Differ(k) == \A v, w \in 0 .. Power[k] - 1 :
                            LittleEndian(v, k) = LittleEndian(w, k) => v = w
           T == {k \in Nat : Differ(k)}
<1>1. 0 \in T
  <2>1. 0 .. Power[0] - 1 = {0}
    BY PowerSteps
  <2> QED
    BY <2>1
<1>2. ASSUME NEW k \in Nat, k \in T
      PROVE  k + 1 \in T
  <2> SUFFICES ASSUME NEW v \in 0 .. Power[k + 1] - 1, NEW w \in 0 .. Power[k + 1] - 1,
                      LittleEndian(v, k + 1) = LittleEndian(w, k + 1)
               PROVE  v = w
    OBVIOUS
  <2> HIDE DEF T
  <2>1. /\ Power[1] = Base /\ Power[0] = 1 /\ Power[k] \in Nat \ {0}
        /\ Power[k + 1] = Base * Power[k]
        /\ Base \in Nat \ {0}
    <3>1. Power[0 + 1] = Base * Power[0] /\ Power[0] = 1
      BY PowerSteps
    <3> QED
      BY <3>1, PowerSteps, BaseFacts
  <2>2. ASSUME NEW z \in 0 .. Power[k + 1] - 1
        PROVE  /\ LittleEndian(z, k + 1) = LittleEndian(z, 1) \o LittleEndian(z \div Base, k)
               /\ LittleEndian(z, 1) \in Seq(Nat) /\ Len(LittleEndian(z, 1)) = 1
               /\ LittleEndian(z \div Base, k) \in Seq(Nat)
               /\ LittleEndian(z, 1)[1] = z % Base
               /\ z \div Base \in 0 .. Power[k] - 1
               /\ z \in Nat
    <3>0. Power[k + 1] \in Nat /\ z < Power[k + 1] /\ z \in Nat
      <4>1. Power[k + 1] \in Nat
        BY PowerSteps
      <4> QED
        BY <4>1
    <3>1. z \in Nat /\ z \div Base \in Nat /\ 1 + k = k + 1
      <4>1. z \div Base \in Nat
        BY <2>1, <3>0, Division
      <4>2. 1 + k = k + 1
        OBVIOUS
      <4> QED
        BY <3>0, <4>1, <4>2
    <3>2. LittleEndian(z, 1 + k) = LittleEndian(z, 1) \o LittleEndian(z \div Power[1], k)
      <4>1. z \in Nat /\ 1 \in Nat /\ k \in Nat
        BY <3>1
      <4> QED
        BY <4>1, LittleEndianSplit, Zenon
    <3>3. /\ LittleEndian(z, 1) \in Seq(Nat) /\ Len(LittleEndian(z, 1)) = 1
          /\ LittleEndian(z, 1)[1] = (z \div Power[0]) % Base
      <4>1. 1 \in 1 .. 1 /\ 1 - 1 = 0 /\ 1 \in Nat
        OBVIOUS
      <4>2. \A i \in 1 .. 1 : LittleEndian(z, 1)[i] = (z \div Power[i - 1]) % Base
        BY <3>1, <4>1, LittleEndianType
      <4>3. LittleEndian(z, 1)[1] = (z \div Power[1 - 1]) % Base
        BY <4>1, <4>2
      <4> QED
        BY <3>1, <4>1, <4>3, LittleEndianType
    <3>4. LittleEndian(z \div Base, k) \in Seq(Nat)
      BY <3>1, LittleEndianType
    <3>5. z \div Power[0] = z
      BY <2>1, <3>1
    <3>6. z \div Base < Power[k]
      <4>1. z < Base * Power[k]
        BY <2>1, <3>0
      <4> QED
        BY <2>1, <3>1, <4>1, QuotientBound
    <3>7. z \div Base \in 0 .. Power[k] - 1
      <4> DEFINE q == z \div Base
                 p == Power[k]
      <4> HIDE DEF q, p
      <4>1. q \in Nat /\ p \in Nat /\ q < p
        BY <2>1, <3>1, <3>6 DEF q, p
      <4>2. q \in 0 .. p - 1
        BY <4>1
      <4> QED
        BY <4>2 DEF q, p
    <3> QED
      BY <2>1, <3>1, <3>2, <3>3, <3>4, <3>5, <3>7
  <2>3. LittleEndian(v, 1) = LittleEndian(w, 1) /\ LittleEndian(v \div Base, k) = LittleEndian(w \div Base, k)
    <3> DEFINE a == LittleEndian(v, 1)
               b == LittleEndian(w, 1)
               c == LittleEndian(v \div Base, k)
               d == LittleEndian(w \div Base, k)
    <3>1. a \in Seq(Nat) /\ b \in Seq(Nat) /\ c \in Seq(Nat) /\ d \in Seq(Nat)
          /\ Len(a) = Len(b) /\ a \o c = b \o d
      BY <2>2
    <3> HIDE DEF a, b, c, d
    <3>2. a = b /\ c = d
      BY <3>1, ConcatEqual
    <3> QED
      BY <3>2 DEF a, b, c, d
  <2>4. v \div Base = w \div Base
    BY <1>2, <2>2, <2>3 DEF T
  <2>5. v % Base = w % Base
    BY <2>2, <2>3
  <2>6. v = (v \div Base) * Base + (v % Base) /\ w = (w \div Base) * Base + (w % Base)
    BY <2>1, <2>2, Division
  <2> QED
    BY <2>4, <2>5, <2>6
<1> HIDE DEF T
<1>3. n \in T
  BY <1>1, <1>2, Induction
<1> QED
  BY <1>3 DEF T

-----------------------------------------------------------------------------
(* The amounts.                                                            *)

\* A limb has the bytes of its place.
LEMMA LimbBytes ==
    ASSUME NEW x \in Nat, NEW i \in 0 .. 3
    PROVE  /\ Limb(x, i) \in Nat
           /\ x \div Power[i * WordBytes] \in Nat
           /\ LittleEndian(Limb(x, i), WordBytes) =
                 LittleEndian(x \div Power[i * WordBytes], WordBytes)
<1> DEFINE y == x \div Power[i * WordBytes]
<1>1. i * WordBytes \in Nat /\ WordBytes \in Nat
  BY BaseFacts
<1>2. Power[i * WordBytes] \in Nat \ {0} /\ Power[WordBytes] \in Nat \ {0}
  BY <1>1, PowerSteps
<1>3. y \in Nat
  BY <1>2, Division
<1>4. Limb(x, i) = y % Power[WordBytes]
  BY DEF Limb
<1> HIDE DEF y
<1>5. Limb(x, i) \in Nat
  BY <1>2, <1>3, <1>4, Division
<1>6. LittleEndian(Limb(x, i), WordBytes) = LittleEndian(y, WordBytes)
  BY <1>1, <1>3, <1>4, LittleEndianLow
<1> QED
  BY <1>3, <1>5, <1>6 DEF y

\* After its lowest word, a quotient has the bytes of the next one.
LEMMA NextLimb ==
    ASSUME NEW x \in Nat, NEW i \in 0 .. 2, NEW k \in 1 .. 3
    PROVE  LittleEndian(x \div Power[i * WordBytes], (k + 1) * WordBytes) =
              LittleEndian(x \div Power[i * WordBytes], WordBytes)
                 \o LittleEndian(x \div Power[(i + 1) * WordBytes], k * WordBytes)
<1> DEFINE y == x \div Power[i * WordBytes]
           z == x \div Power[(i + 1) * WordBytes]
<1>1. i * WordBytes \in Nat /\ k * WordBytes \in Nat /\ WordBytes \in Nat
  BY BaseFacts
<1>2. (k + 1) * WordBytes = WordBytes + k * WordBytes /\ (i + 1) * WordBytes = i * WordBytes + WordBytes
  BY BaseFacts
<1>3. Power[i * WordBytes] \in Nat \ {0} /\ Power[WordBytes] \in Nat \ {0}
  BY <1>1, PowerSteps
<1>4. y \in Nat
  BY <1>3, Division
<1>5. Power[(i + 1) * WordBytes] = Power[i * WordBytes] * Power[WordBytes]
  BY <1>1, <1>2, PowerSum
<1>6. z = y \div Power[WordBytes]
  <2> DEFINE d == Power[i * WordBytes]
             e == Power[WordBytes]
  <2> HIDE DEF d, e
  <2>1. d \in Nat \ {0} /\ e \in Nat \ {0}
    BY <1>3 DEF d, e
  <2>2. x \div (d * e) = (x \div d) \div e
    BY <2>1, DivisionTwice, Zenon
  <2> QED
    BY <1>5, <2>2 DEF d, e
<1> HIDE DEF y, z
<1>7. LittleEndian(y, WordBytes + k * WordBytes) =
         LittleEndian(y, WordBytes) \o LittleEndian(z, k * WordBytes)
  BY <1>1, <1>4, <1>6, LittleEndianSplit
<1> QED
  BY <1>2, <1>7 DEF y, z

\* Four uint64, the lowest first, are the bytes of the number that they make.
LEMMA AmountBytes ==
    ASSUME NEW to \in Seq(Nat), NEW x \in Nat
    PROVE  AppendUint256(to, x) = to \o LittleEndian(x, 4 * WordBytes)
<1> DEFINE part(i) == LittleEndian(x \div Power[i * WordBytes], WordBytes)
           a == part(0)
           b == part(1)
           c == part(2)
           d == part(3)
<1>1. WordBytes \in Nat /\ 0 * WordBytes = 0 /\ 1 * WordBytes = WordBytes
  BY BaseFacts
<1>2. a \in Seq(Nat) /\ b \in Seq(Nat) /\ c \in Seq(Nat) /\ d \in Seq(Nat)
  <2>1. ASSUME NEW i \in 0 .. 3
        PROVE  part(i) \in Seq(Nat)
    BY <1>1, LimbBytes, LittleEndianType
  <2> QED
    BY <2>1
<1>3. AppendUint256(to, x) = (((to \o a) \o b) \o c) \o d
  <2>1. ASSUME NEW i \in 0 .. 3
        PROVE  LittleEndian(Limb(x, i), WordBytes) = part(i)
    BY LimbBytes
  <2> HIDE DEF part
  <2> QED
    BY <2>1 DEF AppendUint256, AppendUint64
<1>4. x \div Power[0] = x
  BY PowerSteps
<1>5. LittleEndian(x, 4 * WordBytes) = a \o (b \o (c \o d))
  <2> DEFINE rest(i, k) == LittleEndian(x \div Power[i * WordBytes], k * WordBytes)
  <2>1. ASSUME NEW i \in 0 .. 2, NEW k \in 1 .. 3
        PROVE  rest(i, k + 1) = part(i) \o rest(i + 1, k)
    BY NextLimb
  <2>2. rest(3, 1) = part(3)
    BY <1>1
  <2>3. LittleEndian(x, 4 * WordBytes) = rest(0, 4)
    BY <1>1, <1>4
  <2> HIDE DEF part, rest
  <2>4. rest(0, 4) = part(0) \o rest(1, 3)
    BY <2>1
  <2>5. rest(1, 3) = part(1) \o rest(2, 2)
    BY <2>1
  <2>6. rest(2, 2) = part(2) \o rest(3, 1)
    BY <2>1
  <2> QED
    BY <2>2, <2>3, <2>4, <2>5, <2>6
<1> HIDE DEF part, a, b, c, d
<1> DEFINE p == to \o a
           q == p \o b
           r == c \o d
           t == b \o r
<1>6. p \in Seq(Nat) /\ r \in Seq(Nat)
  BY <1>2
<1>7. q \in Seq(Nat) /\ t \in Seq(Nat)
  <2> HIDE DEF p, r
  <2> QED
    BY <1>2, <1>6
<1> HIDE DEF p, q, r, t
<1>8. (q \o c) \o d = q \o (c \o d)
  BY <1>2, <1>7, SMTT(30)
<1>9. (p \o b) \o r = p \o (b \o r)
  BY <1>2, <1>6, SMTT(30)
<1>10. (to \o a) \o t = to \o (a \o t)
  BY <1>2, <1>7, SMTT(30)
<1>11. (q \o c) \o d = to \o (a \o t)
  BY <1>8, <1>9, <1>10 DEF p, q, r, t
<1> QED
  BY <1>3, <1>5, <1>11 DEF p, q, r, t

-----------------------------------------------------------------------------
(* Reservation requests.                                                   *)

\* The fields of a reservation are numbers.
LEMMA ReserveRequestFacts ==
    ASSUME NEW r \in ReserveRequest
    PROVE  /\ r.target_slot \in Nat /\ r.gas_limit \in Nat /\ r.blob_count \in Nat
           /\ r.deposit \in Nat /\ r.tip \in Nat
<1>1. Power[WordBytes] \in Nat /\ Power[4 * WordBytes] \in Nat
  BY PowerSteps, BaseFacts
<1>2. \A p \in Nat : \A x \in 0 .. p - 1 : x \in Nat
  OBVIOUS
<1>3. (\A x \in Uint64Values : x \in Nat) /\ (\A x \in Uint256Values : x \in Nat)
  BY <1>1, <1>2 DEF Uint64Values, Uint256Values
<1> QED
  BY <1>3 DEF ReserveRequest

\* What is signed for a reservation is the gateway's bytes, whatever the amounts.
LEMMA ReserveBytesFound ==
    ASSUME NEW r \in ReserveRequest
    PROVE  ReserveBytes(r) = GatewayReserveBytes(r)
<1> DEFINE a == LittleEndian(r.target_slot, WordBytes)
           b == LittleEndian(r.gas_limit, WordBytes)
           c == LittleEndian(r.deposit, 4 * WordBytes)
           d == LittleEndian(r.tip, 4 * WordBytes)
           e == LittleEndian(r.blob_count, WordBytes)
<1>1. WordBytes \in Nat /\ 4 * WordBytes \in Nat
  BY BaseFacts
<1>2. a \in Seq(Nat) /\ b \in Seq(Nat) /\ c \in Seq(Nat)
  BY <1>1, ReserveRequestFacts, LittleEndianType
<1>3. << >> \o a = a
  <2> HIDE DEF a
  <2> QED
    BY <1>2
<1>4. a \o b \in Seq(Nat) /\ (a \o b) \o c \in Seq(Nat)
  <2> HIDE DEF a, b, c
  <2> QED
    BY <1>2
<1>5. AppendUint256(a \o b, r.deposit) = (a \o b) \o c
  BY <1>4, ReserveRequestFacts, AmountBytes
<1>6. AppendUint256((a \o b) \o c, r.tip) = ((a \o b) \o c) \o d
  BY <1>4, ReserveRequestFacts, AmountBytes
<1>7. ReserveBytes(r) =
         AppendUint256(AppendUint256((<< >> \o a) \o b, r.deposit), r.tip) \o e
  BY DEF ReserveBytes, AppendUint64
<1>8. GatewayReserveBytes(r) = (((a \o b) \o c) \o d) \o e
  BY DEF GatewayReserveBytes
<1> HIDE DEF a, b, c, d, e
<1> QED
  BY <1>3, <1>5, <1>6, <1>7, <1>8

\* The bytes of the numbers of a request, and how many there are.
LEMMA ReserveBytesLength ==
    ASSUME NEW r \in ReserveRequest
    PROVE  GatewayReserveBytes(r) \in Seq(Nat) /\ Len(GatewayReserveBytes(r)) = 11 * WordBytes
<1> DEFINE a == LittleEndian(r.target_slot, WordBytes)
           b == LittleEndian(r.gas_limit, WordBytes)
           c == LittleEndian(r.deposit, 4 * WordBytes)
           d == LittleEndian(r.tip, 4 * WordBytes)
           e == LittleEndian(r.blob_count, WordBytes)
<1>1. WordBytes \in Nat /\ 4 * WordBytes \in Nat
  BY BaseFacts
<1>2. /\ a \in Seq(Nat) /\ b \in Seq(Nat) /\ c \in Seq(Nat) /\ d \in Seq(Nat) /\ e \in Seq(Nat)
      /\ Len(a) = WordBytes /\ Len(b) = WordBytes /\ Len(c) = 4 * WordBytes
      /\ Len(d) = 4 * WordBytes /\ Len(e) = WordBytes
  BY <1>1, ReserveRequestFacts, LittleEndianType
<1>3. GatewayReserveBytes(r) = (((a \o b) \o c) \o d) \o e
  BY DEF GatewayReserveBytes
<1> HIDE DEF a, b, c, d, e
<1> DEFINE f == a \o b
           g == f \o c
           h == g \o d
           k == h \o e
<1>4. f \in Seq(Nat) /\ Len(f) = Len(a) + Len(b)
  BY <1>2, Joined
<1> HIDE DEF f
<1>5. g \in Seq(Nat) /\ Len(g) = Len(f) + Len(c)
  BY <1>2, <1>4, Joined
<1> HIDE DEF g
<1>6. h \in Seq(Nat) /\ Len(h) = Len(g) + Len(d)
  BY <1>2, <1>5, Joined
<1> HIDE DEF h
<1>7. k \in Seq(Nat) /\ Len(k) = Len(h) + Len(e)
  BY <1>2, <1>6, Joined
<1> HIDE DEF k
<1>8. Len(k) = 11 * WordBytes
  BY <1>1, <1>2, <1>4, <1>5, <1>6, <1>7
<1> QED
  BY <1>3, <1>7, <1>8 DEF f, g, h, k

-----------------------------------------------------------------------------
(* Submitted transactions.                                                 *)

\* An id and a hash are sequences of their lengths.
LEMMA SubmitFacts ==
    ASSUME NEW s \in SubmitTxRequest
    PROVE  /\ s.request_id \in Seq(Nat) /\ Len(s.request_id) = 16
           /\ s.tx_hash \in Seq(Nat) /\ Len(s.tx_hash) = 32
<1>1. s.request_id \in [1 .. 16 -> Nat] /\ s.tx_hash \in [1 .. 32 -> Nat]
  BY DEF SubmitTxRequest, UuidBytes, HashBytes
<1> DEFINE id == s.request_id
           hash == s.tx_hash
<1> HIDE DEF id, hash
<1>2. id \in [1 .. 16 -> Nat] /\ hash \in [1 .. 32 -> Nat] /\ 16 \in Nat /\ 32 \in Nat
  BY <1>1 DEF id, hash
<1>3. id \in Seq(Nat) /\ Len(id) = 16
  BY <1>2, FunctionIsSeq
<1>4. hash \in Seq(Nat) /\ Len(hash) = 32
  BY <1>2, FunctionIsSeq
<1> QED
  BY <1>3, <1>4 DEF id, hash

\* A field of an id, turned around.
LEMMA FieldReversed ==
    ASSUME NEW s \in Seq(Nat), NEW m \in 1 .. Len(s), NEW n \in m .. Len(s)
    PROVE  /\ Reverse(SubSeq(s, m, n)) \in Seq(Nat)
           /\ Len(Reverse(SubSeq(s, m, n))) = n - m + 1
           /\ \A i \in 1 .. n - m + 1 : Reverse(SubSeq(s, m, n))[i] = s[n - i + 1]
<1> DEFINE t == SubSeq(s, m, n)
           k == n - m + 1
           u == Reverse(t)
<1>1. Len(s) \in Nat /\ m \in Int /\ n \in Int /\ m <= n /\ k \in Nat
  BY LenProperties
<1>2. \A i \in m .. n : s[i] \in Nat
  BY <1>1, ElementOfSeq
<1>3. t \in Seq(Nat) /\ Len(t) = k /\ \A i \in 1 .. k : t[i] = s[m + i - 1]
  BY <1>1, <1>2, SubSeqProperties
<1>4. u = [i \in 1 .. Len(t) |-> t[(Len(t) - i) + 1]]
  BY DEF Reverse
<1> HIDE DEF t, u
<1>5. u = [i \in 1 .. k |-> t[(k - i) + 1]]
  BY <1>3, <1>4
<1>6. ASSUME NEW i \in 1 .. k
      PROVE  t[(k - i) + 1] = s[n - i + 1] /\ t[(k - i) + 1] \in Nat
  <2>1. (k - i) + 1 \in 1 .. k /\ m + ((k - i) + 1) - 1 = n - i + 1
    BY <1>1
  <2> HIDE DEF k
  <2>2. t[(k - i) + 1] = s[m + ((k - i) + 1) - 1] /\ t[(k - i) + 1] \in Nat
    BY <1>3, <2>1, ElementOfSeq
  <2> QED
    BY <2>1, <2>2
<1> HIDE DEF k
<1>7. u \in [1 .. k -> Nat]
  BY <1>5, <1>6
<1>8. u \in Seq(Nat) /\ Len(u) = k
  BY <1>1, <1>7
<1>9. \A i \in 1 .. k : u[i] = s[n - i + 1]
  BY <1>5, <1>6
<1> QED
  BY <1>8, <1>9 DEF t, u, k

\* The parts of the digest of a transaction.
First(id) == <<id[4], id[3], id[2], id[1]>>
Second(id) == <<id[6], id[5]>>
Third(id) == <<id[8], id[7]>>

\* The four parts of an id, and how long they are.
LEMMA Fields ==
    ASSUME NEW id \in Seq(Nat), Len(id) = 16
    PROVE  /\ First(id) \in Seq(Nat) /\ Len(First(id)) = 4
           /\ Second(id) \in Seq(Nat) /\ Len(Second(id)) = 2
           /\ Third(id) \in Seq(Nat) /\ Len(Third(id)) = 2
           /\ SubSeq(id, 9, 16) \in Seq(Nat) /\ Len(SubSeq(id, 9, 16)) = 8
           /\ \A i \in 1 .. 8 : SubSeq(id, 9, 16)[i] = id[i + 8]
<1>1. \A i \in 1 .. 16 : id[i] \in Nat
  BY ElementOfSeq
<1>2. First(id) \in Seq(Nat) /\ Len(First(id)) = 4
  BY <1>1 DEF First
<1>3. Second(id) \in Seq(Nat) /\ Len(Second(id)) = 2 /\ Third(id) \in Seq(Nat) /\ Len(Third(id)) = 2
  BY <1>1 DEF Second, Third
<1>4. /\ SubSeq(id, 9, 16) \in Seq(Nat) /\ Len(SubSeq(id, 9, 16)) = 8
      /\ \A i \in 1 .. 8 : SubSeq(id, 9, 16)[i] = id[9 + i - 1]
  <2>1. ASSUME NEW i \in 9 .. 16
        PROVE  id[i] \in Nat
    <3>1. i \in 1 .. 16
      OBVIOUS
    <3> QED
      BY <1>1, <3>1
  <2> DEFINE t == SubSeq(id, 9, 16)
  <2>2. t = [i \in 1 .. 8 |-> id[9 + i - 1]]
    BY SMTT(30)
  <2> HIDE DEF t
  <2>3. t \in [1 .. 8 -> Nat] /\ 8 \in Nat
    BY <2>1, <2>2
  <2>4. \A n \in Nat : \A f \in [1 .. n -> Nat] : f \in Seq(Nat) /\ Len(f) = n
    BY FunctionIsSeq
  <2>5. t \in Seq(Nat) /\ Len(t) = 8
    BY <2>3, <2>4, Zenon
  <2> QED
    BY <2>2, <2>5 DEF t
<1>5. \A i \in 1 .. 8 : 9 + i - 1 = i + 8
  OBVIOUS
<1> QED
  BY <1>2, <1>3, <1>4, <1>5

\* Three numbers, high byte first, written down low byte first.
LEMMA FieldsReversed ==
    ASSUME NEW id \in Seq(Nat), Len(id) = 16
    PROVE  /\ Reverse(SubSeq(id, 1, 4)) = First(id)
           /\ Reverse(SubSeq(id, 5, 6)) = Second(id)
           /\ Reverse(SubSeq(id, 7, 8)) = Third(id)
<1> DEFINE r(m, n) == Reverse(SubSeq(id, m, n))
<1>1. ASSUME NEW m \in 1 .. 16, NEW n \in m .. 16
      PROVE  /\ r(m, n) \in Seq(Nat) /\ Len(r(m, n)) = n - m + 1
             /\ \A i \in 1 .. n - m + 1 : r(m, n)[i] = id[n - i + 1]
  <2>1. m \in 1 .. Len(id) /\ n \in m .. Len(id)
    OBVIOUS
  <2> QED
    BY <2>1, FieldReversed
<1> HIDE DEF r
<1>2. r(1, 4) = First(id)
  <2>1. 1 \in 1 .. 16 /\ 4 \in 1 .. 16 /\ 4 - 1 + 1 = 4
    OBVIOUS
  <2>2. r(1, 4) \in Seq(Nat) /\ Len(r(1, 4)) = 4 /\ \A i \in 1 .. 4 : r(1, 4)[i] = id[4 - i + 1]
    BY <1>1, <2>1
  <2> DEFINE f == r(1, 4)
  <2> HIDE DEF f
  <2>3. f \in Seq(Nat) /\ Len(f) = 4 /\ \A i \in 1 .. 4 : f[i] = id[4 - i + 1]
    BY <2>2 DEF f
  <2>4. f[1] = id[4] /\ f[2] = id[3] /\ f[3] = id[2] /\ f[4] = id[1]
    BY <2>3
  <2>5. First(id)[1] = id[4] /\ First(id)[2] = id[3] /\ First(id)[3] = id[2] /\ First(id)[4] = id[1]
    BY DEF First
  <2> DEFINE g == First(id)
  <2> HIDE DEF g
  <2>6. g \in Seq(Nat) /\ Len(g) = 4
    BY Fields DEF g
  <2>7. \A i \in 1 .. 4 : i = 1 \/ i = 2 \/ i = 3 \/ i = 4
    OBVIOUS
  <2>8. \A i \in 1 .. 4 : f[i] = g[i]
    BY <2>4, <2>5, <2>7 DEF g
  <2>9. f = g
    BY <2>3, <2>6, <2>8, SeqEqual
  <2> QED
    BY <2>9 DEF f, g
<1>3. r(5, 6) = Second(id)
  <2>1. 5 \in 1 .. 16 /\ 6 \in 5 .. 16 /\ 6 - 5 + 1 = 2
    OBVIOUS
  <2>2. r(5, 6) \in Seq(Nat) /\ Len(r(5, 6)) = 2 /\ \A i \in 1 .. 2 : r(5, 6)[i] = id[6 - i + 1]
    BY <1>1, <2>1
  <2> DEFINE f == r(5, 6)
  <2> HIDE DEF f
  <2>3. f \in Seq(Nat) /\ Len(f) = 2 /\ \A i \in 1 .. 2 : f[i] = id[6 - i + 1]
    BY <2>2 DEF f
  <2>4. f[1] = id[6] /\ f[2] = id[5]
    BY <2>3
  <2>5. Second(id)[1] = id[6] /\ Second(id)[2] = id[5]
    BY DEF Second
  <2> DEFINE g == Second(id)
  <2> HIDE DEF g
  <2>6. g \in Seq(Nat) /\ Len(g) = 2
    BY Fields DEF g
  <2>7. \A i \in 1 .. 2 : i = 1 \/ i = 2
    OBVIOUS
  <2>8. \A i \in 1 .. 2 : f[i] = g[i]
    BY <2>4, <2>5, <2>7 DEF g
  <2>9. f = g
    BY <2>3, <2>6, <2>8, SeqEqual
  <2> QED
    BY <2>9 DEF f, g
<1>4. r(7, 8) = Third(id)
  <2>1. 7 \in 1 .. 16 /\ 8 \in 7 .. 16 /\ 8 - 7 + 1 = 2
    OBVIOUS
  <2>2. r(7, 8) \in Seq(Nat) /\ Len(r(7, 8)) = 2 /\ \A i \in 1 .. 2 : r(7, 8)[i] = id[8 - i + 1]
    BY <1>1, <2>1
  <2> DEFINE f == r(7, 8)
  <2> HIDE DEF f
  <2>3. f \in Seq(Nat) /\ Len(f) = 2 /\ \A i \in 1 .. 2 : f[i] = id[8 - i + 1]
    BY <2>2 DEF f
  <2>4. f[1] = id[8] /\ f[2] = id[7]
    BY <2>3
  <2>5. Third(id)[1] = id[8] /\ Third(id)[2] = id[7]
    BY DEF Third
  <2> DEFINE g == Third(id)
  <2> HIDE DEF g
  <2>6. g \in Seq(Nat) /\ Len(g) = 2
    BY Fields DEF g
  <2>7. \A i \in 1 .. 2 : i = 1 \/ i = 2
    OBVIOUS
  <2>8. \A i \in 1 .. 2 : f[i] = g[i]
    BY <2>4, <2>5, <2>7 DEF g
  <2>9. f = g
    BY <2>3, <2>6, <2>8, SeqEqual
  <2> QED
    BY <2>9 DEF f, g
<1> QED
  BY <1>2, <1>3, <1>4 DEF r

\* The bytes signed for a transaction, part by part.
SubmitParts(s) ==
    (((First(s.request_id) \o Second(s.request_id)) \o Third(s.request_id))
        \o SubSeq(s.request_id, 9, 16)) \o s.tx_hash

\* What is signed for a transaction is the gateway's bytes, whatever the id.
LEMMA SubmitBytesFound ==
    ASSUME NEW s \in SubmitTxRequest
    PROVE  SubmitBytes(s) = SubmitParts(s) /\ GatewaySubmitBytes(s) = SubmitParts(s)
<1> DEFINE id == s.request_id
<1>1. id \in Seq(Nat) /\ Len(id) = 16
  BY SubmitFacts
<1>2. << >> \o First(id) = First(id)
  <2> DEFINE f == First(id)
  <2> HIDE DEF f
  <2>1. f \in Seq(Nat)
    BY <1>1, Fields DEF f
  <2>2. << >> \o f = f
    BY <2>1
  <2> QED
    BY <2>2 DEF f
<1>3. SubmitBytes(s) =
         (((((<< >> \o First(id)) \o Second(id)) \o Third(id))) \o SubSeq(id, 9, 16)) \o s.tx_hash
  BY DEF SubmitBytes, AppendUuidToLe, First, Second, Third, UuidBytes
<1>4. GatewaySubmitBytes(s) =
         (((Reverse(SubSeq(id, 1, 4)) \o Reverse(SubSeq(id, 5, 6))) \o Reverse(SubSeq(id, 7, 8)))
            \o SubSeq(id, 9, 16)) \o s.tx_hash
  BY DEF GatewaySubmitBytes, UuidBytes
<1>5. /\ Reverse(SubSeq(id, 1, 4)) = First(id)
      /\ Reverse(SubSeq(id, 5, 6)) = Second(id)
      /\ Reverse(SubSeq(id, 7, 8)) = Third(id)
  BY <1>1, FieldsReversed
<1> QED
  BY <1>2, <1>3, <1>4, <1>5 DEF SubmitParts

-----------------------------------------------------------------------------
(* Different requests have different bytes.                                *)

\* The bytes of a reservation tell every field of it.
LEMMA ReserveInjective ==
    ASSUME NEW r \in ReserveRequest, NEW s \in ReserveRequest,
           GatewayReserveBytes(r) = GatewayReserveBytes(s)
    PROVE  r = s
<1> DEFINE a(x) == LittleEndian(x.target_slot, WordBytes)
           b(x) == LittleEndian(x.gas_limit, WordBytes)
           c(x) == LittleEndian(x.deposit, 4 * WordBytes)
           d(x) == LittleEndian(x.tip, 4 * WordBytes)
           e(x) == LittleEndian(x.blob_count, WordBytes)
           f(x) == a(x) \o b(x)
           g(x) == f(x) \o c(x)
           h(x) == g(x) \o d(x)
<1>1. WordBytes \in Nat /\ 4 * WordBytes \in Nat
  BY BaseFacts
<1>2. ASSUME NEW x \in ReserveRequest
      PROVE  /\ a(x) \in Seq(Nat) /\ b(x) \in Seq(Nat) /\ c(x) \in Seq(Nat)
             /\ d(x) \in Seq(Nat) /\ e(x) \in Seq(Nat)
             /\ Len(a(x)) = WordBytes /\ Len(b(x)) = WordBytes /\ Len(c(x)) = 4 * WordBytes
             /\ Len(d(x)) = 4 * WordBytes /\ Len(e(x)) = WordBytes
  BY <1>1, ReserveRequestFacts, LittleEndianType
<1>3. h(r) \o e(r) = h(s) \o e(s)
  BY DEF GatewayReserveBytes
<1> HIDE DEF a, b, c, d, e, f, g, h
<1>4. ASSUME NEW x \in ReserveRequest
      PROVE  f(x) \in Seq(Nat) /\ Len(f(x)) = Len(a(x)) + Len(b(x))
  BY <1>2, Joined DEF f
<1>5. ASSUME NEW x \in ReserveRequest
      PROVE  g(x) \in Seq(Nat) /\ Len(g(x)) = Len(f(x)) + Len(c(x))
  BY <1>2, <1>4, Joined DEF g
<1>6. ASSUME NEW x \in ReserveRequest
      PROVE  h(x) \in Seq(Nat) /\ Len(h(x)) = Len(g(x)) + Len(d(x))
  BY <1>2, <1>5, Joined DEF h
<1>7. Len(f(r)) = Len(f(s)) /\ Len(g(r)) = Len(g(s)) /\ Len(h(r)) = Len(h(s))
  <2>1. Len(a(r)) = Len(a(s)) /\ Len(b(r)) = Len(b(s)) /\ Len(c(r)) = Len(c(s)) /\ Len(d(r)) = Len(d(s))
    BY <1>2
  <2>2. Len(f(r)) = Len(f(s))
    BY <1>4, <2>1
  <2>3. Len(g(r)) = Len(g(s))
    BY <1>5, <2>1, <2>2
  <2>4. Len(h(r)) = Len(h(s))
    BY <1>6, <2>1, <2>3
  <2> QED
    BY <2>2, <2>3, <2>4
<1>8. h(r) = h(s) /\ e(r) = e(s)
  <2>1. /\ h(r) \in Seq(Nat) /\ e(r) \in Seq(Nat) /\ h(s) \in Seq(Nat) /\ e(s) \in Seq(Nat)
        /\ Len(h(r)) = Len(h(s))
    BY <1>2, <1>6, <1>7
  <2> QED
    BY <1>3, <2>1, ConcatEqual
<1>9. g(r) = g(s) /\ d(r) = d(s)
  <2>1. /\ g(r) \in Seq(Nat) /\ d(r) \in Seq(Nat) /\ g(s) \in Seq(Nat) /\ d(s) \in Seq(Nat)
        /\ Len(g(r)) = Len(g(s))
    BY <1>2, <1>5, <1>7
  <2>2. g(r) \o d(r) = g(s) \o d(s)
    BY <1>8 DEF h
  <2> QED
    BY <2>1, <2>2, ConcatEqual
<1>10. f(r) = f(s) /\ c(r) = c(s)
  <2>1. /\ f(r) \in Seq(Nat) /\ c(r) \in Seq(Nat) /\ f(s) \in Seq(Nat) /\ c(s) \in Seq(Nat)
        /\ Len(f(r)) = Len(f(s))
    BY <1>2, <1>4, <1>7
  <2>2. f(r) \o c(r) = f(s) \o c(s)
    BY <1>9 DEF g
  <2> QED
    BY <2>1, <2>2, ConcatEqual
<1>11. a(r) = a(s) /\ b(r) = b(s)
  <2>1. /\ a(r) \in Seq(Nat) /\ b(r) \in Seq(Nat) /\ a(s) \in Seq(Nat) /\ b(s) \in Seq(Nat)
        /\ Len(a(r)) = Len(a(s))
    BY <1>2
  <2>2. a(r) \o b(r) = a(s) \o b(s)
    BY <1>10 DEF f
  <2> QED
    BY <2>1, <2>2, ConcatEqual
<1>12. ASSUME NEW x \in ReserveRequest
       PROVE  /\ x.target_slot \in 0 .. Power[WordBytes] - 1
              /\ x.gas_limit \in 0 .. Power[WordBytes] - 1
              /\ x.deposit \in 0 .. Power[4 * WordBytes] - 1
              /\ x.tip \in 0 .. Power[4 * WordBytes] - 1
              /\ x.blob_count \in 0 .. Power[WordBytes] - 1
  BY DEF ReserveRequest, Uint64Values, Uint256Values
<1>13. r.target_slot = s.target_slot
  BY <1>1, <1>11, <1>12, LittleEndianInjective DEF a
<1>14. r.gas_limit = s.gas_limit
  BY <1>1, <1>11, <1>12, LittleEndianInjective DEF b
<1>15. r.deposit = s.deposit
  BY <1>1, <1>10, <1>12, LittleEndianInjective DEF c
<1>16. r.tip = s.tip
  BY <1>1, <1>9, <1>12, LittleEndianInjective DEF d
<1>17. r.blob_count = s.blob_count
  BY <1>1, <1>8, <1>12, LittleEndianInjective DEF e
<1>18. ASSUME NEW x \in ReserveRequest
       PROVE  x = [target_slot |-> x.target_slot, gas_limit |-> x.gas_limit,
                   deposit |-> x.deposit, tip |-> x.tip, blob_count |-> x.blob_count]
  BY DEF ReserveRequest
<1> QED
  BY <1>13, <1>14, <1>15, <1>16, <1>17, <1>18

\* Turned around or not, an id keeps each of its bytes.
LEMMA IdInjective ==
    ASSUME NEW u \in Seq(Nat), NEW v \in Seq(Nat), Len(u) = 16, Len(v) = 16,
           First(u) = First(v), Second(u) = Second(v), Third(u) = Third(v),
           SubSeq(u, 9, 16) = SubSeq(v, 9, 16)
    PROVE  u = v
<1>1. u[1] = v[1] /\ u[2] = v[2] /\ u[3] = v[3] /\ u[4] = v[4]
  BY DEF First
<1>2. u[5] = v[5] /\ u[6] = v[6] /\ u[7] = v[7] /\ u[8] = v[8]
  BY DEF Second, Third
<1>3. ASSUME NEW i \in 9 .. 16
      PROVE  u[i] = v[i]
  <2>1. i - 8 \in 1 .. 8 /\ (i - 8) + 8 = i
    OBVIOUS
  <2>2. SubSeq(u, 9, 16)[i - 8] = u[(i - 8) + 8] /\ SubSeq(v, 9, 16)[i - 8] = v[(i - 8) + 8]
    BY <2>1, Fields
  <2> QED
    BY <2>1, <2>2
<1>4. ASSUME NEW i \in 1 .. 16
      PROVE  u[i] = v[i]
  <2>1. \/ i = 1 \/ i = 2 \/ i = 3 \/ i = 4 \/ i = 5 \/ i = 6 \/ i = 7 \/ i = 8 \/ i \in 9 .. 16
    OBVIOUS
  <2> QED
    BY <1>1, <1>2, <1>3, <2>1
<1> QED
  BY <1>4, SeqEqual

\* The bytes of a transaction tell its id and its hash.
LEMMA SubmitInjective ==
    ASSUME NEW r \in SubmitTxRequest, NEW s \in SubmitTxRequest,
           SubmitParts(r) = SubmitParts(s)
    PROVE  r = s
<1> DEFINE a(x) == First(x.request_id)
           b(x) == Second(x.request_id)
           c(x) == Third(x.request_id)
           d(x) == SubSeq(x.request_id, 9, 16)
           e(x) == x.tx_hash
           f(x) == a(x) \o b(x)
           g(x) == f(x) \o c(x)
           h(x) == g(x) \o d(x)
<1>2. ASSUME NEW x \in SubmitTxRequest
      PROVE  /\ a(x) \in Seq(Nat) /\ b(x) \in Seq(Nat) /\ c(x) \in Seq(Nat)
             /\ d(x) \in Seq(Nat) /\ e(x) \in Seq(Nat)
             /\ Len(a(x)) = 4 /\ Len(b(x)) = 2 /\ Len(c(x)) = 2 /\ Len(d(x)) = 8 /\ Len(e(x)) = 32
  BY SubmitFacts, Fields
<1>3. h(r) \o e(r) = h(s) \o e(s)
  BY DEF SubmitParts
<1> HIDE DEF a, b, c, d, e, f, g, h
<1>4. ASSUME NEW x \in SubmitTxRequest
      PROVE  f(x) \in Seq(Nat) /\ Len(f(x)) = Len(a(x)) + Len(b(x))
  BY <1>2, Joined DEF f
<1>5. ASSUME NEW x \in SubmitTxRequest
      PROVE  g(x) \in Seq(Nat) /\ Len(g(x)) = Len(f(x)) + Len(c(x))
  BY <1>2, <1>4, Joined DEF g
<1>6. ASSUME NEW x \in SubmitTxRequest
      PROVE  h(x) \in Seq(Nat) /\ Len(h(x)) = Len(g(x)) + Len(d(x))
  BY <1>2, <1>5, Joined DEF h
<1>7. Len(f(r)) = Len(f(s)) /\ Len(g(r)) = Len(g(s)) /\ Len(h(r)) = Len(h(s))
  <2>1. Len(a(r)) = Len(a(s)) /\ Len(b(r)) = Len(b(s)) /\ Len(c(r)) = Len(c(s)) /\ Len(d(r)) = Len(d(s))
    BY <1>2
  <2>2. Len(f(r)) = Len(f(s))
    BY <1>4, <2>1
  <2>3. Len(g(r)) = Len(g(s))
    BY <1>5, <2>1, <2>2
  <2>4. Len(h(r)) = Len(h(s))
    BY <1>6, <2>1, <2>3
  <2> QED
    BY <2>2, <2>3, <2>4
<1>8. h(r) = h(s) /\ e(r) = e(s)
  <2>1. /\ h(r) \in Seq(Nat) /\ e(r) \in Seq(Nat) /\ h(s) \in Seq(Nat) /\ e(s) \in Seq(Nat)
        /\ Len(h(r)) = Len(h(s))
    BY <1>2, <1>6, <1>7
  <2> QED
    BY <1>3, <2>1, ConcatEqual
<1>9. g(r) = g(s) /\ d(r) = d(s)
  <2>1. /\ g(r) \in Seq(Nat) /\ d(r) \in Seq(Nat) /\ g(s) \in Seq(Nat) /\ d(s) \in Seq(Nat)
        /\ Len(g(r)) = Len(g(s))
    BY <1>2, <1>5, <1>7
  <2>2. g(r) \o d(r) = g(s) \o d(s)
    BY <1>8 DEF h
  <2> QED
    BY <2>1, <2>2, ConcatEqual
<1>10. f(r) = f(s) /\ c(r) = c(s)
  <2>1. /\ f(r) \in Seq(Nat) /\ c(r) \in Seq(Nat) /\ f(s) \in Seq(Nat) /\ c(s) \in Seq(Nat)
        /\ Len(f(r)) = Len(f(s))
    BY <1>2, <1>4, <1>7
  <2>2. f(r) \o c(r) = f(s) \o c(s)
    BY <1>9 DEF g
  <2> QED
    BY <2>1, <2>2, ConcatEqual
<1>11. a(r) = a(s) /\ b(r) = b(s)
  <2>1. /\ a(r) \in Seq(Nat) /\ b(r) \in Seq(Nat) /\ a(s) \in Seq(Nat) /\ b(s) \in Seq(Nat)
        /\ Len(a(r)) = Len(a(s))
    BY <1>2
  <2>2. a(r) \o b(r) = a(s) \o b(s)
    BY <1>10 DEF f
  <2> QED
    BY <2>1, <2>2, ConcatEqual
<1>12. r.request_id = s.request_id
  BY <1>8, <1>9, <1>10, <1>11, SubmitFacts, IdInjective DEF a, b, c, d
<1>13. r.tx_hash = s.tx_hash
  BY <1>8 DEF e
<1>14. ASSUME NEW x \in SubmitTxRequest
       PROVE  x = [request_id |-> x.request_id, tx_hash |-> x.tx_hash]
  BY DEF SubmitTxRequest
<1> QED
  BY <1>12, <1>13, <1>14

\* Bytes of a reservation and bytes of a transaction are never as many.
LEMMA KindsDiffer ==
    ASSUME NEW r \in ReserveRequest, NEW s \in SubmitTxRequest
    PROVE  GatewayReserveBytes(r) # SubmitParts(s)
<1> DEFINE id == s.request_id
           a == First(id)
           b == Second(id)
           c == Third(id)
           d == SubSeq(id, 9, 16)
           e == s.tx_hash
           f == a \o b
           g == f \o c
           h == g \o d
           k == h \o e
<1>1. /\ a \in Seq(Nat) /\ b \in Seq(Nat) /\ c \in Seq(Nat) /\ d \in Seq(Nat) /\ e \in Seq(Nat)
      /\ Len(a) = 4 /\ Len(b) = 2 /\ Len(c) = 2 /\ Len(d) = 8 /\ Len(e) = 32
  BY SubmitFacts, Fields
<1>2. SubmitParts(s) = k
  BY DEF SubmitParts
<1> HIDE DEF a, b, c, d, e
<1>3. f \in Seq(Nat) /\ Len(f) = Len(a) + Len(b)
  BY <1>1, Joined
<1> HIDE DEF f
<1>4. g \in Seq(Nat) /\ Len(g) = Len(f) + Len(c)
  BY <1>1, <1>3, Joined
<1> HIDE DEF g
<1>5. h \in Seq(Nat) /\ Len(h) = Len(g) + Len(d)
  BY <1>1, <1>4, Joined
<1> HIDE DEF h
<1>6. k \in Seq(Nat) /\ Len(k) = Len(h) + Len(e)
  BY <1>1, <1>5, Joined
<1> HIDE DEF k
<1>7. Len(GatewayReserveBytes(r)) = 11 * WordBytes /\ WordBytes \in Nat
  BY ReserveBytesLength, BaseFacts
<1>8. Len(k) = 48
  BY <1>1, <1>3, <1>4, <1>5, <1>6
<1>9. 11 * WordBytes # 48
  BY <1>7
<1> QED
  BY <1>2, <1>7, <1>8, <1>9

-----------------------------------------------------------------------------
(* The client.                                                             *)

Requests == Reservations \cup Submissions

\* The bytes that belong to a request.
IsSigned(r, bytes) ==
    \/ r = NoRequest
    \/ r \in Reservations /\ bytes = ReserveBytes(r)
    \/ r \in Submissions /\ bytes = SubmitBytes(r)

\* Both memories hold a request with its own bytes.
IInv ==
    /\ IsSigned(request, digest)
    /\ IsSigned(earlier.request, earlier.digest)
    /\ earlier.request # NoRequest => request # NoRequest

\* A request is of one kind.
LEMMA KindsOfRequests ==
    ASSUME NEW r
    PROVE  /\ r \in Reservations => r \in ReserveRequest /\ r # NoRequest
           /\ r \in Submissions => r \in SubmitTxRequest /\ r # NoRequest
           /\ ~ (r \in Reservations /\ r \in Submissions)
<1>1. r \in Reservations => r \in ReserveRequest /\ r # NoRequest
  BY ReservationsAssumption, NoRequestAssumption
<1>2. r \in Submissions => r \in SubmitTxRequest /\ r # NoRequest
  BY SubmissionsAssumption, NoRequestAssumption
<1>3. ASSUME r \in ReserveRequest, r \in SubmitTxRequest
      PROVE  FALSE
  <2>1. DOMAIN r = {"target_slot", "gas_limit", "deposit", "tip", "blob_count"}
    BY <1>3 DEF ReserveRequest
  <2>2. DOMAIN r = {"request_id", "tx_hash"}
    BY <1>3 DEF SubmitTxRequest
  <2> QED
    BY <2>1, <2>2
<1> QED
  BY <1>1, <1>2, <1>3

\* Bytes signed for two requests are those of one request.
LEMMA SignedOnce ==
    ASSUME NEW r \in Requests, NEW s \in Requests, NEW bytes,
           IsSigned(r, bytes), IsSigned(s, bytes)
    PROVE  r = s
<1>1. CASE r \in Reservations /\ s \in Reservations
  <2>1. bytes = GatewayReserveBytes(r) /\ bytes = GatewayReserveBytes(s)
    BY <1>1, KindsOfRequests, ReserveBytesFound DEF IsSigned
  <2> QED
    BY <1>1, <2>1, KindsOfRequests, ReserveInjective
<1>2. CASE r \in Submissions /\ s \in Submissions
  <2>1. bytes = SubmitParts(r) /\ bytes = SubmitParts(s)
    BY <1>2, KindsOfRequests, SubmitBytesFound DEF IsSigned
  <2> QED
    BY <1>2, <2>1, KindsOfRequests, SubmitInjective
<1>3. CASE r \in Reservations /\ s \in Submissions
  <2>1. bytes = GatewayReserveBytes(r) /\ bytes = SubmitParts(s)
    BY <1>3, KindsOfRequests, ReserveBytesFound, SubmitBytesFound DEF IsSigned
  <2> QED
    BY <1>3, <2>1, KindsOfRequests, KindsDiffer
<1>4. CASE r \in Submissions /\ s \in Reservations
  <2>1. bytes = GatewayReserveBytes(s) /\ bytes = SubmitParts(r)
    BY <1>4, KindsOfRequests, ReserveBytesFound, SubmitBytesFound DEF IsSigned
  <2> QED
    BY <1>4, <2>1, KindsOfRequests, KindsDiffer
<1> QED
  BY <1>1, <1>2, <1>3, <1>4 DEF Requests

\* Every request signed is kept with its bytes.
LEMMA InductiveInvariant == Spec => []IInv
<1>1. Init => IInv
  BY DEF Init, IInv, IsSigned
<1>2. IInv /\ [Next]_vars => IInv'
  <2> SUFFICES ASSUME IInv, [Next]_vars
               PROVE  IInv'
    OBVIOUS
  <2>1. ASSUME NEW r, NEW bytes, IsSigned(r, bytes), r # NoRequest, Signs(r, bytes)
        PROVE  IInv'
    BY <2>1 DEF IInv, IsSigned, Signs
  <2>2. ASSUME NEW r \in Reservations, SignReserve(r)
        PROVE  IInv'
    <3>1. IsSigned(r, ReserveBytes(r)) /\ r # NoRequest
      BY KindsOfRequests DEF IsSigned
    <3>2. Signs(r, ReserveBytes(r))
      BY <2>2 DEF SignReserve
    <3> QED
      BY <2>1, <3>1, <3>2
  <2>3. ASSUME NEW s \in Submissions, SignSubmit(s)
        PROVE  IInv'
    <3>1. IsSigned(s, SubmitBytes(s)) /\ s # NoRequest
      BY KindsOfRequests DEF IsSigned
    <3>2. Signs(s, SubmitBytes(s))
      BY <2>3 DEF SignSubmit
    <3> QED
      BY <2>1, <3>1, <3>2
  <2>4. CASE UNCHANGED vars
    BY <2>4 DEF IInv, IsSigned, vars
  <2> QED
    BY <2>2, <2>3, <2>4 DEF Next
<1> QED
  BY <1>1, <1>2, PTL DEF Spec

\* The bytes signed are those the gateway computes, for amounts of any size and
\* ids of any bytes: the four limbs of a U256 make up its bytes, and the three
\* numbers of a uuid are turned around (types.go:28-58).
THEOREM GatewayAgrees == Spec => []GatewayFindsDigest
<1>1. IInv => GatewayFindsDigest
  <2> SUFFICES ASSUME IInv
               PROVE  GatewayFindsDigest
    OBVIOUS
  <2>1. ASSUME request \in Reservations
        PROVE  digest = GatewayReserveBytes(request)
    BY <2>1, KindsOfRequests, ReserveBytesFound DEF IInv, IsSigned
  <2>2. ASSUME request \in Submissions
        PROVE  digest = GatewaySubmitBytes(request)
    BY <2>2, KindsOfRequests, SubmitBytesFound DEF IInv, IsSigned
  <2> QED
    BY <2>1, <2>2 DEF GatewayFindsDigest
<1> QED
  BY <1>1, InductiveInvariant, PTL

\* A digest is good for one request: no two of any requests, of one kind or of
\* both, are signed over the same bytes (types.go:28-58, client.go:62-104).
THEOREM OneRequestPerDigest == Spec => []DigestIsOfOneRequest
<1>1. IInv => DigestIsOfOneRequest
  <2> SUFFICES ASSUME IInv, earlier.request # NoRequest, earlier.digest = digest
               PROVE  earlier.request = request
    BY DEF DigestIsOfOneRequest
  <2>1. /\ IsSigned(request, digest) /\ IsSigned(earlier.request, digest)
        /\ request # NoRequest
    BY DEF IInv
  <2>2. request \in Requests /\ earlier.request \in Requests
    BY <2>1 DEF IsSigned, Requests
  <2> QED
    BY <2>1, <2>2, SignedOnce
<1> QED
  BY <1>1, InductiveInvariant, PTL
=============================================================================
