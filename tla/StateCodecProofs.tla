-------------------------- MODULE StateCodecProofs --------------------------
(***************************************************************************)
(* For every value of the constants: what is saved is what is loaded, what *)
(* is loaded was saved as it stands in the flash, what save refuses could  *)
(* not be stored, and no two messages are signed alike.                    *)
(***************************************************************************)
EXTENDS StateCodec, WellFoundedInduction, TLAPS

-----------------------------------------------------------------------------
(* Induction and recursion, over sets and functions.                       *)

LEMMA NatOrder == IsWellFoundedOn({p \in Nat \X Nat : p[1] < p[2]}, Nat)
<1>1. OpToRel(<, Nat) = {p \in Nat \X Nat : p[1] < p[2]}
  BY Zenon DEF OpToRel
<1> QED BY <1>1, NatLessThanWellFounded

(* A set that holds 0 and, with a number, the next one holds them all.     *)
LEMMA Induction ==
  ASSUME NEW T, 0 \in T, \A n \in Nat : n \in T => n + 1 \in T
  PROVE  Nat \subseteq T
<1> DEFINE R    == {p \in Nat \X Nat : p[1] < p[2]}
           rest == Nat \ T
<1>1. SUFFICES ASSUME rest # {} PROVE FALSE
  OBVIOUS
<1>2. IsWellFoundedOn(R, Nat)
  BY NatOrder
<1>3. rest \subseteq Nat
  OBVIOUS
<1> HIDE DEF R, rest
<1>4. PICK x \in rest : \A y \in rest : <<y, x>> \notin R
  BY <1>1, <1>2, <1>3, WFMin
<1>5. x \in Nat /\ x \notin T
  BY DEF rest
<1>6. x # 0 /\ x - 1 \in Nat /\ x - 1 < x
  BY <1>5
<1>7. x - 1 \in T
  BY <1>4, <1>5, <1>6 DEF R, rest
<1> QED BY <1>5, <1>6, <1>7

(* g starts at x and goes from one number to the next by G.               *)
Iterates(g, x, n, G) == g[0] = x /\ \A k \in 1..n : g[k] = G[k][g[k-1]]

(* A function on 0..n may be defined step by step.                         *)
LEMMA Iteration ==
  ASSUME NEW S, NEW x \in S, NEW n \in Nat, NEW G \in [1..n -> [S -> S]]
  PROVE  \E g \in [0..n -> S] : Iterates(g, x, n, G)
<1> DEFINE Upto(g, m) == \A k \in 1..n : k <= m => g[k] = G[k][g[k-1]]
           T == {m \in Nat : \E g \in [0..n -> S] : g[0] = x /\ Upto(g, m)}
<1>1. 0 \in T
  <2> DEFINE g == [k \in 0..n |-> x]
  <2>1. g \in [0..n -> S] /\ g[0] = x /\ Upto(g, 0)
    OBVIOUS
  <2> QED BY <2>1
<1>2. ASSUME NEW m \in Nat, m \in T PROVE m + 1 \in T
  <2> PICK g \in [0..n -> S] : g[0] = x /\ Upto(g, m)
    BY <1>2
  <2>1. CASE m + 1 \in 1..n
    <3> DEFINE h == [g EXCEPT ![m+1] = G[m+1][g[m]]]
    <3>1. m \in 0..n /\ g[m] \in S /\ G[m+1] \in [S -> S]
      BY <2>1
    <3>2. h \in [0..n -> S] /\ h[0] = x
      BY <2>1, <3>1
    <3>3. ASSUME NEW k \in 1..n, k <= m + 1 PROVE h[k] = G[k][h[k-1]]
      <4>1. k - 1 \in 0..n /\ k - 1 # m + 1 /\ h[k-1] = g[k-1]
        BY <3>3
      <4>2. CASE k = m + 1
        BY <2>1, <3>1, <4>1, <4>2
      <4>3. CASE k # m + 1
        BY <3>3, <4>1, <4>3
      <4> QED BY <4>2, <4>3
    <3> HIDE DEF h
    <3> QED BY <3>2, <3>3
  <2>2. CASE m + 1 \notin 1..n
    <3>1. Upto(g, m + 1)
      BY <2>2
    <3> QED BY <3>1
  <2> QED BY <2>1, <2>2
<1> HIDE DEF T
<1>3. n \in T
  BY <1>1, <1>2, Induction
<1> QED BY <1>3 DEF T, Iterates

-----------------------------------------------------------------------------
(* Bytes at a place of a blob.                                             *)

(* The bytes w stand in b after position p.                                *)
At(b, p, w) ==
  p + Len(w) <= Len(b) /\ \A i \in 1..Len(w) : b[p + i] = w[i]

(* One after the other is each at its place.                               *)
LEMMA AtCat ==
  ASSUME NEW b \in String, NEW p \in Nat, NEW u \in String, NEW v \in String
  PROVE  /\ u \o v \in String /\ Len(u \o v) = Len(u) + Len(v)
         /\ At(b, p, u \o v) <=> At(b, p, u) /\ At(b, p + Len(u), v)
<1> DEFINE w == u \o v
<1>1. /\ w \in String /\ Len(w) = Len(u) + Len(v)
      /\ Len(u) \in Nat /\ Len(v) \in Nat /\ Len(b) \in Nat
      /\ \A i \in 1..Len(u) : w[i] = u[i]
      /\ \A i \in 1..Len(v) : w[Len(u) + i] = v[i]
  BY DEF String
<1> HIDE DEF w
<1>2. ASSUME At(b, p, w) PROVE At(b, p, u) /\ At(b, p + Len(u), v)
  <2>1. p + Len(u) + Len(v) <= Len(b)
    BY <1>1, <1>2 DEF At
  <2>2. ASSUME NEW i \in 1..Len(u) PROVE b[p + i] = u[i]
    BY <1>1, <1>2 DEF At
  <2>3. ASSUME NEW i \in 1..Len(v) PROVE b[(p + Len(u)) + i] = v[i]
    <3>1. Len(u) + i \in 1..Len(w) /\ p + (Len(u) + i) = (p + Len(u)) + i
      BY <1>1
    <3> QED BY <1>1, <1>2, <3>1 DEF At
  <2> QED BY <1>1, <2>1, <2>2, <2>3 DEF At
<1>3. ASSUME At(b, p, u), At(b, p + Len(u), v) PROVE At(b, p, w)
  <2>1. p + Len(w) <= Len(b)
    BY <1>1, <1>3 DEF At
  <2>2. ASSUME NEW i \in 1..Len(w) PROVE b[p + i] = w[i]
    <3>1. CASE i \in 1..Len(u)
      BY <1>1, <1>3, <3>1 DEF At
    <3>2. CASE i \notin 1..Len(u)
      <4> DEFINE j == i - Len(u)
      <4>1. j \in 1..Len(v) /\ Len(u) + j = i /\ (p + Len(u)) + j = p + i
        BY <1>1, <3>2
      <4> HIDE DEF j
      <4>2. w[i] = v[j] /\ b[(p + Len(u)) + j] = v[j]
        BY <1>1, <1>3, <4>1 DEF At
      <4> QED BY <4>1, <4>2
    <3> QED BY <3>1, <3>2
  <2> QED BY <2>1, <2>2 DEF At
<1> QED BY <1>1, <1>2, <1>3 DEF w

(* As many bytes at the same place are the same.                           *)
LEMMA AtSame ==
  ASSUME NEW b, NEW p, NEW u \in String, NEW v \in String,
         At(b, p, u), At(b, p, v), Len(u) = Len(v)
  PROVE  u = v
<1>1. \A i \in 1..Len(u) : u[i] = v[i]
  BY DEF At
<1> QED BY <1>1 DEF String

LEMMA AtSelf ==
  ASSUME NEW b \in String
  PROVE  At(b, 0, b)
BY DEF At, String

-----------------------------------------------------------------------------
(* Numbers.                                                                *)

LEMMA SizeFacts ==
  /\ Base \in Nat /\ Base >= 2 /\ NumberSize \in Nat
  /\ LengthSize \in Nat /\ LengthSize >= 1
  /\ MaxBytes \in Word(LengthSize) /\ MaxBytes \in Nat
BY CodecConstants DEF Word

LEMMA Quotient ==
  ASSUME NEW q \in Nat, NEW d \in Byte
  PROVE  /\ q * Base + d \in Nat
         /\ (q * Base + d) \div Base = q /\ (q * Base + d) % Base = d
BY SizeFacts DEF Byte

LEMMA Division ==
  ASSUME NEW n \in Nat
  PROVE  /\ n \div Base \in Nat /\ n % Base \in Byte
         /\ n = (n \div Base) * Base + (n % Base)
<1> DEFINE T == {m \in Nat : \E q \in Nat, d \in Byte : m = q * Base + d}
<1>1. 0 \in T
  <2>1. 0 \in Byte /\ 0 * Base + 0 = 0
    BY SizeFacts DEF Byte
  <2> QED BY <2>1
<1>2. ASSUME NEW m \in Nat, m \in T PROVE m + 1 \in T
  <2> PICK q \in Nat, d \in Byte : m = q * Base + d
    BY <1>2
  <2>1. CASE d + 1 \in Byte
    <3>1. m + 1 = q * Base + (d + 1)
      BY SizeFacts DEF Byte
    <3> QED BY <2>1, <3>1
  <2>2. CASE d + 1 \notin Byte
    <3>1. m + 1 = (q + 1) * Base + 0 /\ 0 \in Byte /\ q + 1 \in Nat
      BY SizeFacts, <2>2 DEF Byte
    <3> QED BY <3>1
  <2> QED BY <2>1, <2>2
<1> HIDE DEF T
<1>3. n \in T
  BY <1>1, <1>2, Induction
<1>4. PICK q \in Nat, d \in Byte : n = q * Base + d
  BY <1>3 DEF T
<1>5. n \div Base = q /\ n % Base = d
  BY <1>4, Quotient
<1> QED BY <1>4, <1>5

LEMMA DivisionGrows ==
  ASSUME NEW m \in Nat, NEW n \in Nat, m <= n
  PROVE  m \div Base <= n \div Base
<1> DEFINE q == m \div Base
           r == n \div Base
<1>1. /\ q \in Nat /\ r \in Nat /\ m % Base \in Byte /\ n % Base \in Byte
      /\ m = q * Base + (m % Base) /\ n = r * Base + (n % Base)
  BY Division
<1> HIDE DEF q, r
<1>2. SUFFICES ASSUME q >= r + 1 PROVE FALSE
  BY <1>1 DEF q, r
<1>3. PICK e \in Nat : q = r + 1 + e
  <2>1. q - (r + 1) \in Nat /\ q = r + 1 + (q - (r + 1))
    BY <1>1, <1>2
  <2> QED BY <2>1
<1>4. q * Base = r * Base + Base + e * Base /\ e * Base \in Nat /\ r * Base \in Nat
  BY <1>1, <1>3, SizeFacts
<1>5. m % Base < Base /\ n % Base < Base /\ m % Base \in Nat /\ n % Base \in Nat
  BY <1>1, SizeFacts DEF Byte
<1> DEFINE rb == r * Base
           eb == e * Base
           qb == q * Base
<1> HIDE DEF rb, eb, qb
<1>6. /\ qb = rb + Base + eb /\ rb \in Nat /\ eb \in Nat
      /\ m = qb + (m % Base) /\ n = rb + (n % Base)
  BY <1>1, <1>4 DEF rb, eb, qb
<1> QED BY <1>5, <1>6, SizeFacts

LEMMA ShiftsFacts ==
  ASSUME NEW n \in Nat, NEW size \in Nat
  PROVE  /\ Shifts(n, size) \in [0..size -> Nat] /\ Shifts(n, size)[0] = n
         /\ \A k \in 1..size :
              Shifts(n, size)[k] = Shifts(n, size)[k-1] \div Base
<1> DEFINE G == [k \in 1..size |-> [m \in Nat |-> m \div Base]]
<1>1. G \in [1..size -> [Nat -> Nat]]
  BY Division
<1>2. \A k \in 1..size, m \in Nat : G[k][m] = m \div Base
  OBVIOUS
<1> HIDE DEF G
<1>3. PICK g \in [0..size -> Nat] : Iterates(g, n, size, G)
  BY <1>1, Iteration
<1>4. ASSUME NEW k \in 1..size PROVE g[k] = g[k-1] \div Base
  <2>1. k - 1 \in 0..size
    OBVIOUS
  <2> QED BY <1>2, <1>3, <2>1 DEF Iterates
<1>5. g = [k \in 0..size |-> IF k = 0 THEN n ELSE g[k-1] \div Base]
  <2>1. ASSUME NEW k \in 0..size, k # 0 PROVE k \in 1..size
    BY <2>1
  <2> QED BY <1>3, <1>4, <2>1 DEF Iterates
<1> DEFINE h == Shifts(n, size)
<1>6. h = [k \in 0..size |-> IF k = 0 THEN n ELSE h[k-1] \div Base]
  BY <1>5, Zenon DEF Shifts
<1> HIDE DEF h
<1>7. h[0] = n
  <2>1. 0 \in 0..size
    OBVIOUS
  <2> QED BY <1>6, <2>1
<1>8. \A k \in 1..size : h[k] = h[k-1] \div Base
  <2>1. \A k \in 1..size : k \in 0..size /\ k # 0
    OBVIOUS
  <2> QED BY <1>6, <2>1
<1>9. h \in [0..size -> Nat]
  <2> DEFINE T == {k \in Nat : k \in 0..size => h[k] \in Nat}
  <2>1. 0 \in T
    BY <1>7
  <2>2. ASSUME NEW k \in Nat, k \in T PROVE k + 1 \in T
    <3>1. CASE k + 1 \in 1..size
      <4>1. k \in 0..size /\ (k + 1) - 1 = k
        BY <3>1
      <4>2. h[k] \in Nat /\ h[k + 1] = h[k] \div Base
        BY <1>8, <2>2, <3>1, <4>1
      <4>3. h[k + 1] \in Nat
        BY <4>2, Division
      <4> QED BY <4>3
    <3>2. CASE k + 1 \notin 1..size
      BY <3>2
    <3> QED BY <3>1, <3>2
  <2> HIDE DEF T
  <2>3. Nat \subseteq T
    BY <2>1, <2>2, Induction
  <2>4. ASSUME NEW k \in 0..size PROVE h[k] \in Nat
    <3>1. k \in T
      BY <2>3
    <3> QED BY <3>1 DEF T
  <2> QED BY <1>6, <2>4
<1> QED BY <1>7, <1>8, <1>9 DEF h

(* What is no larger fits too.                                             *)
LEMMA WordBelow ==
  ASSUME NEW size \in Nat, NEW n \in Word(size), NEW m \in Nat, m <= n
  PROVE  m \in Word(size)
<1> DEFINE f == Shifts(m, size)
           g == Shifts(n, size)
           T == {k \in Nat : k \in 0..size => f[k] <= g[k]}
<1>1. /\ n \in Nat /\ g[size] = 0 /\ g \in [0..size -> Nat] /\ g[0] = n
      /\ \A k \in 1..size : g[k] = g[k-1] \div Base
  BY ShiftsFacts DEF Word
<1>2. /\ f \in [0..size -> Nat] /\ f[0] = m
      /\ \A k \in 1..size : f[k] = f[k-1] \div Base
  BY ShiftsFacts
<1> HIDE DEF f, g
<1>3. 0 \in T
  BY <1>1, <1>2
<1>4. ASSUME NEW k \in Nat, k \in T PROVE k + 1 \in T
  <2>1. CASE k + 1 \in 1..size
    <3>1. k \in 0..size /\ (k + 1) - 1 = k
      BY <2>1
    <3>2. /\ f[k] \in Nat /\ g[k] \in Nat /\ f[k] <= g[k]
          /\ f[k + 1] = f[k] \div Base /\ g[k + 1] = g[k] \div Base
      BY <1>1, <1>2, <1>4, <2>1, <3>1
    <3> QED BY <3>2, DivisionGrows
  <2>2. CASE k + 1 \notin 1..size
    BY <2>2
  <2> QED BY <2>1, <2>2
<1> HIDE DEF T
<1>5. size \in T
  BY <1>3, <1>4, Induction
<1>6. f[size] = 0
  BY <1>1, <1>2, <1>5 DEF T
<1> QED BY <1>6 DEF Word, f

LEMMA NumberBytes ==
  ASSUME NEW n \in Nat, NEW size \in Nat
  PROVE  /\ Number(n, size) \in String /\ Len(Number(n, size)) = size
         /\ \A i \in 1..size :
              Number(n, size)[i] = Shifts(n, size)[size - i] % Base
<1>1. ASSUME NEW i \in 1..size PROVE Shifts(n, size)[size - i] % Base \in Byte
  <2>1. size - i \in 0..size
    OBVIOUS
  <2>2. Shifts(n, size)[size - i] \in Nat
    BY <2>1, ShiftsFacts
  <2> QED BY <2>2, Division
<1> DEFINE S(i) == Shifts(n, size)[size - i] % Base
<1>2. Number(n, size) = [i \in 1..size |-> S(i)]
  BY Zenon DEF Number
<1> HIDE DEF S
<1>3. \A i \in 1..size : S(i) \in Byte
  BY <1>1 DEF S
<1>4. Number(n, size) \in [1..size -> Byte]
  BY <1>2, <1>3
<1>5. Number(n, size) \in Seq(Byte) /\ Len(Number(n, size)) = size
  BY <1>4
<1> QED BY <1>2, <1>5 DEF String, S

LEMMA NumberAtFacts ==
  ASSUME NEW b \in String, NEW p \in Nat, NEW size \in Nat, p + size <= Len(b)
  PROVE  \E h \in [0..size -> Nat] :
           /\ h[0] = 0 /\ NumberAt(b, p, size) = h[size]
           /\ \A k \in 1..size : h[k] = h[k-1] * Base + b[p + k]
<1> DEFINE G == [k \in 1..size |-> [m \in Nat |-> m * Base + b[p + k]]]
<1>1. ASSUME NEW k \in 1..size PROVE b[p + k] \in Byte
  BY DEF String
<1>2. ASSUME NEW k \in 1..size, NEW m \in Nat PROVE m * Base + b[p + k] \in Nat
  BY <1>1, Quotient
<1>3. G \in [1..size -> [Nat -> Nat]]
  BY <1>2
<1>4. \A k \in 1..size, m \in Nat : G[k][m] = m * Base + b[p + k]
  OBVIOUS
<1> HIDE DEF G
<1>5. PICK g \in [0..size -> Nat] : Iterates(g, 0, size, G)
  BY <1>3, Iteration
<1>6. ASSUME NEW k \in 1..size PROVE g[k] = g[k-1] * Base + b[p + k]
  <2>1. k - 1 \in 0..size
    OBVIOUS
  <2> QED BY <1>4, <1>5, <2>1 DEF Iterates
<1>7. g = [k \in 0..size |-> IF k = 0 THEN 0 ELSE g[k-1] * Base + b[p + k]]
  <2>1. ASSUME NEW k \in 0..size, k # 0 PROVE k \in 1..size
    BY <2>1
  <2> QED BY <1>5, <1>6, <2>1 DEF Iterates
<1> DEFINE h == CHOOSE h :
     h = [k \in 0..size |-> IF k = 0 THEN 0 ELSE h[k-1] * Base + b[p + k]]
<1>8. h = [k \in 0..size |-> IF k = 0 THEN 0 ELSE h[k-1] * Base + b[p + k]]
  BY <1>7, Zenon
<1>9. NumberAt(b, p, size) = h[size]
  BY Zenon DEF NumberAt
<1> HIDE DEF h
<1>10. h[0] = 0
  <2>1. 0 \in 0..size
    OBVIOUS
  <2> QED BY <1>8, <2>1
<1>11. \A k \in 1..size : h[k] = h[k-1] * Base + b[p + k]
  <2>1. \A k \in 1..size : k \in 0..size /\ k # 0
    OBVIOUS
  <2> QED BY <1>8, <2>1
<1>12. h \in [0..size -> Nat]
  <2> DEFINE T == {k \in Nat : k \in 0..size => h[k] \in Nat}
  <2>1. 0 \in T
    BY <1>10
  <2>2. ASSUME NEW k \in Nat, k \in T PROVE k + 1 \in T
    <3>1. CASE k + 1 \in 1..size
      <4>1. k \in 0..size /\ (k + 1) - 1 = k
        BY <3>1
      <4>2. h[k] \in Nat /\ h[k + 1] = h[k] * Base + b[p + (k + 1)]
        BY <1>11, <2>2, <3>1, <4>1
      <4>3. h[k + 1] \in Nat
        BY <1>2, <3>1, <4>2
      <4> QED BY <4>3
    <3>2. CASE k + 1 \notin 1..size
      BY <3>2
    <3> QED BY <3>1, <3>2
  <2> HIDE DEF T
  <2>3. Nat \subseteq T
    BY <2>1, <2>2, Induction
  <2>4. ASSUME NEW k \in 0..size PROVE h[k] \in Nat
    <3>1. k \in T
      BY <2>3
    <3> QED BY <3>1 DEF T
  <2> QED BY <1>8, <2>4
<1> QED BY <1>9, <1>10, <1>11, <1>12

(* What stands for n is read as n.                                         *)
LEMMA NumberAtOf ==
  ASSUME NEW b \in String, NEW p \in Nat, NEW size \in Nat,
         NEW n \in Word(size), At(b, p, Number(n, size))
  PROVE  NumberAt(b, p, size) = n
<1> DEFINE f == Shifts(n, size)
<1>1. /\ n \in Nat /\ f[size] = 0 /\ f \in [0..size -> Nat] /\ f[0] = n
      /\ \A k \in 1..size : f[k] = f[k-1] \div Base
  BY ShiftsFacts DEF Word
<1>2. /\ p + size <= Len(b) /\ Len(b) \in Nat
      /\ \A i \in 1..size : b[p + i] = f[size - i] % Base
  <2> DEFINE w == Number(n, size)
  <2>1. Len(w) = size /\ \A i \in 1..size : w[i] = f[size - i] % Base
    BY <1>1, NumberBytes
  <2> HIDE DEF w, f
  <2>2. At(b, p, w)
    BY DEF w
  <2> QED BY <2>1, <2>2 DEF At, String
<1> HIDE DEF f
<1>3. PICK h \in [0..size -> Nat] :
        /\ h[0] = 0 /\ NumberAt(b, p, size) = h[size]
        /\ \A k \in 1..size : h[k] = h[k-1] * Base + b[p + k]
  BY <1>2, NumberAtFacts
<1> DEFINE T == {k \in Nat : k \in 0..size => h[k] = f[size - k]}
<1>4. 0 \in T
  BY <1>1, <1>3
<1>5. ASSUME NEW k \in Nat, k \in T PROVE k + 1 \in T
  <2>1. CASE k + 1 \in 1..size
    <3> DEFINE j == size - (k + 1)
    <3>1. /\ k \in 0..size /\ (k + 1) - 1 = k
          /\ j \in 0..size /\ size - k = j + 1 /\ j + 1 \in 1..size /\ (j + 1) - 1 = j
      BY <2>1
    <3> HIDE DEF j
    <3>2. h[k] = f[j + 1] /\ f[j + 1] = f[j] \div Base /\ f[j] \in Nat
      BY <1>1, <1>5, <3>1
    <3>3. h[k + 1] = h[k] * Base + b[p + (k + 1)] /\ b[p + (k + 1)] = f[j] % Base
      BY <1>2, <1>3, <2>1, <3>1 DEF j
    <3>4. h[k + 1] = (f[j] \div Base) * Base + (f[j] % Base)
      BY <3>2, <3>3
    <3>5. h[k + 1] = f[j]
      BY <3>2, <3>4, Division
    <3> QED BY <3>5 DEF j
  <2>2. CASE k + 1 \notin 1..size
    BY <2>2
  <2> QED BY <2>1, <2>2
<1> HIDE DEF T
<1>6. size \in T
  BY <1>4, <1>5, Induction
<1>7. h[size] = f[0]
  BY <1>6 DEF T
<1> QED BY <1>1, <1>3, <1>7

(* What is read is what stands there.                                      *)
LEMMA NumberAtStands ==
  ASSUME NEW b \in String, NEW p \in Nat, NEW size \in Nat, p + size <= Len(b)
  PROVE  /\ NumberAt(b, p, size) \in Word(size)
         /\ At(b, p, Number(NumberAt(b, p, size), size))
<1> DEFINE n == NumberAt(b, p, size)
           f == Shifts(n, size)
<1>1. PICK h \in [0..size -> Nat] :
        /\ h[0] = 0 /\ n = h[size]
        /\ \A k \in 1..size : h[k] = h[k-1] * Base + b[p + k]
  BY NumberAtFacts
<1>2. \A k \in 1..size : b[p + k] \in Byte
  BY DEF String
<1>3. n \in Nat
  BY <1>1
<1> HIDE DEF n
<1>4. /\ f \in [0..size -> Nat] /\ f[0] = n
      /\ \A k \in 1..size : f[k] = f[k-1] \div Base
  BY <1>3, ShiftsFacts
<1> HIDE DEF f
<1> DEFINE T == {k \in Nat : k \in 0..size => f[k] = h[size - k]}
<1>5. 0 \in T
  BY <1>1, <1>4
<1>6. ASSUME NEW k \in Nat, k \in T PROVE k + 1 \in T
  <2>1. CASE k + 1 \in 1..size
    <3> DEFINE j == size - (k + 1)
    <3>1. /\ k \in 0..size /\ (k + 1) - 1 = k
          /\ j \in 0..size /\ size - k = j + 1 /\ j + 1 \in 1..size /\ (j + 1) - 1 = j
      BY <2>1
    <3> HIDE DEF j
    <3>2. f[k] = h[j + 1] /\ f[k + 1] = f[k] \div Base /\ h[j] \in Nat
      BY <1>1, <1>4, <1>6, <2>1, <3>1
    <3>3. h[j + 1] = h[j] * Base + b[p + (j + 1)] /\ b[p + (j + 1)] \in Byte
      BY <1>1, <1>2, <3>1
    <3>4. f[k + 1] = h[j]
      BY <3>2, <3>3, Quotient, ZenonT(40)
    <3> QED BY <3>4 DEF j
  <2>2. CASE k + 1 \notin 1..size
    BY <2>2
  <2> QED BY <2>1, <2>2
<1> HIDE DEF T
<1>7. Nat \subseteq T
  BY <1>5, <1>6, Induction
<1>8. ASSUME NEW k \in 0..size PROVE f[k] = h[size - k]
  <2>1. k \in T
    BY <1>7
  <2> QED BY <2>1 DEF T
<1>9. n \in Word(size)
  <2>1. f[size] = 0
    BY <1>1, <1>8
  <2> QED BY <1>3, <2>1 DEF Word, f
<1>10. ASSUME NEW i \in 1..size PROVE f[size - i] % Base = b[p + i]
  <2>1. size - i \in 0..size /\ size - (size - i) = i /\ i - 1 \in 0..size
    OBVIOUS
  <2>2. /\ f[size - i] = h[i] /\ h[i] = h[i-1] * Base + b[p + i] /\ h[i-1] \in Nat
        /\ b[p + i] \in Byte
    BY <1>1, <1>2, <1>8, <2>1
  <2> QED BY <2>2, Quotient
<1>11. At(b, p, Number(n, size))
  BY <1>3, <1>10, NumberBytes DEF At, f
<1> QED BY <1>9, <1>11 DEF n

-----------------------------------------------------------------------------
(* What a reader owes to a writer.                                         *)

Cursor(S) == [p : Nat, ok : BOOLEAN, out : S]

(* From r to x is read o, where w writes the values V and L are those      *)
(* within the limits.  What is read stands there and is within them; what  *)
(* stands there is read, unless it breaks one.  A blob longer than         *)
(* MaxBytes may hold lengths that wrap, but not of what is within limits.  *)
Reads(b, r, x, o, w, V, L) ==
  /\ o \in V
  /\ x.ok => /\ r.ok /\ o \in L
             /\ At(b, r.p, w[o]) /\ x.p = r.p + Len(w[o])
  /\ \A v \in V :
       r.ok /\ At(b, r.p, w[v]) /\ (Len(b) <= MaxBytes \/ v \in L) =>
         (v \in L => x.ok) /\ (x.ok => o = v)

Numbers(size) == [n \in Word(size) |-> Number(n, size)]
Bytes == [x \in Byte |-> <<x>>]
TextWriter == [s \in String |-> Text(s)]
TextsUpTo(max) == {s \in String : Len(s) <= max}

LEMMA ReadNumberCases ==
  ASSUME NEW b \in String, NEW S, NEW r \in Cursor(S), NEW size \in Nat
  PROVE  LET x == ReadNumber(b, r, size) IN
         /\ x \in Cursor(Word(size))
         /\ x.ok => r.ok
         /\ x.ok <=> r.ok /\ r.p + size <= Len(b)
         /\ x.ok => x.p = r.p + size /\ x.out = NumberAt(b, r.p, size)
         /\ ~x.ok => x.out = 0
<1> DEFINE x == ReadNumber(b, r, size)
<1>1. /\ r.p \in Nat /\ r.ok \in BOOLEAN /\ Len(b) \in Nat
      /\ r = [p |-> r.p, ok |-> r.ok, out |-> r.out]
  BY DEF Cursor, String
<1>2. 0 \in Word(size)
  <2>1. size \in Nat /\ 0 \in Nat
    OBVIOUS
  <2> DEFINE T == {k \in Nat : k \in 0..size => Shifts(0, size)[k] = 0}
             f == Shifts(0, size)
  <2>2. f[0] = 0 /\ \A k \in 1..size : f[k] = f[k-1] \div Base
    BY ShiftsFacts
  <2>3. 0 \div Base = 0
    BY SizeFacts
  <2> HIDE DEF f
  <2>4. 0 \in T
    BY <2>2 DEF f
  <2>5. ASSUME NEW k \in Nat, k \in T PROVE k + 1 \in T
    <3>1. CASE k + 1 \in 1..size
      <4>1. k \in 0..size /\ (k + 1) - 1 = k
        BY <3>1
      <4>2. f[k] = 0 /\ f[k + 1] = f[k] \div Base
        BY <2>2, <2>5, <3>1, <4>1 DEF f
      <4> QED BY <2>3, <4>2 DEF f
    <3>2. CASE k + 1 \notin 1..size
      BY <3>2
    <3> QED BY <3>1, <3>2
  <2> HIDE DEF T
  <2>6. size \in T
    BY <2>4, <2>5, Induction
  <2> QED BY <2>6 DEF Word, T
<1>3. CASE ~r.ok \/ size > Len(b) - r.p
  <2>1. x = [r EXCEPT !.ok = FALSE, !.out = 0]
    BY <1>3 DEF ReadNumber, Fail
  <2>2. x = [p |-> r.p, ok |-> FALSE, out |-> 0]
    BY <1>1, <2>1 DEF Cursor
  <2>3. x \in Cursor(Word(size)) /\ ~x.ok /\ x.out = 0
    BY <1>1, <1>2, <2>2 DEF Cursor
  <2>4. /\ x \in Cursor(Word(size)) /\ (x.ok <=> r.ok /\ r.p + size <= Len(b))
        /\ ~x.ok /\ x.out = 0
    <3> HIDE DEF x
    <3> QED BY <1>1, <1>3, <2>3
  <2> HIDE DEF x
  <2> QED BY <2>4 DEF x
<1>4. CASE ~(~r.ok \/ size > Len(b) - r.p)
  <2>1. x = [p |-> r.p + size, ok |-> TRUE, out |-> NumberAt(b, r.p, size)]
    BY <1>4 DEF ReadNumber
  <2>2. r.p + size <= Len(b) /\ r.ok
    BY <1>1, <1>4
  <2>3. NumberAt(b, r.p, size) \in Word(size)
    BY <1>1, <2>2, NumberAtStands
  <2>4. /\ x \in Cursor(Word(size)) /\ x.ok /\ x.p = r.p + size
        /\ x.out = NumberAt(b, r.p, size)
    BY <1>1, <2>1, <2>3 DEF Cursor
  <2> HIDE DEF x
  <2> QED BY <2>2, <2>4 DEF x
<1> QED BY <1>3, <1>4

LEMMA NumberReads ==
  ASSUME NEW b \in String, NEW S, NEW r \in Cursor(S), NEW size \in Nat
  PROVE  LET x == ReadNumber(b, r, size) IN
         /\ x \in Cursor(Word(size))
         /\ Reads(b, r, x, x.out, Numbers(size), Word(size), Word(size))
<1> DEFINE x == ReadNumber(b, r, size)
           V == Word(size)
           w == Numbers(size)
<1>1. /\ x \in Cursor(V) /\ (x.ok <=> r.ok /\ r.p + size <= Len(b))
      /\ x.ok => x.p = r.p + size /\ x.out = NumberAt(b, r.p, size)
  BY ReadNumberCases
<1>2. r.p \in Nat /\ x.out \in V /\ V \subseteq Nat
  BY <1>1 DEF Cursor, Word
<1>3. \A v \in V : w[v] = Number(v, size)
  BY DEF Numbers
<1>4. \A v \in V : Len(w[v]) = size
  BY <1>2, <1>3, NumberBytes
<1> HIDE DEF x, V, w
<1>5. ASSUME x.ok
      PROVE  r.ok /\ x.out \in V /\ At(b, r.p, w[x.out]) /\ x.p = r.p + Len(w[x.out])
  <2>1. r.p + size <= Len(b) /\ x.out = NumberAt(b, r.p, size) /\ x.p = r.p + size /\ r.ok
    BY <1>1, <1>5
  <2>2. At(b, r.p, Number(x.out, size))
    BY <1>2, <2>1, NumberAtStands
  <2> QED BY <1>2, <1>3, <1>4, <2>1, <2>2
<1>6. ASSUME NEW v \in V, r.ok, At(b, r.p, w[v])
      PROVE  x.ok /\ x.out = v
  <2>1. r.p + size <= Len(b)
    BY <1>4, <1>6 DEF At
  <2>2. At(b, r.p, Number(v, size))
    BY <1>3, <1>6
  <2>3. NumberAt(b, r.p, size) = v
    BY <1>2, <2>2, NumberAtOf DEF V
  <2> QED BY <1>1, <1>6, <2>1, <2>3
<1>7. Reads(b, r, x, x.out, w, V, V)
  BY <1>2, <1>5, <1>6 DEF Reads
<1> QED BY <1>1, <1>7 DEF x, V, w

(* An enumerator is one byte.                                              *)
LEMMA ByteReads ==
  ASSUME NEW b \in String, NEW S, NEW r \in Cursor(S)
  PROVE  LET x == ReadNumber(b, r, 1) IN
         /\ x \in Cursor(Byte)
         /\ Reads(b, r, x, x.out, Bytes, Byte, Byte)
<1> DEFINE x == ReadNumber(b, r, 1)
<1>1. /\ x \in Cursor(Word(1)) /\ (x.ok <=> r.ok /\ r.p + 1 <= Len(b))
      /\ x.ok => x.p = r.p + 1 /\ x.out = NumberAt(b, r.p, 1)
      /\ ~x.ok => x.out = 0
  BY ReadNumberCases
<1>2. r.p \in Nat /\ 0 \in Byte /\ x.ok \in BOOLEAN
  BY <1>1, SizeFacts DEF Cursor, Byte
<1>3. ASSUME r.p + 1 <= Len(b)
      PROVE  NumberAt(b, r.p, 1) = b[r.p + 1] /\ b[r.p + 1] \in Byte
  <2>a. PICK one \in Nat : one = 1
    OBVIOUS
  <2>1. PICK h \in [0..one -> Nat] :
          /\ h[0] = 0 /\ NumberAt(b, r.p, one) = h[one]
          /\ \A k \in 1..one : h[k] = h[k-1] * Base + b[r.p + k]
    BY <1>2, <1>3, <2>a, NumberAtFacts, ZenonT(40)
  <2>2. b[r.p + 1] \in Byte
    BY <1>2, <1>3 DEF String
  <2>3. h[1] = 0 * Base + b[r.p + 1]
    BY <2>a, <2>1
  <2> QED BY <2>a, <2>1, <2>2, <2>3, SizeFacts DEF Byte
<1> HIDE DEF x
<1>4. x.out \in Byte
  BY <1>1, <1>2, <1>3
<1>5. \A v \in Byte : Bytes[v] = <<v>> /\ Len(Bytes[v]) = 1 /\ Bytes[v][1] = v
  BY DEF Bytes
<1>6. ASSUME x.ok
      PROVE  /\ r.ok /\ x.out \in Byte /\ At(b, r.p, Bytes[x.out])
             /\ x.p = r.p + Len(Bytes[x.out])
  <2>1. r.p + 1 <= Len(b) /\ x.out = b[r.p + 1] /\ x.p = r.p + 1 /\ r.ok
    BY <1>1, <1>3, <1>6
  <2> DEFINE w == Bytes[x.out]
  <2>2. Len(w) = 1 /\ w[1] = x.out
    BY <1>4, <1>5
  <2> HIDE DEF w
  <2>3. At(b, r.p, w)
    BY <2>1, <2>2 DEF At
  <2> QED BY <1>4, <2>1, <2>2, <2>3 DEF w
<1>7. ASSUME NEW v \in Byte, r.ok, At(b, r.p, Bytes[v])
      PROVE  x.ok /\ x.out = v
  <2> DEFINE w == Bytes[v]
  <2>1. Len(w) = 1 /\ w[1] = v
    BY <1>5
  <2> HIDE DEF w
  <2>2. r.p + 1 <= Len(b) /\ b[r.p + 1] = v
    BY <1>7, <2>1 DEF At, w
  <2> QED BY <1>1, <1>3, <1>7, <2>2
<1>8. Reads(b, r, x, x.out, Bytes, Byte, Byte)
  BY <1>4, <1>6, <1>7 DEF Reads
<1>9. x \in Cursor(Byte)
  BY <1>1, <1>4 DEF Cursor
<1> QED BY <1>8, <1>9 DEF x

LEMMA Slice ==
  ASSUME NEW b \in String, NEW p \in Nat, NEW n \in Nat, p + n <= Len(b)
  PROVE  LET s == SubSeq(b, p + 1, p + n)
         IN  s \in String /\ Len(s) = n /\ At(b, p, s)
<1> DEFINE s == SubSeq(b, p + 1, p + n)
<1>1. Len(b) \in Nat /\ \A i \in 1..Len(b) : b[i] \in Byte
  BY DEF String
<1>2. s = [i \in 1..n |-> b[p + i]]
  <2>1. s = [i \in 1..((p + n) - (p + 1) + 1) |-> b[i + (p + 1) - 1]]
    OBVIOUS
  <2>2. (p + n) - (p + 1) + 1 = n /\ \A i \in 1..n : i + (p + 1) - 1 = p + i
    OBVIOUS
  <2> QED BY <2>1, <2>2
<1> HIDE DEF s
<1>3. ASSUME NEW i \in 1..n PROVE b[p + i] \in Byte
  BY <1>1
<1>4. s \in Seq(Byte) /\ Len(s) = n
  BY <1>2, <1>3
<1>5. At(b, p, s)
  BY <1>2, <1>4 DEF At
<1> QED BY <1>4, <1>5 DEF s, String

LEMMA TextFacts ==
  ASSUME NEW s \in String
  PROVE  /\ Text(s) \in String /\ Len(Text(s)) = LengthSize + Len(s)
         /\ Len(s) \in Nat
         /\ \A b \in String, p \in Nat :
              At(b, p, Text(s)) <=> /\ At(b, p, Number(Len(s), LengthSize))
                                    /\ At(b, p + LengthSize, s)
<1>1. Len(s) \in Nat
  BY DEF String
<1>2. /\ Number(Len(s), LengthSize) \in String
      /\ Len(Number(Len(s), LengthSize)) = LengthSize
  BY <1>1, SizeFacts, NumberBytes
<1> QED BY <1>1, <1>2, AtCat DEF Text

LEMMA TextReads ==
  ASSUME NEW b \in String, NEW S, NEW r \in Cursor(S), NEW max \in 0..MaxBytes
  PROVE  LET x == ReadText(b, r, max) IN
         /\ x \in Cursor(String)
         /\ Reads(b, r, x, x.out, TextWriter, String, TextsUpTo(max))
<1> DEFINE n == ReadNumber(b, r, LengthSize)
           x == ReadText(b, r, max)
           w == TextWriter
           L == TextsUpTo(max)
<1>1. /\ n \in Cursor(Word(LengthSize))
      /\ n.ok <=> r.ok /\ r.p + LengthSize <= Len(b)
      /\ n.ok => n.p = r.p + LengthSize /\ n.out = NumberAt(b, r.p, LengthSize)
  BY SizeFacts, ReadNumberCases
<1>2. /\ r.p \in Nat /\ n.p \in Nat /\ n.out \in Word(LengthSize) /\ n.out \in Nat
      /\ n.ok \in BOOLEAN /\ Len(b) \in Nat /\ LengthSize \in Nat
      /\ n = [p |-> n.p, ok |-> n.ok, out |-> n.out]
  BY <1>1, SizeFacts DEF Cursor, String, Word
<1> DEFINE fits == n.ok /\ n.out <= max /\ n.p + n.out <= Len(b)
           s == SubSeq(b, n.p + 1, n.p + n.out)
<1>3. CASE fits
  <2>1. x = [p |-> n.p + n.out, ok |-> TRUE, out |-> s]
    <3>1. ~(~n.ok \/ n.out > max \/ n.out > Len(b) - n.p)
      BY <1>2, <1>3
    <3> QED BY <3>1, Zenon DEF ReadText
  <2>2. s \in String /\ Len(s) = n.out /\ At(b, n.p, s)
    BY <1>2, <1>3, Slice
  <2>3. r.ok /\ n.p = r.p + LengthSize /\ n.out = NumberAt(b, r.p, LengthSize)
    BY <1>1, <1>3
  <2>4. At(b, r.p, Number(n.out, LengthSize))
    BY <1>1, <1>2, <1>3, <2>3, NumberAtStands
  <2> HIDE DEF s, n
  <2>5. x.ok /\ x.out = s /\ x.p = n.p + n.out /\ x \in Cursor(String)
    BY <1>2, <2>1, <2>2 DEF Cursor
  <2>6. At(b, r.p, Text(s)) /\ Len(Text(s)) = LengthSize + n.out
    BY <1>2, <2>2, <2>3, <2>4, TextFacts
  <2>7. w[s] = Text(s) /\ s \in L
    BY <1>3, <2>2 DEF TextWriter, TextsUpTo
  <2>8. ASSUME NEW v \in String, At(b, r.p, w[v]), Len(b) <= MaxBytes \/ v \in L
        PROVE  s = v
    <3>1. /\ w[v] = Text(v) /\ Len(v) \in Nat
          /\ At(b, r.p, Number(Len(v), LengthSize)) /\ At(b, n.p, v)
      BY <1>2, <2>3, <2>8, TextFacts DEF TextWriter
    <3>2. Len(v) <= MaxBytes
      BY <1>2, <2>8, <3>1, SizeFacts DEF At, TextsUpTo
    <3>3. Len(v) \in Word(LengthSize)
      BY <3>1, <3>2, SizeFacts, WordBelow
    <3>4. n.out = Len(v)
      BY <1>2, <2>3, <3>1, <3>3, NumberAtOf
    <3> QED BY <2>2, <3>1, <3>4, AtSame
  <2> HIDE DEF x, w, L
  <2>9. x.p = r.p + Len(w[s])
    BY <1>2, <2>3, <2>5, <2>6, <2>7
  <2>10. Reads(b, r, x, s, w, String, L)
    BY <2>2, <2>3, <2>5, <2>6, <2>7, <2>8, <2>9 DEF Reads
  <2> QED BY <2>5, <2>10 DEF x, w, L
<1>4. CASE ~fits
  <2>1. x = [n EXCEPT !.ok = FALSE, !.out = <<>>]
    <3>1. ~n.ok \/ n.out > max \/ n.out > Len(b) - n.p
      BY <1>2, <1>4
    <3> QED BY <3>1, Zenon DEF ReadText, Fail
  <2>2. ASSUME NEW v \in String, r.ok, At(b, r.p, w[v]), v \in L
        PROVE  FALSE
    <3>1. /\ w[v] = Text(v) /\ Len(v) \in Nat
          /\ At(b, r.p, Number(Len(v), LengthSize)) /\ At(b, r.p + LengthSize, v)
      BY <1>2, <2>2, TextFacts DEF TextWriter
    <3>2. Len(v) <= max /\ Len(v) <= MaxBytes
      BY <2>2, <3>1, SizeFacts DEF TextsUpTo
    <3>3. Len(v) \in Word(LengthSize)
      BY <3>1, <3>2, SizeFacts, WordBelow
    <3>4. (r.p + LengthSize) + Len(v) <= Len(b)
      BY <3>1 DEF At
    <3>5. n.ok /\ n.p = r.p + LengthSize
      BY <1>1, <1>2, <2>2, <3>1, <3>4
    <3>6. n.out = Len(v)
      BY <1>1, <1>2, <3>1, <3>3, <3>5, NumberAtOf
    <3> HIDE DEF n
    <3> QED BY <1>4, <3>2, <3>4, <3>5, <3>6
  <2> HIDE DEF n
  <2>3. x = [p |-> n.p, ok |-> FALSE, out |-> <<>>]
    BY <1>2, <2>1
  <2>4. x \in Cursor(String) /\ ~x.ok /\ x.out = <<>> /\ x.out \in String
    BY <1>2, <2>3 DEF Cursor, String
  <2> HIDE DEF x, w, L
  <2>5. Reads(b, r, x, x.out, w, String, L)
    BY <2>2, <2>4 DEF Reads
  <2> QED BY <2>4, <2>5 DEF x, w, L
<1> QED BY <1>3, <1>4

-----------------------------------------------------------------------------
(* One reader after the other, and what is made of what was read.          *)

Both(w1, w2, V1, V2) == [v \in V1 \X V2 |-> w1[v[1]] \o w2[v[2]]]

LEMMA BothReads ==
  ASSUME NEW b \in String, NEW S, NEW r \in Cursor(S),
         NEW S1, NEW x1 \in Cursor(S1), NEW S2, NEW x2 \in Cursor(S2),
         NEW V1, NEW V2, NEW w1 \in [V1 -> String], NEW w2 \in [V2 -> String],
         NEW L1, NEW L2, NEW o1, NEW o2,
         Reads(b, r, x1, o1, w1, V1, L1), Reads(b, x1, x2, o2, w2, V2, L2)
  PROVE  /\ Both(w1, w2, V1, V2) \in [V1 \X V2 -> String]
         /\ Reads(b, r, x2, <<o1, o2>>, Both(w1, w2, V1, V2),
                  V1 \X V2, L1 \X L2)
<1> DEFINE w == Both(w1, w2, V1, V2)
<1>1. r.p \in Nat /\ x1.p \in Nat /\ x1.ok \in BOOLEAN /\ x2.ok \in BOOLEAN
  BY DEF Cursor
<1>2. ASSUME NEW u1 \in V1, NEW u2 \in V2
      PROVE  /\ w[<<u1, u2>>] = w1[u1] \o w2[u2] /\ w[<<u1, u2>>] \in String
             /\ Len(w[<<u1, u2>>]) = Len(w1[u1]) + Len(w2[u2])
             /\ At(b, r.p, w[<<u1, u2>>]) <=>
                  At(b, r.p, w1[u1]) /\ At(b, r.p + Len(w1[u1]), w2[u2])
  <2>1. w[<<u1, u2>>] = w1[u1] \o w2[u2]
    BY DEF Both
  <2>2. w1[u1] \in String /\ w2[u2] \in String
    OBVIOUS
  <2> QED BY <1>1, <2>1, <2>2, AtCat
<1>3. w \in [V1 \X V2 -> String]
  BY <1>2 DEF Both
<1> HIDE DEF w
<1>4. /\ o1 \in V1
      /\ x1.ok => r.ok /\ o1 \in L1 /\ At(b, r.p, w1[o1]) /\ x1.p = r.p + Len(w1[o1])
      /\ \A v \in V1 : r.ok /\ At(b, r.p, w1[v]) /\ (Len(b) <= MaxBytes \/ v \in L1)
           => (v \in L1 => x1.ok) /\ (x1.ok => o1 = v)
  BY DEF Reads
<1>5. /\ o2 \in V2
      /\ x2.ok => x1.ok /\ o2 \in L2 /\ At(b, x1.p, w2[o2]) /\ x2.p = x1.p + Len(w2[o2])
      /\ \A v \in V2 : x1.ok /\ At(b, x1.p, w2[v]) /\ (Len(b) <= MaxBytes \/ v \in L2)
           => (v \in L2 => x2.ok) /\ (x2.ok => o2 = v)
  BY DEF Reads
<1> DEFINE o == <<o1, o2>>
<1>6. o \in V1 \X V2
  BY <1>4, <1>5
<1>7. ASSUME x2.ok
      PROVE  /\ r.ok /\ o \in L1 \X L2 /\ At(b, r.p, w[o])
             /\ x2.p = r.p + Len(w[o])
  <2>1. /\ x1.ok /\ r.ok /\ o1 \in L1 /\ o2 \in L2 /\ At(b, r.p, w1[o1])
        /\ At(b, r.p + Len(w1[o1]), w2[o2])
        /\ x2.p = (r.p + Len(w1[o1])) + Len(w2[o2])
    BY <1>4, <1>5, <1>7
  <2>2. Len(w1[o1]) \in Nat /\ Len(w2[o2]) \in Nat
    BY <1>4, <1>5 DEF String
  <2>3. At(b, r.p, w[o]) /\ Len(w[o]) = Len(w1[o1]) + Len(w2[o2])
    BY <1>2, <1>4, <1>5, <2>1
  <2>4. o \in L1 \X L2
    BY <2>1
  <2>5. x2.p = r.p + Len(w[o])
    <3> DEFINE m1 == Len(w1[o1])
               m2 == Len(w2[o2])
    <3> HIDE DEF m1, m2, o
    <3>1. /\ m1 \in Nat /\ m2 \in Nat /\ Len(w[o]) = m1 + m2
          /\ x2.p = (r.p + m1) + m2
      BY <2>1, <2>2, <2>3 DEF m1, m2
    <3> QED BY <1>1, <3>1
  <2> QED BY <2>1, <2>3, <2>4, <2>5
<1>8. ASSUME NEW v \in V1 \X V2, r.ok, At(b, r.p, w[v]),
             Len(b) <= MaxBytes \/ v \in L1 \X L2
      PROVE  (v \in L1 \X L2 => x2.ok) /\ (x2.ok => o = v)
  <2> DEFINE v1 == v[1]
             v2 == v[2]
  <2>1. /\ v1 \in V1 /\ v2 \in V2 /\ v = <<v1, v2>>
        /\ v \in L1 \X L2 => v1 \in L1 /\ v2 \in L2
    OBVIOUS
  <2> HIDE DEF v1, v2
  <2>2. At(b, r.p, w1[v1]) /\ At(b, r.p + Len(w1[v1]), w2[v2])
    BY <1>2, <1>8, <2>1
  <2>3. (v1 \in L1 => x1.ok) /\ (x1.ok => o1 = v1)
    BY <1>4, <1>8, <2>1, <2>2
  <2>4. x1.ok => (v2 \in L2 => x2.ok) /\ (x2.ok => o2 = v2)
    BY <1>4, <1>5, <1>8, <2>1, <2>2, <2>3
  <2> QED BY <1>5, <2>1, <2>3, <2>4
<1> HIDE DEF o
<1>9. Reads(b, r, x2, o, w, V1 \X V2, L1 \X L2)
  BY <1>6, <1>7, <1>8 DEF Reads
<1> QED BY <1>3, <1>9 DEF o, w

(* f takes what the program keeps, u in U, to what is read, in V.          *)
Image(f, z, U, M, w, V, L) ==
  /\ f \in [U -> V]
  /\ \A u, v \in U : f[u] = f[v] => u = v
  /\ \A u \in U : z[u] = w[f[u]] /\ (u \in M <=> f[u] \in L)

LEMMA ImageReads ==
  ASSUME NEW b, NEW r, NEW x, NEW o, NEW w, NEW V, NEW L,
         Reads(b, r, x, o, w, V, L),
         NEW f, NEW z, NEW U, NEW M, Image(f, z, U, M, w, V, L),
         NEW e \in U, f[e] = o,
         NEW y, y.p = x.p, y.ok = x.ok
  PROVE  Reads(b, r, y, e, z, U, M)
<1>0. /\ f \in [U -> V]
      /\ \A u, v \in U : f[u] = f[v] => u = v
      /\ \A u \in U : z[u] = w[f[u]]
      /\ \A u \in U : u \in M <=> f[u] \in L
  BY DEF Image
<1>1. /\ x.ok => r.ok /\ o \in L /\ At(b, r.p, w[o]) /\ x.p = r.p + Len(w[o])
      /\ \A v \in V : r.ok /\ At(b, r.p, w[v]) /\ (Len(b) <= MaxBytes \/ v \in L)
           => (v \in L => x.ok) /\ (x.ok => o = v)
  BY DEF Reads
<1>2. x.ok => /\ r.ok /\ e \in M /\ At(b, r.p, z[e]) /\ y.p = r.p + Len(z[e])
  BY <1>0, <1>1
<1>3. ASSUME NEW u \in U, r.ok, At(b, r.p, z[u]), Len(b) <= MaxBytes \/ u \in M
      PROVE  (u \in M => x.ok) /\ (x.ok => e = u)
  <2>1. f[u] \in V /\ At(b, r.p, w[f[u]]) /\ (Len(b) <= MaxBytes \/ f[u] \in L)
    BY <1>0, <1>3
  <2>2. (f[u] \in L => x.ok) /\ (x.ok => o = f[u])
    BY <1>1, <1>3, <2>1
  <2> QED BY <1>0, <2>2
<1> QED BY <1>2, <1>3 DEF Reads

-----------------------------------------------------------------------------
(* Lists.                                                                  *)

(* The first k of the sequences, one after the other.                      *)
Heads(F, ss) ==
  F[0] = <<>> /\ \A k \in 1..Len(ss) : F[k] = F[k-1] \o ss[k]

LEMMA FlattenFacts ==
  ASSUME NEW ss \in Seq(String)
  PROVE  \E F \in [0..Len(ss) -> String] :
           Heads(F, ss) /\ FlattenSeq(ss) = F[Len(ss)]
<1> DEFINE n == Len(ss)
           G == [k \in 1..n |-> [u \in String |-> u \o ss[k]]]
<1>1. n \in Nat /\ \A k \in 1..n : ss[k] \in String
  OBVIOUS
<1>2. \A u \in String, v \in String : u \o v \in String
  BY DEF String
<1>3. <<>> \in String
  BY DEF String
<1> HIDE DEF n
<1>4. G \in [1..n -> [String -> String]]
  BY <1>1, <1>2
<1>5. \A k \in 1..n, u \in String : G[k][u] = u \o ss[k]
  OBVIOUS
<1> HIDE DEF G
<1>6. PICK F \in [0..n -> String] : Iterates(F, <<>>, n, G)
  BY <1>1, <1>3, <1>4, Iteration
<1>7. ASSUME NEW k \in 1..n PROVE F[k] = F[k-1] \o ss[k]
  <2>1. k - 1 \in 0..n
    BY <1>1
  <2> QED BY <1>5, <1>6, <2>1 DEF Iterates
<1>8. Heads(F, ss)
  BY <1>6, <1>7 DEF Heads, Iterates, n
<1>9. FlattenSeq(ss) = F[n]
  <2>1. CASE n = 0
    <3>1. FlattenSeq(ss) = ss
      BY <2>1 DEF FlattenSeq, n
    <3>2. ss = <<>>
      BY <2>1 DEF n
    <3> QED BY <1>6, <2>1, <3>1, <3>2 DEF Iterates
  <2>2. CASE n # 0
    <3> DEFINE f0 == [i \in 1..n |-> F[i]]
               f == CHOOSE f :
                      f = [i \in 1..n |-> IF i = 1 THEN ss[i] ELSE f[i-1] \o ss[i]]
    <3>1. F[1] = ss[1]
      <4>1. 1 \in 1..n /\ F[1] = F[0] \o ss[1]
        <5>1. 1 \in 1..n /\ 1 - 1 = 0
          BY <1>1, <2>2
        <5> QED BY <1>7, <5>1
      <4>2. F[0] = <<>>
        BY <1>6 DEF Iterates
      <4> QED BY <1>1, <4>1, <4>2 DEF String
    <3>2. f0 = [i \in 1..n |-> IF i = 1 THEN ss[i] ELSE f0[i-1] \o ss[i]]
      <4>1. ASSUME NEW i \in 1..n, i # 1 PROVE F[i] = f0[i-1] \o ss[i]
        <5>1. i - 1 \in 1..n
          BY <1>1, <4>1
        <5> QED BY <1>7, <5>1
      <4> QED BY <3>1, <4>1
    <3> HIDE DEF f0
    <3>3. f = [i \in 1..n |-> IF i = 1 THEN ss[i] ELSE f[i-1] \o ss[i]]
      BY <3>2, Zenon
    <3>4. FlattenSeq(ss) = f[n]
      BY <2>2, Zenon DEF FlattenSeq, n
    <3> HIDE DEF f
    <3> DEFINE T == {k \in Nat : k \in 1..n => f[k] = F[k]}
    <3>5. 0 \in T
      OBVIOUS
    <3>6. ASSUME NEW k \in Nat, k \in T PROVE k + 1 \in T
      <4>1. CASE k + 1 \in 1..n /\ k # 0
        <5>1. k \in 1..n /\ (k + 1) - 1 = k /\ k + 1 # 1
          BY <1>1, <4>1
        <5>2. f[k] = F[k] /\ f[k + 1] = f[k] \o ss[k + 1]
          BY <3>3, <3>6, <4>1, <5>1
        <5>3. F[k + 1] = F[k] \o ss[k + 1]
          BY <1>7, <4>1, <5>1
        <5>4. f[k + 1] = F[k + 1]
          BY <5>2, <5>3, Zenon
        <5> QED BY <5>4
      <4>2. CASE k = 0
        <5>1. 1 \in 1..n /\ f[1] = ss[1]
          BY <1>1, <2>2, <3>3
        <5> QED BY <3>1, <4>2, <5>1
      <4>3. CASE k + 1 \notin 1..n
        BY <4>3
      <4> QED BY <4>1, <4>2, <4>3
    <3> HIDE DEF T
    <3>7. n \in T
      BY <1>1, <3>5, <3>6, Induction
    <3>8. f[n] = F[n]
      BY <1>1, <2>2, <3>7 DEF T
    <3> QED BY <3>4, <3>8
  <2> QED BY <2>1, <2>2
<1> QED BY <1>8, <1>9 DEF n

(* Only one function is that of the prefixes, and it looks no further.     *)
LEMMA HeadsSame ==
  ASSUME NEW ss \in Seq(String), NEW tt \in Seq(String), NEW F, NEW H,
         Heads(F, ss), Heads(H, tt), Len(ss) <= Len(tt),
         \A i \in 1..Len(ss) : ss[i] = tt[i]
  PROVE  F[Len(ss)] = H[Len(ss)]
<1> DEFINE n == Len(ss)
           T == {k \in Nat : k \in 0..n => F[k] = H[k]}
<1>1. n \in Nat /\ n = Len(ss) /\ Len(tt) \in Nat /\ n <= Len(tt)
  OBVIOUS
<1> HIDE DEF n
<1>2. 0 \in T
  BY DEF Heads
<1>3. ASSUME NEW k \in Nat, k \in T PROVE k + 1 \in T
  <2>1. CASE k + 1 \in 1..n
    <3>1. /\ k \in 0..n /\ (k + 1) - 1 = k
          /\ k + 1 \in 1..Len(ss) /\ k + 1 \in 1..Len(tt)
      BY <1>1, <2>1
    <3>2. F[k + 1] = F[k] \o ss[k + 1] /\ H[k + 1] = H[k] \o tt[k + 1]
      BY <3>1 DEF Heads
    <3>3. F[k] = H[k] /\ ss[k + 1] = tt[k + 1]
      BY <1>3, <2>1, <3>1
    <3>4. F[k + 1] = H[k + 1]
      BY <3>2, <3>3, Zenon
    <3> QED BY <3>4
  <2>2. CASE k + 1 \notin 1..n
    BY <1>1, <2>2
  <2> QED BY <2>1, <2>2
<1> HIDE DEF T
<1>4. n \in T
  BY <1>1, <1>2, <1>3, Induction
<1>5. F[n] = H[n]
  BY <1>1, <1>4 DEF T
<1> QED BY <1>1, <1>5

(* What the writer w makes of the elements of s.                           *)
Images(w, s) == [i \in DOMAIN s |-> w[s[i]]]
Flat(w, s) == FlattenSeq(Images(w, s))

LEMMA FlatFacts ==
  ASSUME NEW V, NEW w \in [V -> String], NEW s \in Seq(V)
  PROVE  /\ Images(w, s) \in Seq(String) /\ Len(Images(w, s)) = Len(s)
         /\ \A i \in 1..Len(s) : Images(w, s)[i] = w[s[i]] /\ s[i] \in V
         /\ Flat(w, s) \in String
<1> DEFINE ss == Images(w, s)
<1>1. /\ ss \in Seq(String) /\ Len(ss) = Len(s)
      /\ \A i \in 1..Len(s) : ss[i] = w[s[i]] /\ s[i] \in V
  BY DEF Images
<1> HIDE DEF ss
<1>2. FlattenSeq(ss) \in String
  <2>1. PICK F \in [0..Len(ss) -> String] : FlattenSeq(ss) = F[Len(ss)]
    BY <1>1, FlattenFacts
  <2> QED BY <1>1, <2>1
<1> QED BY <1>1, <1>2 DEF ss, Flat

LEMMA FlatEmpty ==
  ASSUME NEW V, NEW w \in [V -> String]
  PROVE  Flat(w, <<>>) = <<>>
<1>1. <<>> \in Seq(V) /\ Len(<<>>) = 0
  OBVIOUS
<1>2. Images(w, <<>>) \in Seq(String) /\ Len(Images(w, <<>>)) = 0
  BY <1>1, FlatFacts
<1> DEFINE ss == Images(w, <<>>)
<1> HIDE DEF ss
<1>3. ss = <<>> /\ FlattenSeq(ss) = ss
  BY <1>2 DEF FlattenSeq, ss
<1> QED BY <1>3 DEF ss, Flat

LEMMA FlatAppend ==
  ASSUME NEW V, NEW w \in [V -> String], NEW s \in Seq(V), NEW v \in V
  PROVE  Flat(w, Append(s, v)) = Flat(w, s) \o w[v]
<1> DEFINE t == Append(s, v)
           n == Len(s)
           ss == Images(w, s)
           tt == Images(w, t)
<1>1. /\ t \in Seq(V) /\ Len(t) = n + 1 /\ n \in Nat /\ t[n + 1] = v
      /\ \A i \in 1..n : t[i] = s[i]
  OBVIOUS
<1> HIDE DEF t
<1>2. ss \in Seq(String) /\ Len(ss) = n /\ \A i \in 1..n : ss[i] = w[s[i]]
  BY FlatFacts
<1>3. /\ tt \in Seq(String) /\ Len(tt) = n + 1
      /\ \A i \in 1..(n + 1) : tt[i] = w[t[i]]
  <2> HIDE DEF n
  <2> QED BY <1>1, FlatFacts, SMTT(30)
<1>4. Flat(w, s) = FlattenSeq(ss) /\ Flat(w, t) = FlattenSeq(tt)
  BY DEF Flat
<1> HIDE DEF ss, tt, n
<1>5. PICK F \in [0..Len(ss) -> String] : Heads(F, ss) /\ FlattenSeq(ss) = F[Len(ss)]
  BY <1>2, FlattenFacts
<1>6. PICK H \in [0..Len(tt) -> String] : Heads(H, tt) /\ FlattenSeq(tt) = H[Len(tt)]
  BY <1>3, FlattenFacts
<1>7. \A i \in 1..Len(ss) : ss[i] = tt[i]
  BY <1>1, <1>2, <1>3
<1>8. Len(ss) <= Len(tt)
  BY <1>1, <1>2, <1>3
<1>9. F[n] = H[n]
  <2>1. Heads(F, ss) /\ Heads(H, tt) /\ ss \in Seq(String) /\ tt \in Seq(String)
    BY <1>2, <1>3, <1>5, <1>6
  <2>2. F[Len(ss)] = H[Len(ss)]
    BY <1>7, <1>8, <2>1, HeadsSame
  <2> QED BY <1>2, <2>2
<1>10. H[n + 1] = H[n] \o w[v]
  <2>1. n + 1 \in 1..Len(tt) /\ (n + 1) - 1 = n /\ tt[n + 1] = w[v]
    BY <1>1, <1>3
  <2> QED BY <1>6, <2>1 DEF Heads
<1>11. Flat(w, t) = H[n + 1] /\ Flat(w, s) = F[n]
  BY <1>2, <1>3, <1>4, <1>5, <1>6
<1> QED BY <1>9, <1>10, <1>11, Zenon DEF t

(* F[k] is what w makes of the first k elements of s.                      *)
FlatBy(F, w, s) ==
  /\ F[0] = <<>> /\ F[Len(s)] = Flat(w, s)
  /\ \A k \in 1..Len(s) : F[k] = F[k-1] \o w[s[k]]

LEMMA FlatHeads ==
  ASSUME NEW V, NEW w \in [V -> String], NEW s \in Seq(V)
  PROVE  \E F \in [0..Len(s) -> String] : FlatBy(F, w, s)
<1> DEFINE n == Len(s)
           ss == Images(w, s)
<1>1. n \in Nat /\ \A k \in 1..n : s[k] \in V
  OBVIOUS
<1>2. ss \in Seq(String) /\ Len(ss) = n /\ \A i \in 1..n : ss[i] = w[s[i]]
  BY FlatFacts
<1>3. Flat(w, s) = FlattenSeq(ss)
  BY DEF Flat
<1> HIDE DEF ss, n
<1>4. PICK F \in [0..Len(ss) -> String] : Heads(F, ss) /\ FlattenSeq(ss) = F[Len(ss)]
  BY <1>2, FlattenFacts
<1>5. /\ F \in [0..n -> String] /\ F[0] = <<>> /\ F[n] = Flat(w, s)
      /\ \A k \in 1..n : F[k] = F[k-1] \o w[s[k]]
  BY <1>2, <1>3, <1>4 DEF Heads
<1> QED BY <1>5 DEF n, FlatBy

(* When something is written for every element, a list is no longer than   *)
(* its bytes.                                                              *)
LEMMA FlatLength ==
  ASSUME NEW V, NEW w \in [V -> String \ {<<>>}], NEW s \in Seq(V)
  PROVE  Len(s) <= Len(Flat(w, s))
<1> DEFINE n == Len(s)
<1>1. n \in Nat /\ \A k \in 1..n : s[k] \in V
  OBVIOUS
<1>2. w \in [V -> String]
  OBVIOUS
<1>3. PICK F \in [0..Len(s) -> String] : FlatBy(F, w, s)
  BY <1>2, FlatHeads
<1>5. /\ F \in [0..n -> String] /\ F[0] = <<>> /\ F[n] = Flat(w, s)
      /\ \A k \in 1..n : F[k] = F[k-1] \o w[s[k]]
  BY <1>3 DEF FlatBy
<1> HIDE DEF n
<1>6. ASSUME NEW u \in String, NEW v \in V PROVE Len(u \o w[v]) >= Len(u) + 1
  <2>1. w[v] \in Seq(Byte) /\ w[v] # <<>> /\ u \in Seq(Byte)
    BY DEF String
  <2>2. Len(w[v]) >= 1 /\ Len(w[v]) \in Nat /\ Len(u) \in Nat
    BY <2>1
  <2>3. Len(u \o w[v]) = Len(u) + Len(w[v])
    BY <2>1
  <2> QED BY <2>2, <2>3
<1> DEFINE T == {k \in Nat : k \in 0..n => k <= Len(F[k])}
<1>7. 0 \in T
  BY <1>5
<1>8. ASSUME NEW k \in Nat, k \in T PROVE k + 1 \in T
  <2>1. CASE k + 1 \in 1..n
    <3>1. k \in 0..n /\ (k + 1) - 1 = k
      BY <1>1, <2>1
    <3>2. k <= Len(F[k]) /\ F[k] \in String /\ Len(F[k]) \in Nat
      <4>1. k <= Len(F[k])
        BY <1>8, <3>1
      <4>2. F[k] \in String
        BY <1>5, <3>1
      <4> QED BY <4>1, <4>2 DEF String
    <3>3. F[k + 1] = F[k] \o w[s[k + 1]] /\ s[k + 1] \in V
      BY <1>1, <1>5, <2>1, <3>1
    <3>4. Len(F[k + 1]) >= Len(F[k]) + 1
      <4> DEFINE u == F[k]
                 v == s[k + 1]
      <4>1. u \in String /\ v \in V /\ F[k + 1] = u \o w[v]
        BY <3>2, <3>3
      <4> HIDE DEF u, v
      <4>2. Len(u \o w[v]) >= Len(u) + 1
        BY <1>6, <4>1
      <4>3. Len(F[k + 1]) >= Len(u) + 1
        BY <4>1, <4>2
      <4> QED BY <4>3 DEF u
    <3>5. F[k + 1] \in String /\ Len(F[k + 1]) \in Nat
      <4>1. k + 1 \in 0..n
        BY <1>1, <2>1
      <4>2. F[k + 1] \in String
        BY <1>5, <4>1
      <4> QED BY <4>2 DEF String
    <3>6. k + 1 <= Len(F[k + 1])
      BY <3>2, <3>4, <3>5
    <3> QED BY <3>6
  <2>2. CASE k + 1 \notin 1..n
    BY <1>1, <2>2
  <2> QED BY <2>1, <2>2
<1> HIDE DEF T
<1>9. n \in T
  BY <1>1, <1>7, <1>8, Induction
<1>10. n <= Len(F[n])
  BY <1>1, <1>9 DEF T
<1> QED BY <1>5, <1>10 DEF n

FlatAt(b, p, F, w, s, k) ==
  At(b, p + Len(F[k-1]), w[s[k]]) /\ Len(F[k]) = Len(F[k-1]) + Len(w[s[k]])

LEMMA FlatStands ==
  ASSUME NEW b \in String, NEW p \in Nat,
         NEW V, NEW w \in [V -> String], NEW s \in Seq(V),
         NEW F \in [0..Len(s) -> String], FlatBy(F, w, s),
         At(b, p, Flat(w, s))
  PROVE  \A k \in 1..Len(s) : FlatAt(b, p, F, w, s, k)
<1> DEFINE n == Len(s)
           T == {j \in Nat : j \in 0..n => At(b, p, F[n - j])}
<1>1. n \in Nat /\ \A k \in 1..n : w[s[k]] \in String
  OBVIOUS
<1>2. ASSUME NEW k \in 1..n
      PROVE  /\ k \in 0..n /\ k - 1 \in 0..n /\ F[k-1] \in String
             /\ Len(F[k]) = Len(F[k-1]) + Len(w[s[k]])
             /\ At(b, p, F[k]) => At(b, p, F[k-1]) /\ At(b, p + Len(F[k-1]), w[s[k]])
  <2>1. k \in 0..n /\ k - 1 \in 0..n /\ F[k] = F[k-1] \o w[s[k]]
    <3>1. k \in 0..n /\ k - 1 \in 0..n
      BY <1>1
    <3>2. \A j \in 1..n : F[j] = F[j-1] \o w[s[j]]
      BY DEF FlatBy
    <3> QED BY <3>1, <3>2
  <2>2. F[k-1] \in String /\ w[s[k]] \in String
    BY <1>1, <2>1
  <2> QED BY <2>1, <2>2, AtCat
<1> HIDE DEF n
<1>3. 0 \in T
  <2>1. F[n] = Flat(w, s) /\ n - 0 = n
    BY <1>1 DEF n, FlatBy
  <2> QED BY <2>1
<1>4. ASSUME NEW j \in Nat, j \in T PROVE j + 1 \in T
  <2>1. CASE j + 1 \in 1..n
    <3>1. j \in 0..n /\ n - j \in 1..n /\ (n - j) - 1 = n - (j + 1)
      BY <1>1, <2>1
    <3>2. At(b, p, F[n - j])
      BY <1>4, <3>1
    <3>3. At(b, p, F[n - (j + 1)])
      BY <1>2, <3>1, <3>2
    <3> QED BY <3>3
  <2>2. CASE j + 1 \notin 1..n
    BY <1>1, <2>2
  <2> QED BY <2>1, <2>2
<1> HIDE DEF T
<1>5. Nat \subseteq T
  BY <1>3, <1>4, Induction
<1>6. ASSUME NEW k \in 1..n PROVE At(b, p, F[k])
  <2>1. n - k \in Nat /\ n - k \in 0..n /\ n - (n - k) = k
    BY <1>1
  <2>2. n - k \in T
    BY <1>5, <2>1
  <2> QED BY <2>1, <2>2 DEF T
<1> QED BY <1>2, <1>6 DEF n, FlatAt

(* count()                                                                 *)
LEMMA CountReads ==
  ASSUME NEW b \in String, NEW S, NEW r \in Cursor(S), NEW max \in 0..MaxBytes
  PROVE  LET x == ReadCount(b, r, max) IN
         /\ x \in Cursor(0..max)
         /\ Reads(b, r, x, x.out, Numbers(LengthSize), Word(LengthSize), 0..max)
<1> DEFINE n == ReadNumber(b, r, LengthSize)
           x == ReadCount(b, r, max)
           w == Numbers(LengthSize)
           V == Word(LengthSize)
<1>1. n \in Cursor(V) /\ Reads(b, r, n, n.out, w, V, V)
  BY SizeFacts, NumberReads
<1>2. /\ n.p \in Nat /\ n.out \in V /\ n.out \in Nat /\ n.ok \in BOOLEAN
      /\ n = [p |-> n.p, ok |-> n.ok, out |-> n.out]
  BY <1>1 DEF Cursor, Word
<1>3. 0 \in 0..max /\ 0..max \subseteq V
  <2>1. ASSUME NEW m \in 0..max PROVE m \in V
    <3>1. m \in Nat /\ m <= MaxBytes
      BY SizeFacts
    <3> QED BY <3>1, SizeFacts, WordBelow
  <2> QED BY <2>1, SizeFacts
<1>4. x = IF n.out > max THEN [n EXCEPT !.ok = FALSE, !.out = 0] ELSE n
  BY Zenon DEF ReadCount, Fail
<1> HIDE DEF n, x, w, V
<1>5. CASE n.out > max
  <2>1. x = [p |-> n.p, ok |-> FALSE, out |-> 0]
    BY <1>2, <1>4, <1>5
  <2>2. x \in Cursor(0..max) /\ ~x.ok /\ x.out = 0 /\ x.out \in V
    BY <1>2, <1>3, <2>1 DEF Cursor
  <2>3. ASSUME NEW m \in V, r.ok, At(b, r.p, w[m]), m \in 0..max PROVE FALSE
    <3>1. n.out = m
      BY <1>1, <2>3 DEF Reads
    <3> QED BY <1>2, <1>5, <2>3, <3>1
  <2> HIDE DEF x
  <2>4. Reads(b, r, x, x.out, w, V, 0..max)
    BY <2>2, <2>3 DEF Reads
  <2> QED BY <2>2, <2>4 DEF x, w, V
<1>6. CASE ~(n.out > max)
  <2>1. x = n /\ x.out \in 0..max
    BY <1>2, <1>4, <1>6, SizeFacts
  <2>2. x \in Cursor(0..max)
    BY <1>2, <2>1 DEF Cursor
  <2>3. Reads(b, r, n, n.out, w, V, 0..max)
    BY <1>1, <1>3, <2>1 DEF Reads
  <2> QED BY <2>1, <2>2, <2>3 DEF x, w, V
<1> QED BY <1>5, <1>6

(* h is where the loop of ReadList stands, e the element it has just read. *)
Loop(b, n, h, e, w, V, L) ==
  /\ h[0] = [n EXCEPT !.out = <<>>]
  /\ \A k \in 1..n.out : h[k] = [e[k] EXCEPT !.out = Append(h[k-1].out, @)]
  /\ \A k \in 1..n.out : h[k-1] \in Cursor(Seq(V)) =>
       e[k] \in Cursor(V) /\ Reads(b, h[k-1], e[k], e[k].out, w, V, L)

LoopSteps(b, n, h, e, w, V, L) ==
  /\ n.out \in Nat
  /\ h[0].p = n.p /\ h[0].ok = n.ok /\ h[0].out = <<>>
  /\ \A k \in 0..n.out : h[k] \in Cursor(Seq(V)) /\ Len(h[k].out) = k
  /\ \A k \in 1..n.out :
       /\ e[k] \in Cursor(V) /\ Reads(b, h[k-1], e[k], e[k].out, w, V, L)
       /\ h[k].p = e[k].p /\ h[k].ok = e[k].ok
       /\ h[k].out = Append(h[k-1].out, e[k].out)

LEMMA LoopTyped ==
  ASSUME NEW b, NEW n \in Cursor(Nat), NEW h, NEW e, NEW w, NEW V, NEW L,
         Loop(b, n, h, e, w, V, L)
  PROVE  LoopSteps(b, n, h, e, w, V, L)
<1> DEFINE N == n.out
<1>1. N \in Nat /\ n = [p |-> n.p, ok |-> n.ok, out |-> n.out]
      /\ n.p \in Nat /\ n.ok \in BOOLEAN
  BY DEF Cursor
<1>2. h[0] = [p |-> n.p, ok |-> n.ok, out |-> <<>>]
  BY <1>1 DEF Loop
<1>3. ASSUME NEW k \in 1..N, h[k-1] \in Cursor(Seq(V))
      PROVE  /\ e[k] \in Cursor(V) /\ Reads(b, h[k-1], e[k], e[k].out, w, V, L)
             /\ h[k].p = e[k].p /\ h[k].ok = e[k].ok
             /\ h[k].out = Append(h[k-1].out, e[k].out)
             /\ h[k] \in Cursor(Seq(V)) /\ Len(h[k].out) = Len(h[k-1].out) + 1
  <2>1. /\ e[k] \in Cursor(V) /\ Reads(b, h[k-1], e[k], e[k].out, w, V, L)
        /\ h[k] = [e[k] EXCEPT !.out = Append(h[k-1].out, @)]
    BY <1>3 DEF Loop
  <2> DEFINE c == e[k]
             s == h[k-1].out
  <2>2. /\ c = [p |-> c.p, ok |-> c.ok, out |-> c.out]
        /\ c.p \in Nat /\ c.ok \in BOOLEAN /\ c.out \in V /\ s \in Seq(V)
    BY <1>3, <2>1 DEF Cursor
  <2>3. h[k] = [c EXCEPT !.out = Append(s, @)]
    BY <2>1
  <2> HIDE DEF c, s
  <2>4. h[k] = [p |-> c.p, ok |-> c.ok, out |-> Append(s, c.out)]
    BY <2>2, <2>3
  <2>5. Append(s, c.out) \in Seq(V) /\ Len(Append(s, c.out)) = Len(s) + 1
    BY <2>2
  <2>6. h[k].p = c.p /\ h[k].ok = c.ok /\ h[k].out = Append(s, c.out)
    BY <2>4
  <2>7. h[k] \in Cursor(Seq(V))
    BY <2>2, <2>4, <2>5 DEF Cursor
  <2> QED BY <2>1, <2>5, <2>6, <2>7 DEF c, s
<1> HIDE DEF N
<1> DEFINE T == {k \in Nat : k \in 0..N =>
                   h[k] \in Cursor(Seq(V)) /\ Len(h[k].out) = k}
<1>4. 0 \in T
  <2>1. <<>> \in Seq(V) /\ Len(<<>>) = 0
    OBVIOUS
  <2>2. h[0] \in Cursor(Seq(V)) /\ h[0].out = <<>>
    BY <1>1, <1>2, <2>1 DEF Cursor
  <2>3. Len(h[0].out) = 0
    BY <2>1, <2>2
  <2> QED BY <2>2, <2>3
<1>5. ASSUME NEW k \in Nat, k \in T PROVE k + 1 \in T
  <2>1. CASE k + 1 \in 1..N
    <3>1. k \in 0..N /\ (k + 1) - 1 = k
      BY <1>1, <2>1
    <3>2. h[k] \in Cursor(Seq(V)) /\ Len(h[k].out) = k
      BY <1>5, <3>1
    <3>3. h[k + 1] \in Cursor(Seq(V)) /\ Len(h[k + 1].out) = k + 1
      BY <1>3, <2>1, <3>1, <3>2
    <3> QED BY <3>3
  <2>2. CASE k + 1 \notin 1..N
    BY <1>1, <2>2
  <2> QED BY <2>1, <2>2
<1> HIDE DEF T
<1>6. Nat \subseteq T
  BY <1>4, <1>5, Induction
<1>7. ASSUME NEW k \in 0..N PROVE h[k] \in Cursor(Seq(V)) /\ Len(h[k].out) = k
  <2>1. k \in T
    BY <1>6
  <2> QED BY <2>1 DEF T
<1>8. ASSUME NEW k \in 1..N
      PROVE  /\ e[k] \in Cursor(V) /\ Reads(b, h[k-1], e[k], e[k].out, w, V, L)
             /\ h[k].p = e[k].p /\ h[k].ok = e[k].ok
             /\ h[k].out = Append(h[k-1].out, e[k].out)
  <2>1. k - 1 \in 0..N
    BY <1>1
  <2>2. h[k-1] \in Cursor(Seq(V))
    BY <1>7, <2>1
  <2> QED BY <1>3, <2>2
<1>9. h[0].p = n.p /\ h[0].ok = n.ok /\ h[0].out = <<>>
  BY <1>2
<1> QED BY <1>1, <1>7, <1>8, <1>9 DEF N, LoopSteps

(* What the loop has read stands there.                                    *)
LoopGood(b, n, h, w, L, k) ==
  h[k].ok => /\ n.ok /\ \A i \in 1..k : h[k].out[i] \in L
             /\ At(b, n.p, Flat(w, h[k].out))
             /\ h[k].p = n.p + Len(Flat(w, h[k].out))

LEMMA LoopStands ==
  ASSUME NEW b \in String, NEW n \in Cursor(Nat), n.ok => n.p <= Len(b),
         NEW h, NEW e, NEW V, NEW w \in [V -> String], NEW L,
         Loop(b, n, h, e, w, V, L)
  PROVE  \A k \in 0..n.out : LoopGood(b, n, h, w, L, k)
<1> DEFINE N == n.out
           Good(k) == h[k].ok =>
                        /\ n.ok /\ \A i \in 1..k : h[k].out[i] \in L
                        /\ At(b, n.p, Flat(w, h[k].out))
                        /\ h[k].p = n.p + Len(Flat(w, h[k].out))
           T == {k \in Nat : k \in 0..N => Good(k)}
<1>1. /\ N \in Nat
      /\ h[0].p = n.p /\ h[0].ok = n.ok /\ h[0].out = <<>>
      /\ \A k \in 0..N : h[k] \in Cursor(Seq(V)) /\ Len(h[k].out) = k
      /\ \A k \in 1..N :
           /\ e[k] \in Cursor(V) /\ Reads(b, h[k-1], e[k], e[k].out, w, V, L)
           /\ h[k].p = e[k].p /\ h[k].ok = e[k].ok
           /\ h[k].out = Append(h[k-1].out, e[k].out)
  <2>1. LoopSteps(b, n, h, e, w, V, L)
    BY LoopTyped
  <2> QED BY <2>1, Zenon DEF LoopSteps
<1>2. n.p \in Nat /\ Len(b) \in Nat
  BY DEF Cursor, String
<1> HIDE DEF N
<1>3. Good(0)
  <2>1. Flat(w, h[0].out) = <<>>
    BY <1>1, FlatEmpty
  <2>2. n.ok => At(b, n.p, <<>>)
    BY <1>2 DEF At
  <2> QED BY <1>1, <1>2, <2>1, <2>2
<1>4. ASSUME NEW k \in 0..N, k + 1 \in 1..N, Good(k) PROVE Good(k + 1)
  <2> SUFFICES ASSUME h[k + 1].ok
               PROVE  /\ n.ok /\ \A i \in 1..(k + 1) : h[k + 1].out[i] \in L
                      /\ At(b, n.p, Flat(w, h[k + 1].out))
                      /\ h[k + 1].p = n.p + Len(Flat(w, h[k + 1].out))
    OBVIOUS
  <2>1. (k + 1) - 1 = k
    OBVIOUS
  <2> DEFINE c == h[k]
             d == e[k + 1]
             s == c.out
             v == d.out
             z == h[k + 1]
  <2>2. /\ c \in Cursor(Seq(V)) /\ Len(s) = k /\ d \in Cursor(V)
        /\ Reads(b, c, d, v, w, V, L)
        /\ z.p = d.p /\ z.ok = d.ok /\ z.out = Append(s, v)
    BY <1>1, <1>4, <2>1
  <2>3. s \in Seq(V) /\ v \in V /\ c.p \in Nat /\ d.p \in Nat
    BY <2>2 DEF Cursor
  <2>4. z.ok
    OBVIOUS
  <2>5. c.ok => /\ n.ok /\ \A i \in 1..k : s[i] \in L
                /\ At(b, n.p, Flat(w, s)) /\ c.p = n.p + Len(Flat(w, s))
    BY <1>4
  <2> HIDE DEF c, d, s, v, z
  <2>6. c.ok /\ v \in L /\ At(b, c.p, w[v]) /\ d.p = c.p + Len(w[v])
    BY <2>2, <2>4 DEF Reads
  <2>7. Flat(w, s) \in String /\ w[v] \in String
    BY <2>3, FlatFacts
  <2>8. Flat(w, z.out) = Flat(w, s) \o w[v]
    BY <2>2, <2>3, FlatAppend
  <2>9. At(b, n.p, Flat(w, z.out)) /\ Len(Flat(w, z.out)) = Len(Flat(w, s)) + Len(w[v])
    BY <1>2, <2>5, <2>6, <2>7, <2>8, AtCat
  <2>10. z.p = n.p + Len(Flat(w, z.out))
    <3>1. Len(Flat(w, s)) \in Nat /\ Len(w[v]) \in Nat
      BY <2>7 DEF String
    <3>2. z.p = (n.p + Len(Flat(w, s))) + Len(w[v])
      BY <2>2, <2>5, <2>6
    <3> QED BY <1>2, <2>9, <3>1, <3>2
  <2>11. ASSUME NEW i \in 1..(k + 1) PROVE z.out[i] \in L
    <3>1. CASE i = k + 1
      BY <2>2, <2>3, <2>6, <3>1
    <3>2. CASE i # k + 1
      <4>1. i \in 1..k
        BY <3>2
      <4>2. z.out[i] = s[i]
        BY <2>2, <2>3, <4>1
      <4> QED BY <2>5, <2>6, <4>1, <4>2
    <3> QED BY <3>1, <3>2
  <2> QED BY <2>5, <2>6, <2>9, <2>10, <2>11 DEF z
<1> HIDE DEF Good
<1>5. ASSUME NEW k \in Nat, k \in T PROVE k + 1 \in T
  <2>1. CASE k + 1 \in 1..N
    <3>1. k \in 0..N
      BY <1>1, <2>1
    <3>2. Good(k + 1)
      BY <1>4, <1>5, <2>1, <3>1
    <3> QED BY <3>2
  <2>2. CASE k + 1 \notin 1..N
    BY <1>1, <2>2
  <2> QED BY <2>1, <2>2
<1>6. 0 \in T
  BY <1>3
<1> HIDE DEF T
<1>7. Nat \subseteq T
  BY <1>5, <1>6, Induction
<1>8. ASSUME NEW k \in 0..N PROVE Good(k)
  <2>1. k \in T
    BY <1>7
  <2> QED BY <2>1 DEF T
<1> QED BY <1>8 DEF Good, N, LoopGood

(* What stands there is what the loop reads, unless a limit stops it.      *)
LEMMA LoopReads ==
  ASSUME NEW b \in String, NEW n \in Cursor(Nat), n.ok,
         NEW h, NEW e, NEW V, NEW w \in [V -> String], NEW L,
         Loop(b, n, h, e, w, V, L),
         NEW vs \in Seq(V), Len(vs) = n.out, At(b, n.p, Flat(w, vs)),
         Len(b) <= MaxBytes \/ \A i \in 1..n.out : vs[i] \in L
  PROVE  /\ (\A i \in 1..n.out : vs[i] \in L) => h[n.out].ok
         /\ h[n.out].ok => h[n.out].out = vs
<1> DEFINE N == n.out
           lim == \A i \in 1..N : vs[i] \in L
<1>1. /\ N \in Nat
      /\ h[0].p = n.p /\ h[0].ok = n.ok /\ h[0].out = <<>>
      /\ \A k \in 0..N : h[k] \in Cursor(Seq(V)) /\ Len(h[k].out) = k
      /\ \A k \in 1..N :
           /\ e[k] \in Cursor(V) /\ Reads(b, h[k-1], e[k], e[k].out, w, V, L)
           /\ h[k].p = e[k].p /\ h[k].ok = e[k].ok
           /\ h[k].out = Append(h[k-1].out, e[k].out)
  <2>1. LoopSteps(b, n, h, e, w, V, L)
    BY LoopTyped
  <2> QED BY <2>1, Zenon DEF LoopSteps
<1>2. n.p \in Nat /\ Len(b) \in Nat /\ Len(vs) = N /\ \A i \in 1..N : vs[i] \in V
  BY DEF Cursor, String
<1>3. PICK F \in [0..Len(vs) -> String] : FlatBy(F, w, vs)
  BY FlatHeads
<1> HIDE DEF N
<1>4. \A k \in 1..N : /\ At(b, n.p + Len(F[k-1]), w[vs[k]])
                      /\ Len(F[k]) = Len(F[k-1]) + Len(w[vs[k]])
  <2>1. \A k \in 1..Len(vs) : FlatAt(b, n.p, F, w, vs, k)
    BY <1>2, <1>3, FlatStands
  <2> QED BY <1>2, <2>1 DEF FlatAt
<1>5. F \in [0..N -> String]
  BY <1>2, <1>3
<1> DEFINE Same(k) == /\ lim => h[k].ok
                      /\ h[k].ok => /\ h[k].p = n.p + Len(F[k])
                                    /\ \A i \in 1..k : h[k].out[i] = vs[i]
           T == {k \in Nat : k \in 0..N => Same(k)}
<1>6. Same(0)
  <2>1. Len(F[0]) = 0
    BY <1>3 DEF FlatBy
  <2>2. h[0].ok /\ h[0].p = n.p + Len(F[0])
    BY <1>1, <1>2, <2>1
  <2> QED BY <2>2
<1> HIDE DEF lim
<1>7. ASSUME NEW k \in 0..N, k + 1 \in 1..N, Same(k) PROVE Same(k + 1)
  <2>1. (k + 1) - 1 = k
    OBVIOUS
  <2> DEFINE c == h[k]
             d == e[k + 1]
             s == c.out
             v == d.out
             z == h[k + 1]
             u == vs[k + 1]
             m == Len(F[k])
  <2>2. /\ c \in Cursor(Seq(V)) /\ Len(s) = k /\ d \in Cursor(V)
        /\ Reads(b, c, d, v, w, V, L)
        /\ z.p = d.p /\ z.ok = d.ok /\ z.out = Append(s, v)
    BY <1>1, <1>7, <2>1
  <2>3. /\ s \in Seq(V) /\ v \in V /\ c.p \in Nat /\ d.p \in Nat
        /\ c.ok \in BOOLEAN /\ d.ok \in BOOLEAN /\ u \in V
    BY <1>2, <1>7, <2>2 DEF Cursor
  <2>4. At(b, n.p + m, w[u]) /\ Len(F[k + 1]) = m + Len(w[u]) /\ m \in Nat
    <3>1. m \in Nat
      BY <1>5 DEF String
    <3>2. /\ At(b, n.p + Len(F[(k + 1) - 1]), w[vs[k + 1]])
          /\ Len(F[k + 1]) = Len(F[(k + 1) - 1]) + Len(w[vs[k + 1]])
      BY <1>4, <1>7
    <3> QED BY <2>1, <3>1, <3>2, Zenon
  <2>5. /\ lim => c.ok
        /\ c.ok => c.p = n.p + m /\ \A i \in 1..k : s[i] = vs[i]
    BY <1>7
  <2>6. (lim => u \in L) /\ (Len(b) <= MaxBytes \/ lim)
    BY <1>7 DEF lim, N
  <2>7. z.ok <=> h[k + 1].ok
    OBVIOUS
  <2> HIDE DEF c, d, s, v, z, u, m
  <2>8. d.ok => c.ok /\ d.p = c.p + Len(w[v])
    BY <2>2 DEF Reads
  <2>9. c.ok => (u \in L => d.ok) /\ (d.ok => v = u)
    <3> SUFFICES ASSUME c.ok PROVE (u \in L => d.ok) /\ (d.ok => v = u)
      OBVIOUS
    <3>1. At(b, c.p, w[u]) /\ (Len(b) <= MaxBytes \/ u \in L)
      BY <2>4, <2>5, <2>6
    <3> QED BY <2>2, <2>3, <3>1 DEF Reads
  <2>10. lim => z.ok
    BY <2>2, <2>5, <2>6, <2>9
  <2>11. ASSUME z.ok PROVE z.p = n.p + Len(F[k + 1])
    <3>1. z.p = (n.p + m) + Len(w[u])
      BY <2>2, <2>5, <2>8, <2>9, <2>11
    <3>2. Len(w[u]) \in Nat
      BY <2>3 DEF String
    <3> QED BY <1>2, <2>4, <3>1, <3>2
  <2>12. ASSUME z.ok, NEW i \in 1..(k + 1) PROVE z.out[i] = vs[i]
    <3>1. CASE i = k + 1
      BY <2>2, <2>3, <2>8, <2>9, <2>12, <3>1 DEF u
    <3>2. CASE i # k + 1
      <4>1. i \in 1..k
        BY <3>2
      <4>2. z.out[i] = s[i]
        BY <2>2, <2>3, <4>1
      <4> QED BY <2>2, <2>5, <2>8, <2>12, <4>1, <4>2
    <3> QED BY <3>1, <3>2
  <2> QED BY <2>10, <2>11, <2>12 DEF z
<1> HIDE DEF Same
<1>8. 0 \in T
  BY <1>6
<1>9. ASSUME NEW k \in Nat, k \in T PROVE k + 1 \in T
  <2>1. CASE k + 1 \in 1..N
    <3>1. k \in 0..N
      BY <1>1, <2>1
    <3>2. Same(k + 1)
      BY <1>7, <1>9, <2>1, <3>1
    <3> QED BY <3>2
  <2>2. CASE k + 1 \notin 1..N
    BY <1>1, <2>2
  <2> QED BY <2>1, <2>2
<1> HIDE DEF T
<1>10. Nat \subseteq T
  BY <1>8, <1>9, Induction
<1>11. Same(N)
  <2>1. N \in T
    BY <1>1, <1>10
  <2> QED BY <1>1, <2>1 DEF T
<1>12. ASSUME h[N].ok PROVE h[N].out = vs
  <2>1. h[N].out \in Seq(V) /\ Len(h[N].out) = N
    BY <1>1 DEF Cursor
  <2>2. \A i \in 1..N : h[N].out[i] = vs[i]
    BY <1>11, <1>12 DEF Same
  <2> QED BY <1>2, <2>1, <2>2
<1>13. lim => h[N].ok
  BY <1>11 DEF Same
<1> QED BY <1>12, <1>13 DEF N, lim

ListWriter(w, V) ==
  [s \in Seq(V) |-> Number(Len(s), LengthSize) \o Flat(w, s)]
ListUpTo(max, V, L) ==
  {s \in Seq(V) : Len(s) <= max /\ \A i \in 1..Len(s) : s[i] \in L}

LEMMA ListFacts ==
  ASSUME NEW V, NEW w \in [V -> String], NEW s \in Seq(V)
  PROVE  /\ ListWriter(w, V)[s] \in String \ {<<>>}
         /\ Len(ListWriter(w, V)[s]) = LengthSize + Len(Flat(w, s))
         /\ Len(s) \in Nat /\ Flat(w, s) \in String
         /\ Number(Len(s), LengthSize) \in String
         /\ Len(Number(Len(s), LengthSize)) = LengthSize
         /\ \A b \in String, p \in Nat :
              At(b, p, ListWriter(w, V)[s]) <=>
                /\ At(b, p, Number(Len(s), LengthSize))
                /\ At(b, p + LengthSize, Flat(w, s))
<1> DEFINE u == Number(Len(s), LengthSize)
           v == Flat(w, s)
<1>1. Len(s) \in Nat /\ v \in String
  BY FlatFacts
<1>2. u \in String /\ Len(u) = LengthSize
  BY <1>1, SizeFacts, NumberBytes
<1>3. ListWriter(w, V)[s] = u \o v
  BY DEF ListWriter
<1> HIDE DEF u, v
<1>4. Len(v) \in Nat
  BY <1>1 DEF String
<1>5. /\ u \o v \in String /\ Len(u \o v) = LengthSize + Len(v)
      /\ \A b \in String, p \in Nat :
           At(b, p, u \o v) <=> At(b, p, u) /\ At(b, p + LengthSize, v)
  <2>1. 0 \in Nat
    OBVIOUS
  <2>2. <<>> \in String
    BY DEF String
  <2> QED BY <1>1, <1>2, <2>1, <2>2, AtCat
<1>6. u \o v # <<>>
  <2>1. Len(u \o v) >= 1
    BY <1>4, <1>5, SizeFacts
  <2>2. Len(<<>>) = 0
    OBVIOUS
  <2> QED BY <2>1, <2>2
<1> QED BY <1>1, <1>2, <1>3, <1>5, <1>6 DEF u, v

LEMMA ListReads ==
  ASSUME NEW b \in String, NEW S, NEW r \in Cursor(S), NEW max \in 0..MaxBytes,
         NEW V, NEW w \in [V -> String \ {<<>>}], NEW L, NEW n, NEW h, NEW e,
         n = ReadCount(b, r, max), Loop(b, n, h, e, w, V, L)
  PROVE  /\ h[n.out] \in Cursor(Seq(V))
         /\ ListWriter(w, V) \in [Seq(V) -> String \ {<<>>}]
         /\ Reads(b, r, h[n.out], h[n.out].out, ListWriter(w, V), Seq(V),
                  ListUpTo(max, V, L))
<1> DEFINE x == h[n.out]
           o == x.out
           z == ListWriter(w, V)
           M == ListUpTo(max, V, L)
           T == Word(LengthSize)
           c == Numbers(LengthSize)
<1>1. n \in Cursor(0..max) /\ Reads(b, r, n, n.out, c, T, 0..max)
  BY CountReads
<1>2. n \in Cursor(Nat) /\ n.out \in 0..max /\ n.ok \in BOOLEAN
  BY <1>1, SizeFacts DEF Cursor
<1>3. w \in [V -> String]
  OBVIOUS
<1>4. LoopSteps(b, n, h, e, w, V, L)
  BY <1>2, LoopTyped
<1>5. x \in Cursor(Seq(V)) /\ Len(o) = n.out /\ o \in Seq(V) /\ x.p \in Nat
  <2>1. n.out \in 0..n.out
    BY <1>2, SizeFacts
  <2>2. x \in Cursor(Seq(V)) /\ Len(o) = n.out
    BY <1>4, <2>1 DEF LoopSteps
  <2> HIDE DEF x
  <2> QED BY <2>2 DEF Cursor
<1>6. /\ r.p \in Nat /\ Len(b) \in Nat /\ LengthSize \in Nat
      /\ \A m \in T : c[m] = Number(m, LengthSize) /\ m \in Nat
      /\ \A m \in 0..max : m \in T
  <2>1. ASSUME NEW m \in 0..max PROVE m \in T
    <3>1. m \in Nat /\ m <= MaxBytes
      BY SizeFacts
    <3> QED BY <3>1, SizeFacts, WordBelow
  <2> QED BY <2>1, SizeFacts DEF Cursor, String, Numbers, Word
<1>7. z \in [Seq(V) -> String \ {<<>>}]
  <2>1. ASSUME NEW s \in Seq(V) PROVE z[s] \in String \ {<<>>}
    BY <1>3, ListFacts
  <2>2. z = [s \in Seq(V) |-> z[s]]
    BY Zenon DEF ListWriter
  <2> HIDE DEF z
  <2> QED BY <2>1, <2>2
<1>8. ASSUME n.ok
      PROVE  /\ r.ok /\ At(b, r.p, Number(n.out, LengthSize))
             /\ n.p = r.p + LengthSize /\ n.p <= Len(b)
  <2>1. /\ r.ok /\ At(b, r.p, c[n.out]) /\ n.p = r.p + Len(c[n.out])
    BY <1>1, <1>8 DEF Reads
  <2>2. c[n.out] = Number(n.out, LengthSize) /\ n.out \in Nat
    BY <1>2, <1>6
  <2>3. Len(Number(n.out, LengthSize)) = LengthSize
    BY <1>6, <2>2, NumberBytes
  <2> HIDE DEF c
  <2> QED BY <1>6, <2>1, <2>2, <2>3 DEF At
<1>9. ASSUME x.ok
      PROVE  n.ok /\ r.ok /\ o \in M /\ At(b, r.p, z[o]) /\ x.p = r.p + Len(z[o])
  <2>1. n.out \in 0..n.out
    BY <1>2, SizeFacts
  <2>2. /\ n.ok /\ \A i \in 1..n.out : o[i] \in L
        /\ At(b, n.p, Flat(w, o)) /\ x.p = n.p + Len(Flat(w, o))
    <3>1. LoopGood(b, n, h, w, L, n.out)
      BY <1>2, <1>3, <1>8, <2>1, LoopStands
    <3> QED BY <1>9, <3>1 DEF LoopGood
  <2>3. /\ At(b, r.p, z[o]) <=> /\ At(b, r.p, Number(Len(o), LengthSize))
                                /\ At(b, r.p + LengthSize, Flat(w, o))
        /\ Len(z[o]) = LengthSize + Len(Flat(w, o)) /\ Flat(w, o) \in String
    BY <1>3, <1>5, <1>6, ListFacts
  <2>4. At(b, r.p, z[o])
    BY <1>5, <1>8, <2>2, <2>3
  <2>5. x.p = r.p + Len(z[o])
    <3>1. Len(Flat(w, o)) \in Nat
      BY <2>3 DEF String
    <3> DEFINE l == Len(Flat(w, o))
               q == Len(z[o])
    <3>2. x.p = n.p + l /\ n.p = r.p + LengthSize /\ q = LengthSize + l /\ l \in Nat
      BY <1>8, <2>2, <2>3, <3>1
    <3> HIDE DEF l, q, x
    <3> QED BY <1>6, <3>2 DEF q
  <2>6. o \in M
    <3>1. Len(o) <= max
      BY <1>2, <1>5, SizeFacts
    <3> HIDE DEF o
    <3> QED BY <1>5, <2>2, <3>1 DEF ListUpTo
  <2> QED BY <1>8, <2>2, <2>4, <2>5, <2>6
<1>10. ASSUME NEW s \in Seq(V), r.ok, At(b, r.p, z[s]),
              Len(b) <= MaxBytes \/ s \in M
       PROVE  (s \in M => x.ok) /\ (x.ok => o = s)
  <2>1. /\ At(b, r.p, Number(Len(s), LengthSize))
        /\ At(b, r.p + LengthSize, Flat(w, s)) /\ Len(s) \in Nat
        /\ Flat(w, s) \in String
    BY <1>3, <1>6, <1>10, ListFacts
  <2>2. Len(s) <= MaxBytes
    <3>1. CASE s \in M
      BY <2>1, <3>1, SizeFacts DEF ListUpTo
    <3>2. CASE Len(b) <= MaxBytes
      <4>1. Len(s) <= Len(Flat(w, s))
        BY FlatLength
      <4>2. (r.p + LengthSize) + Len(Flat(w, s)) <= Len(b)
        BY <2>1 DEF At
      <4>3. Len(Flat(w, s)) \in Nat
        BY <2>1 DEF String
      <4> QED BY <1>6, <2>1, <3>2, <4>1, <4>2, <4>3, SizeFacts
    <3> QED BY <1>10, <3>1, <3>2
  <2>3. Len(s) \in T
    BY <2>1, <2>2, SizeFacts, WordBelow
  <2>4. s \in M => Len(s) \in 0..max /\ \A i \in 1..Len(s) : s[i] \in L
    BY <2>1, SizeFacts DEF ListUpTo
  <2>5. (Len(s) \in 0..max => n.ok) /\ (n.ok => n.out = Len(s))
    <3>1. At(b, r.p, c[Len(s)])
      BY <1>6, <2>1, <2>3
    <3>2. Len(b) <= MaxBytes \/ Len(s) \in 0..max
      BY <1>10, <2>4
    <3> HIDE DEF c, T
    <3> QED BY <1>1, <1>10, <2>3, <3>1, <3>2 DEF Reads
  <2>6. ASSUME n.ok
        PROVE  (s \in M => x.ok) /\ (x.ok => o = s)
    <3>1. Len(s) = n.out /\ At(b, n.p, Flat(w, s))
      BY <1>8, <2>1, <2>5, <2>6
    <3>2. Len(b) <= MaxBytes \/ \A i \in 1..n.out : s[i] \in L
      BY <1>10, <2>4, <3>1
    <3>3. /\ (\A i \in 1..n.out : s[i] \in L) => x.ok
          /\ x.ok => o = s
      BY <1>2, <1>3, <2>6, <3>1, <3>2, LoopReads
    <3> QED BY <2>4, <3>1, <3>3
  <2>7. x.ok => n.ok
    BY <1>9
  <2> QED BY <2>4, <2>5, <2>6, <2>7
<1> HIDE DEF x, o, z, M
<1>11. Reads(b, r, x, o, z, Seq(V), M)
  BY <1>5, <1>9, <1>10 DEF Reads
<1> QED BY <1>5, <1>7, <1>11 DEF x, o, z, M

(* The loop of ReadList is defined for every reader of one element.        *)
Runs(g, n, rd) ==
  g = [k \in 0..n.out |->
         IF k = 0 THEN [n EXCEPT !.out = <<>>]
         ELSE [rd[g[k-1]] EXCEPT !.out = Append(g[k-1].out, @)]]

LEMMA ListLoop ==
  ASSUME NEW V, NEW n \in Cursor(Nat), NEW rd \in [Cursor(Seq(V)) -> Cursor(V)]
  PROVE  \E g \in [0..n.out -> Cursor(Seq(V))] : Runs(g, n, rd)
<1> DEFINE C == Cursor(Seq(V))
           N == n.out
           Next1(c) == [rd[c] EXCEPT !.out = Append(c.out, @)]
           G == [k \in 1..N |-> [c \in C |-> Next1(c)]]
           x == [n EXCEPT !.out = <<>>]
<1>1. /\ N \in Nat /\ n.p \in Nat /\ n.ok \in BOOLEAN
      /\ n = [p |-> n.p, ok |-> n.ok, out |-> n.out]
  BY DEF Cursor
<1>2. x \in C
  <2>1. x = [p |-> n.p, ok |-> n.ok, out |-> <<>>]
    BY <1>1
  <2>2. <<>> \in Seq(V)
    OBVIOUS
  <2> HIDE DEF x
  <2> QED BY <1>1, <2>1, <2>2 DEF Cursor
<1>3. ASSUME NEW c \in C PROVE Next1(c) \in C
  <2> DEFINE d == rd[c]
             s == c.out
  <2>1. /\ d = [p |-> d.p, ok |-> d.ok, out |-> d.out]
        /\ d.p \in Nat /\ d.ok \in BOOLEAN /\ d.out \in V /\ s \in Seq(V)
    BY DEF Cursor
  <2>2. Next1(c) = [d EXCEPT !.out = Append(s, @)]
    OBVIOUS
  <2> HIDE DEF d, s, Next1
  <2>3. Next1(c) = [p |-> d.p, ok |-> d.ok, out |-> Append(s, d.out)]
    BY <2>1, <2>2
  <2>4. Append(s, d.out) \in Seq(V)
    BY <2>1
  <2> QED BY <2>1, <2>3, <2>4 DEF Cursor
<1> HIDE DEF Next1, N, x, C
<1>4. G \in [1..N -> [C -> C]]
  BY <1>3
<1>5. \A k \in 1..N, c \in C : G[k][c] = Next1(c)
  OBVIOUS
<1> HIDE DEF G
<1>6. PICK g \in [0..N -> C] : Iterates(g, x, N, G)
  BY <1>1, <1>2, <1>4, Iteration
<1>7. ASSUME NEW k \in 1..N PROVE g[k] = Next1(g[k-1])
  <2>1. k - 1 \in 0..N
    BY <1>1
  <2> QED BY <1>5, <1>6, <2>1 DEF Iterates
<1>8. g = [k \in 0..N |-> IF k = 0 THEN x ELSE Next1(g[k-1])]
  <2>1. ASSUME NEW k \in 0..N, k # 0 PROVE k \in 1..N
    BY <1>1, <2>1
  <2>2. g[0] = x
    BY <1>6 DEF Iterates
  <2> QED BY <1>7, <2>1, <2>2
<1>9. g \in [0..n.out -> Cursor(Seq(V))]
  BY DEF N, C
<1> QED BY <1>8, <1>9 DEF N, C, x, Next1, Runs

-----------------------------------------------------------------------------
(* Identifiers and lists of them.                                          *)

Ids == TextsUpTo(MaxText)

LEMMA TextNotEmpty == TextWriter \in [String -> String \ {<<>>}]
<1>1. ASSUME NEW s \in String PROVE Text(s) \in String \ {<<>>}
  <2>1. Text(s) \in String /\ Len(Text(s)) = LengthSize + Len(s) /\ Len(s) \in Nat
    BY TextFacts
  <2>2. Len(<<>>) = 0
    OBVIOUS
  <2> QED BY <2>1, <2>2, SizeFacts
<1> QED BY <1>1 DEF TextWriter

LEMMA IdReads ==
  ASSUME NEW b \in String, NEW S, NEW r \in Cursor(S)
  PROVE  /\ ReadId(b, r) \in Cursor(String)
         /\ Reads(b, r, ReadId(b, r), ReadId(b, r).out, TextWriter, String, Ids)
<1>1. MaxText \in 0..MaxBytes
  BY CodecConstants, SizeFacts
<1> QED BY <1>1, TextReads DEF ReadId, Ids

IdListWriter == ListWriter(TextWriter, String)
IdLists(max) == ListUpTo(max, String, Ids)

LEMMA IdListReads ==
  ASSUME NEW b \in String, NEW S, NEW r \in Cursor(S), NEW max \in 0..MaxBytes
  PROVE  LET x == ReadList(b, r, max, ReadId) IN
         /\ x \in Cursor(Seq(String))
         /\ Reads(b, r, x, x.out, IdListWriter, Seq(String), IdLists(max))
<1> DEFINE n == ReadCount(b, r, max)
           N == n.out
           x == ReadList(b, r, max, ReadId)
           C == Cursor(Seq(String))
           h == CHOOSE h : h = [k \in 0..N |->
                  IF k = 0 THEN [n EXCEPT !.out = <<>>]
                  ELSE [ReadId(b, h[k-1]) EXCEPT !.out = Append(h[k-1].out, @)]]
           rd == [c \in C |-> ReadId(b, c)]
           e == [k \in 1..N |-> ReadId(b, h[k-1])]
<1>1. x = h[N]
  BY Zenon DEF ReadList
<1>2. n \in Cursor(Nat) /\ N \in Nat
  <2>1. n \in Cursor(0..max)
    BY CountReads
  <2> HIDE DEF n
  <2> QED BY <2>1, SizeFacts DEF Cursor
<1> HIDE DEF n, x
<1>3. \A c \in C : ReadId(b, c) \in Cursor(String)
  BY IdReads
<1>4. rd \in [C -> Cursor(String)] /\ \A c \in C : rd[c] = ReadId(b, c)
  BY <1>3
<1>5. h = [k \in 0..N |->
             IF k = 0 THEN [n EXCEPT !.out = <<>>]
             ELSE [ReadId(b, h[k-1]) EXCEPT !.out = Append(h[k-1].out, @)]]
  <2> HIDE DEF rd
  <2>1. PICK g \in [0..N -> C] : Runs(g, n, rd)
    BY <1>2, <1>4, ListLoop
  <2>2. \A k \in 0..N : k # 0 => rd[g[k-1]] = ReadId(b, g[k-1])
    BY <1>2, <1>4
  <2>3. g = [k \in 0..N |->
               IF k = 0 THEN [n EXCEPT !.out = <<>>]
               ELSE [ReadId(b, g[k-1]) EXCEPT !.out = Append(g[k-1].out, @)]]
    BY <2>1, <2>2 DEF Runs
  <2> QED BY <2>3, Zenon
<1> HIDE DEF h, rd
<1>6. Loop(b, n, h, e, TextWriter, String, Ids)
  <2>1. h[0] = [n EXCEPT !.out = <<>>]
    BY <1>2, <1>5
  <2>2. \A k \in 1..N : k \in 0..N /\ k # 0
    BY <1>2
  <2>3. \A k \in 1..N : h[k] = [e[k] EXCEPT !.out = Append(h[k-1].out, @)]
    BY <1>5, <2>2
  <2>4. ASSUME NEW k \in 1..N, h[k-1] \in C
        PROVE  /\ e[k] \in Cursor(String)
               /\ Reads(b, h[k-1], e[k], e[k].out, TextWriter, String, Ids)
    BY <2>4, IdReads
  <2> HIDE DEF e
  <2> QED BY <2>1, <2>3, <2>4 DEF Loop
<1> HIDE DEF e
<1>7. /\ h[N] \in Cursor(Seq(String))
      /\ Reads(b, r, h[N], h[N].out, ListWriter(TextWriter, String), Seq(String),
               ListUpTo(max, String, Ids))
  BY <1>6, TextNotEmpty, ListReads DEF n
<1> QED BY <1>1, <1>7 DEF x, IdListWriter, IdLists

-----------------------------------------------------------------------------
(* Revocation entries.                                                     *)

LEMMA LimitFacts ==
  /\ MaxText \in 0..MaxBytes /\ MaxReason \in 0..MaxBytes
  /\ MaxCredentials \in 0..MaxBytes /\ MaxDevices \in 0..MaxBytes
  /\ MaxRevoked \in 0..MaxBytes /\ SignatureSize \in 0..MaxBytes
BY CodecConstants, SizeFacts

LEMMA WriterFacts ==
  /\ TextWriter \in [String -> String]
  /\ Numbers(NumberSize) \in [Word(NumberSize) -> String]
  /\ Bytes \in [Byte -> String]
  /\ \A s \in String : TextWriter[s] = Text(s)
  /\ \A n \in Word(NumberSize) : Numbers(NumberSize)[n] = Number(n, NumberSize)
  /\ \A x \in Byte : Bytes[x] = <<x>>
<1>1. \A n \in Word(NumberSize) : Number(n, NumberSize) \in String
  BY SizeFacts, NumberBytes DEF Word
<1>2. \A x \in Byte : <<x>> \in String
  BY DEF String
<1>3. TextWriter \in [String -> String]
  BY TextNotEmpty
<1> QED BY <1>1, <1>2, <1>3 DEF TextWriter, Numbers, Bytes

EntryWriter == [e \in EntryType |-> EntryWrite(e)]
EntryLimits ==
  {e \in EntryType : e.credentialId \in Ids /\ e.reason \in TextsUpTo(MaxReason)}

LEMMA EntryReads ==
  ASSUME NEW b \in String, NEW S, NEW r \in Cursor(S)
  PROVE  /\ ReadEntry(b, r) \in Cursor(EntryType)
         /\ Reads(b, r, ReadEntry(b, r), ReadEntry(b, r).out,
                  EntryWriter, EntryType, EntryLimits)
<1> DEFINE
     id == ReadId(b, r)
     at == ReadNumber(b, id, NumberSize)
     reason == ReadText(b, at, MaxReason)
     V2 == String \X Word(NumberSize)
     w2 == Both(TextWriter, Numbers(NumberSize), String, Word(NumberSize))
     L2 == Ids \X Word(NumberSize)
     o2 == <<id.out, at.out>>
     g2(u) == <<u.credentialId, u.revokedAt>>
     V3 == V2 \X String
     w3 == Both(w2, TextWriter, V2, String)
     L3 == L2 \X TextsUpTo(MaxReason)
     o3 == <<o2, reason.out>>
     g3(u) == <<g2(u), u.reason>>
     e == [credentialId |-> id.out, revokedAt |-> at.out, reason |-> reason.out]
     x == ReadEntry(b, r)
     f == [u \in EntryType |-> g3(u)]
<1>1. /\ id \in Cursor(String)
      /\ Reads(b, r, id, id.out, TextWriter, String, Ids)
  BY IdReads
<1>2. /\ at \in Cursor(Word(NumberSize))
      /\ Reads(b, id, at, at.out, Numbers(NumberSize), Word(NumberSize), Word(NumberSize))
  BY <1>1, SizeFacts, NumberReads
<1>3. /\ reason \in Cursor(String)
      /\ Reads(b, at, reason, reason.out, TextWriter, String, TextsUpTo(MaxReason))
  BY <1>2, LimitFacts, TextReads
<1>4. x = [reason EXCEPT !.out = [credentialId |-> id.out,
                                  revokedAt |-> at.out, reason |-> @]]
  BY Zenon DEF ReadEntry
<1>5. /\ Numbers(NumberSize) \in [Word(NumberSize) -> String]
      /\ TextWriter \in [String -> String]
  BY WriterFacts
<1> HIDE DEF id, at, reason, x
<1>6. /\ w2 \in [V2 -> String]
       /\ Reads(b, r, at, o2, w2, V2, L2)
  BY <1>1, <1>2, <1>5, BothReads
<1> HIDE DEF w2, V2, L2, o2
<1>7. /\ w3 \in [V3 -> String]
       /\ Reads(b, r, reason, o3, w3, V3, L3)
  BY <1>2, <1>3, <1>5, <1>6, BothReads
<1> HIDE DEF w3, V3, L3, o3
<1>8. /\ id.out \in String
       /\ at.out \in Word(NumberSize)
       /\ reason.out \in String
  BY <1>1, <1>2, <1>3 DEF Cursor
<1>9. ASSUME NEW u \in EntryType
      PROVE  /\ u.credentialId \in String
             /\ u.revokedAt \in Word(NumberSize)
             /\ u.reason \in String
  BY DEF EntryType
<1>10. e \in EntryType /\ g3(e) = o3
  <2>1. e \in EntryType
    BY <1>8 DEF EntryType
  <2>2. e.credentialId = id.out /\ e.revokedAt = at.out /\ e.reason = reason.out
    OBVIOUS
  <2> HIDE DEF e
  <2> QED BY <2>1, <2>2 DEF o2, o3
<1>11. ASSUME NEW u \in EntryType
      PROVE  /\ g2(u) \in V2
             /\ w2[g2(u)] = TextWriter[u.credentialId] \o Numbers(NumberSize)[u.revokedAt]
             /\ g2(u) \in L2 <=> u.credentialId \in Ids /\ u.revokedAt \in Word(NumberSize)
  <2>1. u.credentialId \in String /\ u.revokedAt \in Word(NumberSize)
    BY <1>9
  <2> QED BY <2>1 DEF V2, w2, L2, Both
<1>12. ASSUME NEW u \in EntryType
      PROVE  /\ g3(u) \in V3
             /\ w3[g3(u)] = w2[g2(u)] \o TextWriter[u.reason]
             /\ g3(u) \in L3 <=> g2(u) \in L2 /\ u.reason \in TextsUpTo(MaxReason)
  <2>1. g2(u) \in V2 /\ u.reason \in String
    BY <1>9, <1>11
  <2> HIDE DEF g2
  <2> QED BY <2>1 DEF V3, w3, L3, Both
<1>13. ASSUME NEW u \in EntryType, NEW v \in EntryType, g3(u) = g3(v) PROVE u = v
  <2>1. /\ u.credentialId = v.credentialId
        /\ u.revokedAt = v.revokedAt
        /\ u.reason = v.reason
    BY <1>13
  <2> QED BY <2>1 DEF EntryType
<1>14. ASSUME NEW u \in EntryType PROVE EntryWriter[u] = w3[g3(u)]
  <2>1. w2[g2(u)] = TextWriter[u.credentialId] \o Numbers(NumberSize)[u.revokedAt]
    BY <1>11
  <2>2. w3[g3(u)] = w2[g2(u)] \o TextWriter[u.reason]
    BY <1>12
  <2> HIDE DEF g2, g3
  <2>3. /\ TextWriter[u.credentialId] = Text(u.credentialId)
        /\ Numbers(NumberSize)[u.revokedAt] = Number(u.revokedAt, NumberSize)
        /\ TextWriter[u.reason] = Text(u.reason)
    BY <1>9, WriterFacts
  <2>4. EntryWriter[u] = EntryWrite(u)
    BY DEF EntryWriter
  <2> QED BY <2>1, <2>2, <2>3, <2>4, Zenon DEF EntryWrite
<1>15. ASSUME NEW u \in EntryType PROVE u \in EntryLimits <=> g3(u) \in L3
  <2>1. g3(u) \in L3 <=> /\ u.credentialId \in Ids
                        /\ u.revokedAt \in Word(NumberSize)
                        /\ u.reason \in TextsUpTo(MaxReason)
    <3> HIDE DEF g2, g3
    <3> QED BY <1>11, <1>12
  <2> HIDE DEF g2, g3
  <2> QED BY <2>1, <1>9 DEF EntryLimits
<1> HIDE DEF g2, g3
<1>16. Image(f, EntryWriter, EntryType, EntryLimits, w3, V3, L3)
  <2>1. f \in [EntryType -> V3] /\ \A u \in EntryType : f[u] = g3(u)
    BY <1>12
  <2> HIDE DEF f
  <2> QED BY <2>1, <1>13, <1>14, <1>15 DEF Image
<1>17. f[e] = o3
  <2> HIDE DEF e
  <2> QED BY <1>10
<1>18. x = [p |-> reason.p, ok |-> reason.ok, out |-> e]
  BY <1>3, <1>4 DEF Cursor
<1> HIDE DEF e, f
<1>19. x.p = reason.p /\ x.ok = reason.ok /\ x.out = e /\ x \in Cursor(EntryType)
  BY <1>3, <1>10, <1>18 DEF Cursor
<1>20. Reads(b, r, x, e, EntryWriter, EntryType, EntryLimits)
  BY <1>7, <1>10, <1>16, <1>17, <1>19, ImageReads
<1> QED BY <1>19, <1>20 DEF x

-----------------------------------------------------------------------------
(* Policy, credentials and the revocation list.                            *)

LEMMA ListIs ==
  ASSUME NEW V, NEW w \in [V -> String], NEW s \in Seq(V)
  PROVE  ListWriter(w, V)[s] = List(Images(w, s))
<1>1. Len(Images(w, s)) = Len(s)
  BY FlatFacts
<1>2. ListWriter(w, V)[s] = Number(Len(s), LengthSize) \o Flat(w, s)
  BY DEF ListWriter
<1> QED BY <1>1, <1>2, Zenon DEF List, Flat

LEMMA IdListIs ==
  /\ IdListWriter \in [Seq(String) -> String]
  /\ \A s \in Seq(String) : IdListWriter[s] = Texts(s)
<1>1. ASSUME NEW s \in Seq(String)
      PROVE  IdListWriter[s] \in String /\ IdListWriter[s] = Texts(s)
  <2>1. [i \in DOMAIN s |-> Text(s[i])] = Images(TextWriter, s)
    <3>1. \A i \in DOMAIN s : TextWriter[s[i]] = Text(s[i])
      BY WriterFacts
    <3> QED BY <3>1 DEF Images
  <2>2. IdListWriter[s] = List(Images(TextWriter, s)) /\ IdListWriter[s] \in String
    BY WriterFacts, ListIs, ListFacts DEF IdListWriter
  <2> QED BY <2>1, <2>2, Zenon DEF Texts
<1>2. IdListWriter = [s \in Seq(String) |-> IdListWriter[s]]
  BY Zenon DEF IdListWriter, ListWriter
<1> QED BY <1>1, <1>2

LEMMA EntryNotEmpty == EntryWriter \in [EntryType -> String \ {<<>>}]
<1>1. ASSUME NEW e \in EntryType PROVE EntryWrite(e) \in String \ {<<>>}
  <2> DEFINE t == Text(e.credentialId)
             n == Number(e.revokedAt, NumberSize)
             u == Text(e.reason)
  <2>1. e.credentialId \in String /\ e.revokedAt \in Nat /\ e.reason \in String
    BY DEF EntryType, Word
  <2>2. t \in String \ {<<>>} /\ u \in String
    <3>1. TextWriter[e.credentialId] = t /\ TextWriter[e.reason] = u
      BY <2>1, WriterFacts
    <3> HIDE DEF t, u
    <3> QED BY <2>1, <3>1, TextNotEmpty
  <2>3. n \in String
    BY <2>1, SizeFacts, NumberBytes
  <2>4. EntryWrite(e) = (t \o n) \o u
    BY Zenon DEF EntryWrite
  <2> HIDE DEF t, n, u
  <2>5. (t \o n) \o u \in Seq(Byte) /\ Len((t \o n) \o u) = (Len(t) + Len(n)) + Len(u)
        /\ Len(t) \in Nat /\ Len(n) \in Nat /\ Len(u) \in Nat
    BY <2>2, <2>3 DEF String
  <2>6. Len(t) # 0
    BY <2>2 DEF String
  <2>7. (t \o n) \o u # <<>>
    BY <2>5, <2>6
  <2> QED BY <2>4, <2>5, <2>7 DEF String
<1> QED BY <1>1 DEF EntryWriter

EntryListWriter == ListWriter(EntryWriter, EntryType)
EntryLists(max) == ListUpTo(max, EntryType, EntryLimits)

LEMMA EntryListReads ==
  ASSUME NEW b \in String, NEW S, NEW r \in Cursor(S), NEW max \in 0..MaxBytes
  PROVE  LET x == ReadList(b, r, max, ReadEntry) IN
         /\ x \in Cursor(Seq(EntryType))
         /\ Reads(b, r, x, x.out, EntryListWriter, Seq(EntryType), EntryLists(max))
<1> DEFINE n == ReadCount(b, r, max)
           N == n.out
           x == ReadList(b, r, max, ReadEntry)
           C == Cursor(Seq(EntryType))
           h == CHOOSE h : h = [k \in 0..N |->
                  IF k = 0 THEN [n EXCEPT !.out = <<>>]
                  ELSE [ReadEntry(b, h[k-1]) EXCEPT !.out = Append(h[k-1].out, @)]]
           rd == [c \in C |-> ReadEntry(b, c)]
           e == [k \in 1..N |-> ReadEntry(b, h[k-1])]
<1>1. x = h[N]
  BY Zenon DEF ReadList
<1>2. n \in Cursor(Nat) /\ N \in Nat
  <2>1. n \in Cursor(0..max)
    BY CountReads
  <2> HIDE DEF n
  <2> QED BY <2>1, SizeFacts DEF Cursor
<1> HIDE DEF n, x
<1>3. \A c \in C : ReadEntry(b, c) \in Cursor(EntryType)
  BY EntryReads
<1>4. rd \in [C -> Cursor(EntryType)] /\ \A c \in C : rd[c] = ReadEntry(b, c)
  BY <1>3
<1>5. h = [k \in 0..N |->
             IF k = 0 THEN [n EXCEPT !.out = <<>>]
             ELSE [ReadEntry(b, h[k-1]) EXCEPT !.out = Append(h[k-1].out, @)]]
  <2> HIDE DEF rd
  <2>1. PICK g \in [0..N -> C] : Runs(g, n, rd)
    BY <1>2, <1>4, ListLoop
  <2>2. \A k \in 0..N : k # 0 => rd[g[k-1]] = ReadEntry(b, g[k-1])
    BY <1>2, <1>4
  <2>3. g = [k \in 0..N |->
               IF k = 0 THEN [n EXCEPT !.out = <<>>]
               ELSE [ReadEntry(b, g[k-1]) EXCEPT !.out = Append(g[k-1].out, @)]]
    BY <2>1, <2>2 DEF Runs
  <2> QED BY <2>3, Zenon
<1> HIDE DEF h, rd
<1>6. Loop(b, n, h, e, EntryWriter, EntryType, EntryLimits)
  <2>1. h[0] = [n EXCEPT !.out = <<>>]
    BY <1>2, <1>5
  <2>2. \A k \in 1..N : k \in 0..N /\ k # 0
    BY <1>2
  <2>3. \A k \in 1..N : h[k] = [e[k] EXCEPT !.out = Append(h[k-1].out, @)]
    BY <1>5, <2>2
  <2>4. ASSUME NEW k \in 1..N, h[k-1] \in C
        PROVE  /\ e[k] \in Cursor(EntryType)
               /\ Reads(b, h[k-1], e[k], e[k].out, EntryWriter, EntryType, EntryLimits)
    BY <2>4, EntryReads
  <2> HIDE DEF e
  <2> QED BY <2>1, <2>3, <2>4 DEF Loop
<1> HIDE DEF e
<1>7. /\ h[N] \in Cursor(Seq(EntryType))
      /\ Reads(b, r, h[N], h[N].out, ListWriter(EntryWriter, EntryType), Seq(EntryType),
               ListUpTo(max, EntryType, EntryLimits))
  BY <1>6, EntryNotEmpty, ListReads DEF n
<1> QED BY <1>1, <1>7 DEF x, EntryListWriter, EntryLists

PolicyWriter == [p \in PolicyType |-> PolicyWrite(p)]

LEMMA ThreeBytes ==
  ASSUME NEW s \in String, NEW x \in Byte, NEW y \in Byte, NEW z \in Byte
  PROVE  s \o <<x, y, z>> = ((s \o <<x>>) \o <<y>>) \o <<z>>
<1> DEFINE n == Len(s)
           u == s \o <<x>>
           v == u \o <<y>>
           t == v \o <<z>>
           w == s \o <<x, y, z>>
<1>1. s \in Seq(Byte) /\ n \in Nat
  BY DEF String
<1>2. /\ u \in Seq(Byte) /\ Len(u) = n + 1 /\ u[n + 1] = x
      /\ \A i \in 1..n : u[i] = s[i]
  BY <1>1
<1> HIDE DEF u, n
<1>3. /\ v \in Seq(Byte) /\ Len(v) = n + 2 /\ v[n + 1] = x /\ v[n + 2] = y
      /\ \A i \in 1..n : v[i] = s[i]
  BY <1>1, <1>2
<1> HIDE DEF v
<1>4. /\ t \in Seq(Byte) /\ Len(t) = n + 3
      /\ t[n + 1] = x /\ t[n + 2] = y /\ t[n + 3] = z
      /\ \A i \in 1..n : t[i] = s[i]
  BY <1>1, <1>3
<1>5. /\ w \in Seq(Byte) /\ Len(w) = n + 3
      /\ w[n + 1] = x /\ w[n + 2] = y /\ w[n + 3] = z
      /\ \A i \in 1..n : w[i] = s[i]
  BY <1>1 DEF n
<1> HIDE DEF t, w
<1>6. ASSUME NEW i \in 1..(n + 3) PROVE t[i] = w[i]
  <2>1. i \in 1..n \/ i = n + 1 \/ i = n + 2 \/ i = n + 3
    BY <1>1
  <2> QED BY <1>4, <1>5, <2>1
<1>7. t = w
  BY <1>4, <1>5, <1>6
<1> QED BY <1>7 DEF t, v, u, w

LEMMA PolicyReads ==
  ASSUME NEW b \in String, NEW S, NEW r \in Cursor(S)
  PROVE  /\ ReadPolicy(b, r) \in Cursor(PolicyType)
         /\ Reads(b, r, ReadPolicy(b, r), ReadPolicy(b, r).out,
                  PolicyWriter, PolicyType, PolicyType)
<1> DEFINE
     version == ReadNumber(b, r, NumberSize)
     session == ReadNumber(b, version, NumberSize)
     challenge == ReadNumber(b, session, NumberSize)
     binding == ReadNumber(b, challenge, 1)
     mode == ReadNumber(b, binding, 1)
     emergency == ReadNumber(b, mode, 1)
     V2 == Word(NumberSize) \X Word(NumberSize)
     w2 == Both(Numbers(NumberSize), Numbers(NumberSize), Word(NumberSize), Word(NumberSize))
     L2 == Word(NumberSize) \X Word(NumberSize)
     o2 == <<version.out, session.out>>
     g2(u) == <<u.version, u.sessionTimeout>>
     V3 == V2 \X Word(NumberSize)
     w3 == Both(w2, Numbers(NumberSize), V2, Word(NumberSize))
     L3 == L2 \X Word(NumberSize)
     o3 == <<o2, challenge.out>>
     g3(u) == <<g2(u), u.challengeTimeout>>
     V4 == V3 \X Byte
     w4 == Both(w3, Bytes, V3, Byte)
     L4 == L3 \X Byte
     o4 == <<o3, binding.out>>
     g4(u) == <<g3(u), u.bindingMode>>
     V5 == V4 \X Byte
     w5 == Both(w4, Bytes, V4, Byte)
     L5 == L4 \X Byte
     o5 == <<o4, mode.out>>
     g5(u) == <<g4(u), u.mode>>
     V6 == V5 \X Byte
     w6 == Both(w5, Bytes, V5, Byte)
     L6 == L5 \X Byte
     o6 == <<o5, emergency.out>>
     g6(u) == <<g5(u), u.emergencyEnabled>>
     e == [version |-> version.out, sessionTimeout |-> session.out, challengeTimeout |-> challenge.out, bindingMode |-> binding.out, mode |-> mode.out, emergencyEnabled |-> emergency.out]
     x == ReadPolicy(b, r)
     f == [u \in PolicyType |-> g6(u)]
<1>1. /\ version \in Cursor(Word(NumberSize))
      /\ Reads(b, r, version, version.out, Numbers(NumberSize), Word(NumberSize), Word(NumberSize))
  BY SizeFacts, NumberReads
<1>2. /\ session \in Cursor(Word(NumberSize))
      /\ Reads(b, version, session, session.out, Numbers(NumberSize), Word(NumberSize), Word(NumberSize))
  BY <1>1, SizeFacts, NumberReads
<1>3. /\ challenge \in Cursor(Word(NumberSize))
      /\ Reads(b, session, challenge, challenge.out, Numbers(NumberSize), Word(NumberSize), Word(NumberSize))
  BY <1>2, SizeFacts, NumberReads
<1>4. /\ binding \in Cursor(Byte)
      /\ Reads(b, challenge, binding, binding.out, Bytes, Byte, Byte)
  BY <1>3, ByteReads
<1>5. /\ mode \in Cursor(Byte)
      /\ Reads(b, binding, mode, mode.out, Bytes, Byte, Byte)
  BY <1>4, ByteReads
<1>6. /\ emergency \in Cursor(Byte)
      /\ Reads(b, mode, emergency, emergency.out, Bytes, Byte, Byte)
  BY <1>5, ByteReads
<1>7. x = [emergency EXCEPT !.out =
              [version |-> version.out, sessionTimeout |-> session.out,
               challengeTimeout |-> challenge.out, bindingMode |-> binding.out,
               mode |-> mode.out, emergencyEnabled |-> @]]
  BY Zenon DEF ReadPolicy
<1>8. /\ Bytes \in [Byte -> String]
      /\ Numbers(NumberSize) \in [Word(NumberSize) -> String]
  BY WriterFacts
<1> HIDE DEF version, session, challenge, binding, mode, emergency, x
<1>9. /\ w2 \in [V2 -> String]
       /\ Reads(b, r, session, o2, w2, V2, L2)
  BY <1>1, <1>2, <1>8, BothReads
<1> HIDE DEF w2, V2, L2, o2
<1>10. /\ w3 \in [V3 -> String]
       /\ Reads(b, r, challenge, o3, w3, V3, L3)
  BY <1>2, <1>3, <1>8, <1>9, BothReads
<1> HIDE DEF w3, V3, L3, o3
<1>11. /\ w4 \in [V4 -> String]
       /\ Reads(b, r, binding, o4, w4, V4, L4)
  BY <1>3, <1>4, <1>8, <1>10, BothReads
<1> HIDE DEF w4, V4, L4, o4
<1>12. /\ w5 \in [V5 -> String]
       /\ Reads(b, r, mode, o5, w5, V5, L5)
  BY <1>4, <1>5, <1>8, <1>11, BothReads
<1> HIDE DEF w5, V5, L5, o5
<1>13. /\ w6 \in [V6 -> String]
       /\ Reads(b, r, emergency, o6, w6, V6, L6)
  BY <1>5, <1>6, <1>8, <1>12, BothReads
<1> HIDE DEF w6, V6, L6, o6
<1>14. /\ version.out \in Word(NumberSize)
       /\ session.out \in Word(NumberSize)
       /\ challenge.out \in Word(NumberSize)
       /\ binding.out \in Byte
       /\ mode.out \in Byte
       /\ emergency.out \in Byte
  BY <1>1, <1>2, <1>3, <1>4, <1>5, <1>6 DEF Cursor
<1>15. ASSUME NEW u \in PolicyType
      PROVE  /\ u.version \in Word(NumberSize)
             /\ u.sessionTimeout \in Word(NumberSize)
             /\ u.challengeTimeout \in Word(NumberSize)
             /\ u.bindingMode \in Byte
             /\ u.mode \in Byte
             /\ u.emergencyEnabled \in Byte
  BY DEF PolicyType
<1>16. e \in PolicyType /\ g6(e) = o6
  <2>1. e \in PolicyType
    BY <1>14 DEF PolicyType
  <2>2. e.version = version.out /\ e.sessionTimeout = session.out /\ e.challengeTimeout = challenge.out /\ e.bindingMode = binding.out /\ e.mode = mode.out /\ e.emergencyEnabled = emergency.out
    OBVIOUS
  <2> HIDE DEF e
  <2> QED BY <2>1, <2>2 DEF o2, o3, o4, o5, o6
<1>17. ASSUME NEW u \in PolicyType
      PROVE  /\ g2(u) \in V2
             /\ w2[g2(u)] = Numbers(NumberSize)[u.version] \o Numbers(NumberSize)[u.sessionTimeout]
             /\ g2(u) \in L2 <=> u.version \in Word(NumberSize) /\ u.sessionTimeout \in Word(NumberSize)
  <2>1. u.version \in Word(NumberSize) /\ u.sessionTimeout \in Word(NumberSize)
    BY <1>15
  <2> QED BY <2>1 DEF V2, w2, L2, Both
<1>18. ASSUME NEW u \in PolicyType
      PROVE  /\ g3(u) \in V3
             /\ w3[g3(u)] = w2[g2(u)] \o Numbers(NumberSize)[u.challengeTimeout]
             /\ g3(u) \in L3 <=> g2(u) \in L2 /\ u.challengeTimeout \in Word(NumberSize)
  <2>1. g2(u) \in V2 /\ u.challengeTimeout \in Word(NumberSize)
    BY <1>15, <1>17
  <2> HIDE DEF g2
  <2> QED BY <2>1 DEF V3, w3, L3, Both
<1>19. ASSUME NEW u \in PolicyType
      PROVE  /\ g4(u) \in V4
             /\ w4[g4(u)] = w3[g3(u)] \o Bytes[u.bindingMode]
             /\ g4(u) \in L4 <=> g3(u) \in L3 /\ u.bindingMode \in Byte
  <2>1. g3(u) \in V3 /\ u.bindingMode \in Byte
    BY <1>15, <1>18
  <2> HIDE DEF g3
  <2> QED BY <2>1 DEF V4, w4, L4, Both
<1>20. ASSUME NEW u \in PolicyType
      PROVE  /\ g5(u) \in V5
             /\ w5[g5(u)] = w4[g4(u)] \o Bytes[u.mode]
             /\ g5(u) \in L5 <=> g4(u) \in L4 /\ u.mode \in Byte
  <2>1. g4(u) \in V4 /\ u.mode \in Byte
    BY <1>15, <1>19
  <2> HIDE DEF g4
  <2> QED BY <2>1 DEF V5, w5, L5, Both
<1>21. ASSUME NEW u \in PolicyType
      PROVE  /\ g6(u) \in V6
             /\ w6[g6(u)] = w5[g5(u)] \o Bytes[u.emergencyEnabled]
             /\ g6(u) \in L6 <=> g5(u) \in L5 /\ u.emergencyEnabled \in Byte
  <2>1. g5(u) \in V5 /\ u.emergencyEnabled \in Byte
    BY <1>15, <1>20
  <2> HIDE DEF g5
  <2> QED BY <2>1 DEF V6, w6, L6, Both
<1>22. ASSUME NEW u \in PolicyType, NEW v \in PolicyType, g6(u) = g6(v) PROVE u = v
  <2>1. /\ u.version = v.version
        /\ u.sessionTimeout = v.sessionTimeout
        /\ u.challengeTimeout = v.challengeTimeout
        /\ u.bindingMode = v.bindingMode
        /\ u.mode = v.mode
        /\ u.emergencyEnabled = v.emergencyEnabled
    BY <1>22
  <2> QED BY <2>1 DEF PolicyType
<1>23. ASSUME NEW u \in PolicyType PROVE PolicyWriter[u] = w6[g6(u)]
  <2>1. w2[g2(u)] = Numbers(NumberSize)[u.version] \o Numbers(NumberSize)[u.sessionTimeout]
    BY <1>17
  <2>2. w3[g3(u)] = w2[g2(u)] \o Numbers(NumberSize)[u.challengeTimeout]
    BY <1>18
  <2>3. w4[g4(u)] = w3[g3(u)] \o Bytes[u.bindingMode]
    BY <1>19
  <2>4. w5[g5(u)] = w4[g4(u)] \o Bytes[u.mode]
    BY <1>20
  <2>5. w6[g6(u)] = w5[g5(u)] \o Bytes[u.emergencyEnabled]
    BY <1>21
  <2> HIDE DEF g2, g3, g4, g5, g6
  <2> DEFINE a == Number(u.version, NumberSize)
             c == Number(u.sessionTimeout, NumberSize)
             d == Number(u.challengeTimeout, NumberSize)
             s == (a \o c) \o d
  <2>6. /\ Numbers(NumberSize)[u.version] = a
        /\ Numbers(NumberSize)[u.sessionTimeout] = c
        /\ Numbers(NumberSize)[u.challengeTimeout] = d
        /\ Bytes[u.bindingMode] = <<u.bindingMode>> /\ Bytes[u.mode] = <<u.mode>>
        /\ Bytes[u.emergencyEnabled] = <<u.emergencyEnabled>>
    BY <1>15, WriterFacts
  <2>7. a \in String /\ c \in String /\ d \in String
    BY <1>15, <2>6, WriterFacts
  <2>8. PolicyWriter[u] = PolicyWrite(u)
    BY DEF PolicyWriter
  <2>9. PolicyWrite(u) = s \o <<u.bindingMode, u.mode, u.emergencyEnabled>>
    BY Zenon DEF PolicyWrite
  <2> HIDE DEF a, c, d
  <2>10. s \in String
    BY <2>7 DEF String
  <2> HIDE DEF s
  <2>11. PolicyWrite(u)
           = ((s \o <<u.bindingMode>>) \o <<u.mode>>) \o <<u.emergencyEnabled>>
    BY <1>15, <2>9, <2>10, ThreeBytes
  <2>12. w4[g4(u)] = s \o <<u.bindingMode>>
    BY <2>1, <2>2, <2>3, <2>6, Zenon DEF s
  <2> QED BY <2>4, <2>5, <2>6, <2>8, <2>11, <2>12, Zenon
<1>24. ASSUME NEW u \in PolicyType PROVE u \in PolicyType <=> g6(u) \in L6
  <2>1. g6(u) \in L6 <=> /\ u.version \in Word(NumberSize)
                        /\ u.sessionTimeout \in Word(NumberSize)
                        /\ u.challengeTimeout \in Word(NumberSize)
                        /\ u.bindingMode \in Byte
                        /\ u.mode \in Byte
                        /\ u.emergencyEnabled \in Byte
    <3> HIDE DEF g2, g3, g4, g5, g6
    <3> QED BY <1>17, <1>18, <1>19, <1>20, <1>21
  <2> HIDE DEF g2, g3, g4, g5, g6
  <2> QED BY <2>1, <1>15 DEF PolicyType
<1> HIDE DEF g2, g3, g4, g5, g6
<1>25. Image(f, PolicyWriter, PolicyType, PolicyType, w6, V6, L6)
  <2>1. f \in [PolicyType -> V6] /\ \A u \in PolicyType : f[u] = g6(u)
    BY <1>21
  <2> HIDE DEF f
  <2> QED BY <2>1, <1>22, <1>23, <1>24 DEF Image
<1>26. f[e] = o6
  <2> HIDE DEF e
  <2> QED BY <1>16
<1>27. x = [p |-> emergency.p, ok |-> emergency.ok, out |-> e]
  BY <1>6, <1>7 DEF Cursor
<1> HIDE DEF e, f
<1>28. x.p = emergency.p /\ x.ok = emergency.ok /\ x.out = e /\ x \in Cursor(PolicyType)
  BY <1>6, <1>16, <1>27 DEF Cursor
<1>29. Reads(b, r, x, e, PolicyWriter, PolicyType, PolicyType)
  BY <1>13, <1>16, <1>25, <1>26, <1>28, ImageReads
<1> QED BY <1>28, <1>29 DEF x

CredentialWriter == [c \in CredentialType |-> CredentialWrite(c)]
CredentialLimits ==
  {c \in CredentialType :
     /\ c.credentialId \in Ids /\ c.operatorId \in Ids /\ c.keyId \in Ids
     /\ c.allowedDeviceIds \in IdLists(MaxDevices)}

LEMMA CredentialReads ==
  ASSUME NEW b \in String, NEW S, NEW r \in Cursor(S)
  PROVE  /\ ReadCredential(b, r) \in Cursor(CredentialType)
         /\ Reads(b, r, ReadCredential(b, r), ReadCredential(b, r).out,
                  CredentialWriter, CredentialType, CredentialLimits)
<1> DEFINE
     id == ReadId(b, r)
     op == ReadId(b, id)
     key == ReadId(b, op)
     status == ReadNumber(b, key, 1)
     counter == ReadNumber(b, status, NumberSize)
     version == ReadNumber(b, counter, NumberSize)
     devices == ReadList(b, version, MaxDevices, ReadId)
     V2 == String \X String
     w2 == Both(TextWriter, TextWriter, String, String)
     L2 == Ids \X Ids
     o2 == <<id.out, op.out>>
     g2(u) == <<u.credentialId, u.operatorId>>
     V3 == V2 \X String
     w3 == Both(w2, TextWriter, V2, String)
     L3 == L2 \X Ids
     o3 == <<o2, key.out>>
     g3(u) == <<g2(u), u.keyId>>
     V4 == V3 \X Byte
     w4 == Both(w3, Bytes, V3, Byte)
     L4 == L3 \X Byte
     o4 == <<o3, status.out>>
     g4(u) == <<g3(u), u.status>>
     V5 == V4 \X Word(NumberSize)
     w5 == Both(w4, Numbers(NumberSize), V4, Word(NumberSize))
     L5 == L4 \X Word(NumberSize)
     o5 == <<o4, counter.out>>
     g5(u) == <<g4(u), u.counter>>
     V6 == V5 \X Word(NumberSize)
     w6 == Both(w5, Numbers(NumberSize), V5, Word(NumberSize))
     L6 == L5 \X Word(NumberSize)
     o6 == <<o5, version.out>>
     g6(u) == <<g5(u), u.metadataVersion>>
     V7 == V6 \X Seq(String)
     w7 == Both(w6, IdListWriter, V6, Seq(String))
     L7 == L6 \X IdLists(MaxDevices)
     o7 == <<o6, devices.out>>
     g7(u) == <<g6(u), u.allowedDeviceIds>>
     e == [credentialId |-> id.out, operatorId |-> op.out, keyId |-> key.out, status |-> status.out, counter |-> counter.out, metadataVersion |-> version.out, allowedDeviceIds |-> devices.out]
     x == ReadCredential(b, r)
     f == [u \in CredentialType |-> g7(u)]
<1>1. /\ id \in Cursor(String)
      /\ Reads(b, r, id, id.out, TextWriter, String, Ids)
  BY IdReads
<1>2. /\ op \in Cursor(String)
      /\ Reads(b, id, op, op.out, TextWriter, String, Ids)
  BY <1>1, IdReads
<1>3. /\ key \in Cursor(String)
      /\ Reads(b, op, key, key.out, TextWriter, String, Ids)
  BY <1>2, IdReads
<1>4. /\ status \in Cursor(Byte)
      /\ Reads(b, key, status, status.out, Bytes, Byte, Byte)
  BY <1>3, ByteReads
<1>5. /\ counter \in Cursor(Word(NumberSize))
      /\ Reads(b, status, counter, counter.out, Numbers(NumberSize), Word(NumberSize), Word(NumberSize))
  BY <1>4, SizeFacts, NumberReads
<1>6. /\ version \in Cursor(Word(NumberSize))
      /\ Reads(b, counter, version, version.out, Numbers(NumberSize), Word(NumberSize), Word(NumberSize))
  BY <1>5, SizeFacts, NumberReads
<1>7. /\ devices \in Cursor(Seq(String))
      /\ Reads(b, version, devices, devices.out, IdListWriter, Seq(String), IdLists(MaxDevices))
  BY <1>6, LimitFacts, IdListReads
<1>8. x = [devices EXCEPT !.out =
              [credentialId |-> id.out, operatorId |-> op.out, keyId |-> key.out,
               status |-> status.out, counter |-> counter.out,
               metadataVersion |-> version.out, allowedDeviceIds |-> @]]
  BY Zenon DEF ReadCredential
<1>9. /\ Bytes \in [Byte -> String]
      /\ IdListWriter \in [Seq(String) -> String]
      /\ Numbers(NumberSize) \in [Word(NumberSize) -> String]
      /\ TextWriter \in [String -> String]
  BY WriterFacts, IdListIs
<1> HIDE DEF id, op, key, status, counter, version, devices, x
<1>10. /\ w2 \in [V2 -> String]
       /\ Reads(b, r, op, o2, w2, V2, L2)
  BY <1>1, <1>2, <1>9, BothReads
<1> HIDE DEF w2, V2, L2, o2
<1>11. /\ w3 \in [V3 -> String]
       /\ Reads(b, r, key, o3, w3, V3, L3)
  BY <1>2, <1>3, <1>9, <1>10, BothReads
<1> HIDE DEF w3, V3, L3, o3
<1>12. /\ w4 \in [V4 -> String]
       /\ Reads(b, r, status, o4, w4, V4, L4)
  BY <1>3, <1>4, <1>9, <1>11, BothReads
<1> HIDE DEF w4, V4, L4, o4
<1>13. /\ w5 \in [V5 -> String]
       /\ Reads(b, r, counter, o5, w5, V5, L5)
  BY <1>4, <1>5, <1>9, <1>12, BothReads
<1> HIDE DEF w5, V5, L5, o5
<1>14. /\ w6 \in [V6 -> String]
       /\ Reads(b, r, version, o6, w6, V6, L6)
  BY <1>5, <1>6, <1>9, <1>13, BothReads
<1> HIDE DEF w6, V6, L6, o6
<1>15. /\ w7 \in [V7 -> String]
       /\ Reads(b, r, devices, o7, w7, V7, L7)
  BY <1>6, <1>7, <1>9, <1>14, BothReads
<1> HIDE DEF w7, V7, L7, o7
<1>16. /\ id.out \in String
       /\ op.out \in String
       /\ key.out \in String
       /\ status.out \in Byte
       /\ counter.out \in Word(NumberSize)
       /\ version.out \in Word(NumberSize)
       /\ devices.out \in Seq(String)
  BY <1>1, <1>2, <1>3, <1>4, <1>5, <1>6, <1>7 DEF Cursor
<1>17. ASSUME NEW u \in CredentialType
      PROVE  /\ u.credentialId \in String
             /\ u.operatorId \in String
             /\ u.keyId \in String
             /\ u.status \in Byte
             /\ u.counter \in Word(NumberSize)
             /\ u.metadataVersion \in Word(NumberSize)
             /\ u.allowedDeviceIds \in Seq(String)
  BY DEF CredentialType
<1>18. e \in CredentialType /\ g7(e) = o7
  <2>1. e \in CredentialType
    BY <1>16 DEF CredentialType
  <2>2. e.credentialId = id.out /\ e.operatorId = op.out /\ e.keyId = key.out /\ e.status = status.out /\ e.counter = counter.out /\ e.metadataVersion = version.out /\ e.allowedDeviceIds = devices.out
    OBVIOUS
  <2> HIDE DEF e
  <2> QED BY <2>1, <2>2 DEF o2, o3, o4, o5, o6, o7
<1>19. ASSUME NEW u \in CredentialType
      PROVE  /\ g2(u) \in V2
             /\ w2[g2(u)] = TextWriter[u.credentialId] \o TextWriter[u.operatorId]
             /\ g2(u) \in L2 <=> u.credentialId \in Ids /\ u.operatorId \in Ids
  <2>1. u.credentialId \in String /\ u.operatorId \in String
    BY <1>17
  <2> QED BY <2>1 DEF V2, w2, L2, Both
<1>20. ASSUME NEW u \in CredentialType
      PROVE  /\ g3(u) \in V3
             /\ w3[g3(u)] = w2[g2(u)] \o TextWriter[u.keyId]
             /\ g3(u) \in L3 <=> g2(u) \in L2 /\ u.keyId \in Ids
  <2>1. g2(u) \in V2 /\ u.keyId \in String
    BY <1>17, <1>19
  <2> HIDE DEF g2
  <2> QED BY <2>1 DEF V3, w3, L3, Both
<1>21. ASSUME NEW u \in CredentialType
      PROVE  /\ g4(u) \in V4
             /\ w4[g4(u)] = w3[g3(u)] \o Bytes[u.status]
             /\ g4(u) \in L4 <=> g3(u) \in L3 /\ u.status \in Byte
  <2>1. g3(u) \in V3 /\ u.status \in Byte
    BY <1>17, <1>20
  <2> HIDE DEF g3
  <2> QED BY <2>1 DEF V4, w4, L4, Both
<1>22. ASSUME NEW u \in CredentialType
      PROVE  /\ g5(u) \in V5
             /\ w5[g5(u)] = w4[g4(u)] \o Numbers(NumberSize)[u.counter]
             /\ g5(u) \in L5 <=> g4(u) \in L4 /\ u.counter \in Word(NumberSize)
  <2>1. g4(u) \in V4 /\ u.counter \in Word(NumberSize)
    BY <1>17, <1>21
  <2> HIDE DEF g4
  <2> QED BY <2>1 DEF V5, w5, L5, Both
<1>23. ASSUME NEW u \in CredentialType
      PROVE  /\ g6(u) \in V6
             /\ w6[g6(u)] = w5[g5(u)] \o Numbers(NumberSize)[u.metadataVersion]
             /\ g6(u) \in L6 <=> g5(u) \in L5 /\ u.metadataVersion \in Word(NumberSize)
  <2>1. g5(u) \in V5 /\ u.metadataVersion \in Word(NumberSize)
    BY <1>17, <1>22
  <2> HIDE DEF g5
  <2> QED BY <2>1 DEF V6, w6, L6, Both
<1>24. ASSUME NEW u \in CredentialType
      PROVE  /\ g7(u) \in V7
             /\ w7[g7(u)] = w6[g6(u)] \o IdListWriter[u.allowedDeviceIds]
             /\ g7(u) \in L7 <=> g6(u) \in L6 /\ u.allowedDeviceIds \in IdLists(MaxDevices)
  <2>1. g6(u) \in V6 /\ u.allowedDeviceIds \in Seq(String)
    BY <1>17, <1>23
  <2> HIDE DEF g6
  <2> QED BY <2>1 DEF V7, w7, L7, Both
<1>25. ASSUME NEW u \in CredentialType, NEW v \in CredentialType, g7(u) = g7(v) PROVE u = v
  <2>1. /\ u.credentialId = v.credentialId
        /\ u.operatorId = v.operatorId
        /\ u.keyId = v.keyId
        /\ u.status = v.status
        /\ u.counter = v.counter
        /\ u.metadataVersion = v.metadataVersion
        /\ u.allowedDeviceIds = v.allowedDeviceIds
    BY <1>25
  <2> QED BY <2>1 DEF CredentialType
<1>26. ASSUME NEW u \in CredentialType PROVE CredentialWriter[u] = w7[g7(u)]
  <2>1. w2[g2(u)] = TextWriter[u.credentialId] \o TextWriter[u.operatorId]
    BY <1>19
  <2>2. w3[g3(u)] = w2[g2(u)] \o TextWriter[u.keyId]
    BY <1>20
  <2>3. w4[g4(u)] = w3[g3(u)] \o Bytes[u.status]
    BY <1>21
  <2>4. w5[g5(u)] = w4[g4(u)] \o Numbers(NumberSize)[u.counter]
    BY <1>22
  <2>5. w6[g6(u)] = w5[g5(u)] \o Numbers(NumberSize)[u.metadataVersion]
    BY <1>23
  <2>6. w7[g7(u)] = w6[g6(u)] \o IdListWriter[u.allowedDeviceIds]
    BY <1>24
  <2> HIDE DEF g2, g3, g4, g5, g6, g7
  <2>7. /\ TextWriter[u.credentialId] = Text(u.credentialId)
        /\ TextWriter[u.operatorId] = Text(u.operatorId)
        /\ TextWriter[u.keyId] = Text(u.keyId)
        /\ Bytes[u.status] = <<u.status>>
        /\ Numbers(NumberSize)[u.counter] = Number(u.counter, NumberSize)
        /\ Numbers(NumberSize)[u.metadataVersion]
             = Number(u.metadataVersion, NumberSize)
        /\ IdListWriter[u.allowedDeviceIds] = Texts(u.allowedDeviceIds)
    BY <1>17, WriterFacts, IdListIs
  <2>8. CredentialWriter[u] = CredentialWrite(u)
    BY DEF CredentialWriter
  <2> QED BY <2>1, <2>2, <2>3, <2>4, <2>5, <2>6, <2>7, <2>8, Zenon DEF CredentialWrite
<1>27. ASSUME NEW u \in CredentialType PROVE u \in CredentialLimits <=> g7(u) \in L7
  <2>1. g7(u) \in L7 <=> /\ u.credentialId \in Ids
                        /\ u.operatorId \in Ids
                        /\ u.keyId \in Ids
                        /\ u.status \in Byte
                        /\ u.counter \in Word(NumberSize)
                        /\ u.metadataVersion \in Word(NumberSize)
                        /\ u.allowedDeviceIds \in IdLists(MaxDevices)
    <3> HIDE DEF g2, g3, g4, g5, g6, g7
    <3> QED BY <1>19, <1>20, <1>21, <1>22, <1>23, <1>24
  <2> HIDE DEF g2, g3, g4, g5, g6, g7
  <2> QED BY <2>1, <1>17 DEF CredentialLimits
<1> HIDE DEF g2, g3, g4, g5, g6, g7
<1>28. Image(f, CredentialWriter, CredentialType, CredentialLimits, w7, V7, L7)
  <2>1. f \in [CredentialType -> V7] /\ \A u \in CredentialType : f[u] = g7(u)
    BY <1>24
  <2> HIDE DEF f
  <2> QED BY <2>1, <1>25, <1>26, <1>27 DEF Image
<1>29. f[e] = o7
  <2> HIDE DEF e
  <2> QED BY <1>18
<1>30. x = [p |-> devices.p, ok |-> devices.ok, out |-> e]
  BY <1>7, <1>8 DEF Cursor
<1> HIDE DEF e, f
<1>31. x.p = devices.p /\ x.ok = devices.ok /\ x.out = e /\ x \in Cursor(CredentialType)
  BY <1>7, <1>18, <1>30 DEF Cursor
<1>32. Reads(b, r, x, e, CredentialWriter, CredentialType, CredentialLimits)
  BY <1>15, <1>18, <1>28, <1>29, <1>31, ImageReads
<1> QED BY <1>31, <1>32 DEF x

LEMMA NotEmptyCat ==
  ASSUME NEW t \in String \ {<<>>}, NEW u \in String
  PROVE  t \o u \in String \ {<<>>}
<1>1. t \in Seq(Byte) /\ u \in Seq(Byte) /\ t # <<>>
  BY DEF String
<1>2. t \o u \in Seq(Byte) /\ Len(t \o u) = Len(t) + Len(u)
      /\ Len(t) # 0 /\ Len(t) \in Nat /\ Len(u) \in Nat
  BY <1>1
<1>3. t \o u # <<>>
  BY <1>2
<1> QED BY <1>2, <1>3 DEF String

LEMMA CredentialNotEmpty == CredentialWriter \in [CredentialType -> String \ {<<>>}]
<1>1. ASSUME NEW c \in CredentialType
      PROVE  CredentialWrite(c) \in String \ {<<>>}
  <2> DEFINE t1 == Text(c.credentialId)
             t2 == Text(c.operatorId)
             t3 == Text(c.keyId)
             t4 == <<c.status>>
             t5 == Number(c.counter, NumberSize)
             t6 == Number(c.metadataVersion, NumberSize)
             t7 == Texts(c.allowedDeviceIds)
  <2>1. /\ c.credentialId \in String /\ c.operatorId \in String /\ c.keyId \in String
        /\ c.status \in Byte /\ c.counter \in Word(NumberSize)
        /\ c.metadataVersion \in Word(NumberSize)
        /\ c.allowedDeviceIds \in Seq(String)
    BY DEF CredentialType
  <2>2. t1 \in String \ {<<>>}
    <3>1. TextWriter[c.credentialId] = t1
      BY <2>1, WriterFacts
    <3> HIDE DEF t1
    <3> QED BY <2>1, <3>1, TextNotEmpty
  <2>3. t2 \in String /\ t3 \in String /\ t4 \in String
    <3>1. /\ TextWriter[c.operatorId] = t2 /\ TextWriter[c.keyId] = t3
          /\ Bytes[c.status] = t4
      BY <2>1, WriterFacts
    <3> HIDE DEF t2, t3, t4
    <3> QED BY <2>1, <3>1, WriterFacts
  <2>4. t5 \in String /\ t6 \in String /\ t7 \in String
    <3>1. /\ Numbers(NumberSize)[c.counter] = t5
          /\ Numbers(NumberSize)[c.metadataVersion] = t6
          /\ IdListWriter[c.allowedDeviceIds] = t7
      BY <2>1, WriterFacts, IdListIs
    <3> HIDE DEF t5, t6, t7
    <3> QED BY <2>1, <3>1, WriterFacts, IdListIs
  <2>5. CredentialWrite(c) = (((((t1 \o t2) \o t3) \o t4) \o t5) \o t6) \o t7
    BY Zenon DEF CredentialWrite
  <2> HIDE DEF t1, t2, t3, t4, t5, t6, t7
  <2>6. (t1 \o t2) \o t3 \in String \ {<<>>}
    BY <2>2, <2>3, NotEmptyCat
  <2>7. (((t1 \o t2) \o t3) \o t4) \o t5 \in String \ {<<>>}
    BY <2>3, <2>4, <2>6, NotEmptyCat
  <2>8. (((((t1 \o t2) \o t3) \o t4) \o t5) \o t6) \o t7 \in String \ {<<>>}
    BY <2>4, <2>7, NotEmptyCat
  <2> QED BY <2>5, <2>8
<1> QED BY <1>1 DEF CredentialWriter

CredentialListWriter == ListWriter(CredentialWriter, CredentialType)
CredentialLists(max) == ListUpTo(max, CredentialType, CredentialLimits)

LEMMA CredentialListReads ==
  ASSUME NEW b \in String, NEW S, NEW r \in Cursor(S), NEW max \in 0..MaxBytes
  PROVE  LET x == ReadList(b, r, max, ReadCredential) IN
         /\ x \in Cursor(Seq(CredentialType))
         /\ Reads(b, r, x, x.out, CredentialListWriter, Seq(CredentialType), CredentialLists(max))
<1> DEFINE n == ReadCount(b, r, max)
           N == n.out
           x == ReadList(b, r, max, ReadCredential)
           C == Cursor(Seq(CredentialType))
           h == CHOOSE h : h = [k \in 0..N |->
                  IF k = 0 THEN [n EXCEPT !.out = <<>>]
                  ELSE [ReadCredential(b, h[k-1]) EXCEPT !.out = Append(h[k-1].out, @)]]
           rd == [c \in C |-> ReadCredential(b, c)]
           e == [k \in 1..N |-> ReadCredential(b, h[k-1])]
<1>1. x = h[N]
  BY Zenon DEF ReadList
<1>2. n \in Cursor(Nat) /\ N \in Nat
  <2>1. n \in Cursor(0..max)
    BY CountReads
  <2> HIDE DEF n
  <2> QED BY <2>1, SizeFacts DEF Cursor
<1> HIDE DEF n, x
<1>3. \A c \in C : ReadCredential(b, c) \in Cursor(CredentialType)
  BY CredentialReads
<1>4. rd \in [C -> Cursor(CredentialType)] /\ \A c \in C : rd[c] = ReadCredential(b, c)
  BY <1>3
<1>5. h = [k \in 0..N |->
             IF k = 0 THEN [n EXCEPT !.out = <<>>]
             ELSE [ReadCredential(b, h[k-1]) EXCEPT !.out = Append(h[k-1].out, @)]]
  <2> HIDE DEF rd
  <2>1. PICK g \in [0..N -> C] : Runs(g, n, rd)
    BY <1>2, <1>4, ListLoop
  <2>2. \A k \in 0..N : k # 0 => rd[g[k-1]] = ReadCredential(b, g[k-1])
    BY <1>2, <1>4
  <2>3. g = [k \in 0..N |->
               IF k = 0 THEN [n EXCEPT !.out = <<>>]
               ELSE [ReadCredential(b, g[k-1]) EXCEPT !.out = Append(g[k-1].out, @)]]
    BY <2>1, <2>2 DEF Runs
  <2> QED BY <2>3, Zenon
<1> HIDE DEF h, rd
<1>6. Loop(b, n, h, e, CredentialWriter, CredentialType, CredentialLimits)
  <2>1. h[0] = [n EXCEPT !.out = <<>>]
    BY <1>2, <1>5
  <2>2. \A k \in 1..N : k \in 0..N /\ k # 0
    BY <1>2
  <2>3. \A k \in 1..N : h[k] = [e[k] EXCEPT !.out = Append(h[k-1].out, @)]
    BY <1>5, <2>2
  <2>4. ASSUME NEW k \in 1..N, h[k-1] \in C
        PROVE  /\ e[k] \in Cursor(CredentialType)
               /\ Reads(b, h[k-1], e[k], e[k].out, CredentialWriter, CredentialType, CredentialLimits)
    BY <2>4, CredentialReads
  <2> HIDE DEF e
  <2> QED BY <2>1, <2>3, <2>4 DEF Loop
<1> HIDE DEF e
<1>7. /\ h[N] \in Cursor(Seq(CredentialType))
      /\ Reads(b, r, h[N], h[N].out, ListWriter(CredentialWriter, CredentialType), Seq(CredentialType),
               ListUpTo(max, CredentialType, CredentialLimits))
  BY <1>6, CredentialNotEmpty, ListReads DEF n
<1> QED BY <1>1, <1>7 DEF x, CredentialListWriter, CredentialLists

LEMMA EntryListIs ==
  /\ EntryListWriter \in [Seq(EntryType) -> String]
  /\ \A s \in Seq(EntryType) :
       EntryListWriter[s] = List([i \in DOMAIN s |-> EntryWrite(s[i])])
<1>1. EntryWriter \in [EntryType -> String]
  BY EntryNotEmpty
<1>2. ASSUME NEW s \in Seq(EntryType)
      PROVE  /\ EntryListWriter[s] \in String
             /\ EntryListWriter[s] = List([i \in DOMAIN s |-> EntryWrite(s[i])])
  <2>1. [i \in DOMAIN s |-> EntryWrite(s[i])] = Images(EntryWriter, s)
    <3>1. \A i \in DOMAIN s : EntryWriter[s[i]] = EntryWrite(s[i])
      BY DEF EntryWriter
    <3> QED BY <3>1 DEF Images
  <2>2. /\ EntryListWriter[s] = List(Images(EntryWriter, s))
        /\ EntryListWriter[s] \in String
    BY <1>1, ListIs, ListFacts DEF EntryListWriter
  <2> QED BY <2>1, <2>2, Zenon
<1>3. EntryListWriter = [s \in Seq(EntryType) |-> EntryListWriter[s]]
  BY Zenon DEF EntryListWriter, ListWriter
<1> QED BY <1>2, <1>3

LEMMA CredentialListIs ==
  /\ CredentialListWriter \in [Seq(CredentialType) -> String]
  /\ \A s \in Seq(CredentialType) :
       CredentialListWriter[s] = List([i \in DOMAIN s |-> CredentialWrite(s[i])])
<1>1. CredentialWriter \in [CredentialType -> String]
  BY CredentialNotEmpty
<1>2. ASSUME NEW s \in Seq(CredentialType)
      PROVE  /\ CredentialListWriter[s] \in String
             /\ CredentialListWriter[s]
                  = List([i \in DOMAIN s |-> CredentialWrite(s[i])])
  <2>1. [i \in DOMAIN s |-> CredentialWrite(s[i])] = Images(CredentialWriter, s)
    <3>1. \A i \in DOMAIN s : CredentialWriter[s[i]] = CredentialWrite(s[i])
      BY DEF CredentialWriter
    <3> QED BY <3>1 DEF Images
  <2>2. /\ CredentialListWriter[s] = List(Images(CredentialWriter, s))
        /\ CredentialListWriter[s] \in String
    BY <1>1, ListIs, ListFacts DEF CredentialListWriter
  <2> QED BY <2>1, <2>2, Zenon
<1>3. CredentialListWriter = [s \in Seq(CredentialType) |-> CredentialListWriter[s]]
  BY Zenon DEF CredentialListWriter, ListWriter
<1> QED BY <1>2, <1>3

CrlWriter == [l \in CrlType |-> ListWrite(l) \o Text(l.signature)]
CrlLimits ==
  {l \in CrlType : /\ l.entries \in EntryLists(MaxRevoked)
                   /\ l.signature \in TextsUpTo(SignatureSize)}

LEMMA CrlReads ==
  ASSUME NEW b \in String, NEW S, NEW r \in Cursor(S)
  PROVE  /\ ReadCrl(b, r) \in Cursor(CrlType)
         /\ Reads(b, r, ReadCrl(b, r), ReadCrl(b, r).out,
                  CrlWriter, CrlType, CrlLimits)
<1> DEFINE
     version == ReadNumber(b, r, NumberSize)
     issued == ReadNumber(b, version, NumberSize)
     entries == ReadList(b, issued, MaxRevoked, ReadEntry)
     signature == ReadText(b, entries, SignatureSize)
     V2 == Word(NumberSize) \X Word(NumberSize)
     w2 == Both(Numbers(NumberSize), Numbers(NumberSize), Word(NumberSize), Word(NumberSize))
     L2 == Word(NumberSize) \X Word(NumberSize)
     o2 == <<version.out, issued.out>>
     g2(u) == <<u.version, u.issuedAt>>
     V3 == V2 \X Seq(EntryType)
     w3 == Both(w2, EntryListWriter, V2, Seq(EntryType))
     L3 == L2 \X EntryLists(MaxRevoked)
     o3 == <<o2, entries.out>>
     g3(u) == <<g2(u), u.entries>>
     V4 == V3 \X String
     w4 == Both(w3, TextWriter, V3, String)
     L4 == L3 \X TextsUpTo(SignatureSize)
     o4 == <<o3, signature.out>>
     g4(u) == <<g3(u), u.signature>>
     e == [version |-> version.out, issuedAt |-> issued.out, entries |-> entries.out, signature |-> signature.out]
     x == ReadCrl(b, r)
     f == [u \in CrlType |-> g4(u)]
<1>1. /\ version \in Cursor(Word(NumberSize))
      /\ Reads(b, r, version, version.out, Numbers(NumberSize), Word(NumberSize), Word(NumberSize))
  BY SizeFacts, NumberReads
<1>2. /\ issued \in Cursor(Word(NumberSize))
      /\ Reads(b, version, issued, issued.out, Numbers(NumberSize), Word(NumberSize), Word(NumberSize))
  BY <1>1, SizeFacts, NumberReads
<1>3. /\ entries \in Cursor(Seq(EntryType))
      /\ Reads(b, issued, entries, entries.out, EntryListWriter, Seq(EntryType), EntryLists(MaxRevoked))
  BY <1>2, LimitFacts, EntryListReads
<1>4. /\ signature \in Cursor(String)
      /\ Reads(b, entries, signature, signature.out, TextWriter, String, TextsUpTo(SignatureSize))
  BY <1>3, LimitFacts, TextReads
<1>5. x = [signature EXCEPT !.out =
              [version |-> version.out, issuedAt |-> issued.out,
               entries |-> entries.out, signature |-> @]]
  BY Zenon DEF ReadCrl
<1>6. /\ EntryListWriter \in [Seq(EntryType) -> String]
      /\ Numbers(NumberSize) \in [Word(NumberSize) -> String]
      /\ TextWriter \in [String -> String]
  BY WriterFacts, EntryListIs
<1> HIDE DEF version, issued, entries, signature, x
<1>7. /\ w2 \in [V2 -> String]
       /\ Reads(b, r, issued, o2, w2, V2, L2)
  BY <1>1, <1>2, <1>6, BothReads
<1> HIDE DEF w2, V2, L2, o2
<1>8. /\ w3 \in [V3 -> String]
       /\ Reads(b, r, entries, o3, w3, V3, L3)
  BY <1>2, <1>3, <1>6, <1>7, BothReads
<1> HIDE DEF w3, V3, L3, o3
<1>9. /\ w4 \in [V4 -> String]
       /\ Reads(b, r, signature, o4, w4, V4, L4)
  BY <1>3, <1>4, <1>6, <1>8, BothReads
<1> HIDE DEF w4, V4, L4, o4
<1>10. /\ version.out \in Word(NumberSize)
       /\ issued.out \in Word(NumberSize)
       /\ entries.out \in Seq(EntryType)
       /\ signature.out \in String
  BY <1>1, <1>2, <1>3, <1>4 DEF Cursor
<1>11. ASSUME NEW u \in CrlType
      PROVE  /\ u.version \in Word(NumberSize)
             /\ u.issuedAt \in Word(NumberSize)
             /\ u.entries \in Seq(EntryType)
             /\ u.signature \in String
  BY DEF CrlType
<1>12. e \in CrlType /\ g4(e) = o4
  <2>1. e \in CrlType
    BY <1>10 DEF CrlType
  <2>2. e.version = version.out /\ e.issuedAt = issued.out /\ e.entries = entries.out /\ e.signature = signature.out
    OBVIOUS
  <2> HIDE DEF e
  <2> QED BY <2>1, <2>2 DEF o2, o3, o4
<1>13. ASSUME NEW u \in CrlType
      PROVE  /\ g2(u) \in V2
             /\ w2[g2(u)] = Numbers(NumberSize)[u.version] \o Numbers(NumberSize)[u.issuedAt]
             /\ g2(u) \in L2 <=> u.version \in Word(NumberSize) /\ u.issuedAt \in Word(NumberSize)
  <2>1. u.version \in Word(NumberSize) /\ u.issuedAt \in Word(NumberSize)
    BY <1>11
  <2> QED BY <2>1 DEF V2, w2, L2, Both
<1>14. ASSUME NEW u \in CrlType
      PROVE  /\ g3(u) \in V3
             /\ w3[g3(u)] = w2[g2(u)] \o EntryListWriter[u.entries]
             /\ g3(u) \in L3 <=> g2(u) \in L2 /\ u.entries \in EntryLists(MaxRevoked)
  <2>1. g2(u) \in V2 /\ u.entries \in Seq(EntryType)
    BY <1>11, <1>13
  <2> HIDE DEF g2
  <2> QED BY <2>1 DEF V3, w3, L3, Both
<1>15. ASSUME NEW u \in CrlType
      PROVE  /\ g4(u) \in V4
             /\ w4[g4(u)] = w3[g3(u)] \o TextWriter[u.signature]
             /\ g4(u) \in L4 <=> g3(u) \in L3 /\ u.signature \in TextsUpTo(SignatureSize)
  <2>1. g3(u) \in V3 /\ u.signature \in String
    BY <1>11, <1>14
  <2> HIDE DEF g3
  <2> QED BY <2>1 DEF V4, w4, L4, Both
<1>16. ASSUME NEW u \in CrlType, NEW v \in CrlType, g4(u) = g4(v) PROVE u = v
  <2>1. /\ u.version = v.version
        /\ u.issuedAt = v.issuedAt
        /\ u.entries = v.entries
        /\ u.signature = v.signature
    BY <1>16
  <2> QED BY <2>1 DEF CrlType
<1>17. ASSUME NEW u \in CrlType PROVE CrlWriter[u] = w4[g4(u)]
  <2>1. w2[g2(u)] = Numbers(NumberSize)[u.version] \o Numbers(NumberSize)[u.issuedAt]
    BY <1>13
  <2>2. w3[g3(u)] = w2[g2(u)] \o EntryListWriter[u.entries]
    BY <1>14
  <2>3. w4[g4(u)] = w3[g3(u)] \o TextWriter[u.signature]
    BY <1>15
  <2> HIDE DEF g2, g3, g4
  <2>4. /\ Numbers(NumberSize)[u.version] = Number(u.version, NumberSize)
        /\ Numbers(NumberSize)[u.issuedAt] = Number(u.issuedAt, NumberSize)
        /\ EntryListWriter[u.entries]
             = List([i \in DOMAIN u.entries |-> EntryWrite(u.entries[i])])
        /\ TextWriter[u.signature] = Text(u.signature)
    BY <1>11, WriterFacts, EntryListIs
  <2>5. CrlWriter[u] = ListWrite(u) \o Text(u.signature)
    BY DEF CrlWriter
  <2> QED BY <2>1, <2>2, <2>3, <2>4, <2>5, Zenon DEF ListWrite
<1>18. ASSUME NEW u \in CrlType PROVE u \in CrlLimits <=> g4(u) \in L4
  <2>1. g4(u) \in L4 <=> /\ u.version \in Word(NumberSize)
                        /\ u.issuedAt \in Word(NumberSize)
                        /\ u.entries \in EntryLists(MaxRevoked)
                        /\ u.signature \in TextsUpTo(SignatureSize)
    <3> HIDE DEF g2, g3, g4
    <3> QED BY <1>13, <1>14, <1>15
  <2> HIDE DEF g2, g3, g4
  <2> QED BY <2>1, <1>11 DEF CrlLimits
<1> HIDE DEF g2, g3, g4
<1>19. Image(f, CrlWriter, CrlType, CrlLimits, w4, V4, L4)
  <2>1. f \in [CrlType -> V4] /\ \A u \in CrlType : f[u] = g4(u)
    BY <1>15
  <2> HIDE DEF f
  <2> QED BY <2>1, <1>16, <1>17, <1>18 DEF Image
<1>20. f[e] = o4
  <2> HIDE DEF e
  <2> QED BY <1>12
<1>21. x = [p |-> signature.p, ok |-> signature.ok, out |-> e]
  BY <1>4, <1>5 DEF Cursor
<1> HIDE DEF e, f
<1>22. x.p = signature.p /\ x.ok = signature.ok /\ x.out = e /\ x \in Cursor(CrlType)
  BY <1>4, <1>12, <1>21 DEF Cursor
<1>23. Reads(b, r, x, e, CrlWriter, CrlType, CrlLimits)
  BY <1>9, <1>12, <1>19, <1>20, <1>22, ImageReads
<1> QED BY <1>22, <1>23 DEF x

-----------------------------------------------------------------------------
(* The state: what follows its tag, then all of it.                        *)

ReadBody(b, r) ==
  LET device      == ReadId(b, r)
      policy      == ReadPolicy(b, device)
      status      == ReadNumber(b, policy, 1)
      credentials == ReadList(b, status, MaxCredentials, ReadCredential)
      crl         == ReadCrl(b, credentials)
      revoked     == ReadList(b, crl, MaxRevoked, ReadId)
  IN  [revoked EXCEPT !.out =
         [deviceId |-> device.out, policy |-> policy.out,
          deviceStatus |-> status.out, credentials |-> credentials.out,
          crl |-> crl.out, revoked |-> @]]

Body(s) ==
  Text(s.deviceId) \o PolicyWrite(s.policy) \o <<s.deviceStatus>>
    \o List([i \in DOMAIN s.credentials |-> CredentialWrite(s.credentials[i])])
    \o (ListWrite(s.crl) \o Text(s.crl.signature)) \o Texts(s.revoked)

BodyWriter == [s \in StateType |-> Body(s)]
StateLimits ==
  {s \in StateType :
     /\ s.deviceId \in Ids /\ s.credentials \in CredentialLists(MaxCredentials)
     /\ s.crl \in CrlLimits /\ s.revoked \in IdLists(MaxRevoked)}

LEMMA RecordWriters ==
  /\ PolicyWriter \in [PolicyType -> String]
  /\ CrlWriter \in [CrlType -> String]
<1>1. ASSUME NEW p \in PolicyType PROVE PolicyWrite(p) \in String
  <2> DEFINE a == Number(p.version, NumberSize)
             c == Number(p.sessionTimeout, NumberSize)
             d == Number(p.challengeTimeout, NumberSize)
             t == <<p.bindingMode, p.mode, p.emergencyEnabled>>
  <2>1. a \in String /\ c \in String /\ d \in String
    <3>1. /\ p.version \in Nat /\ p.sessionTimeout \in Nat
          /\ p.challengeTimeout \in Nat
      BY DEF PolicyType, Word
    <3> QED BY <3>1, SizeFacts, NumberBytes
  <2>2. t \in String
    BY DEF PolicyType, String
  <2>3. PolicyWrite(p) = ((a \o c) \o d) \o t
    BY Zenon DEF PolicyWrite
  <2> HIDE DEF a, c, d, t
  <2> QED BY <2>1, <2>2, <2>3 DEF String
<1>2. ASSUME NEW l \in CrlType PROVE ListWrite(l) \o Text(l.signature) \in String
  <2> DEFINE a == Number(l.version, NumberSize)
             c == Number(l.issuedAt, NumberSize)
             d == List([i \in DOMAIN l.entries |-> EntryWrite(l.entries[i])])
             t == Text(l.signature)
  <2>1. a \in String /\ c \in String
    <3>1. l.version \in Nat /\ l.issuedAt \in Nat
      BY DEF CrlType, Word
    <3> QED BY <3>1, SizeFacts, NumberBytes
  <2>2. d \in String
    <3>1. l.entries \in Seq(EntryType)
      BY DEF CrlType
    <3>2. EntryListWriter[l.entries] = d
      BY <3>1, EntryListIs
    <3> HIDE DEF d
    <3> QED BY <3>1, <3>2, EntryListIs
  <2>3. t \in String
    <3>1. l.signature \in String
      BY DEF CrlType
    <3> QED BY <3>1, TextFacts
  <2>4. ListWrite(l) = (a \o c) \o d
    BY Zenon DEF ListWrite
  <2> HIDE DEF a, c, d, t
  <2>5. ((a \o c) \o d) \o t \in String
    BY <2>1, <2>2, <2>3 DEF String
  <2> QED BY <2>4, <2>5 DEF t
<1> QED BY <1>1, <1>2 DEF PolicyWriter, CrlWriter

LEMMA BodyReads ==
  ASSUME NEW b \in String, NEW S, NEW r \in Cursor(S)
  PROVE  /\ ReadBody(b, r) \in Cursor(StateType)
         /\ Reads(b, r, ReadBody(b, r), ReadBody(b, r).out,
                  BodyWriter, StateType, StateLimits)
<1> DEFINE
     device == ReadId(b, r)
     policy == ReadPolicy(b, device)
     status == ReadNumber(b, policy, 1)
     credentials == ReadList(b, status, MaxCredentials, ReadCredential)
     crl == ReadCrl(b, credentials)
     revoked == ReadList(b, crl, MaxRevoked, ReadId)
     V2 == String \X PolicyType
     w2 == Both(TextWriter, PolicyWriter, String, PolicyType)
     L2 == Ids \X PolicyType
     o2 == <<device.out, policy.out>>
     g2(u) == <<u.deviceId, u.policy>>
     V3 == V2 \X Byte
     w3 == Both(w2, Bytes, V2, Byte)
     L3 == L2 \X Byte
     o3 == <<o2, status.out>>
     g3(u) == <<g2(u), u.deviceStatus>>
     V4 == V3 \X Seq(CredentialType)
     w4 == Both(w3, CredentialListWriter, V3, Seq(CredentialType))
     L4 == L3 \X CredentialLists(MaxCredentials)
     o4 == <<o3, credentials.out>>
     g4(u) == <<g3(u), u.credentials>>
     V5 == V4 \X CrlType
     w5 == Both(w4, CrlWriter, V4, CrlType)
     L5 == L4 \X CrlLimits
     o5 == <<o4, crl.out>>
     g5(u) == <<g4(u), u.crl>>
     V6 == V5 \X Seq(String)
     w6 == Both(w5, IdListWriter, V5, Seq(String))
     L6 == L5 \X IdLists(MaxRevoked)
     o6 == <<o5, revoked.out>>
     g6(u) == <<g5(u), u.revoked>>
     e == [deviceId |-> device.out, policy |-> policy.out, deviceStatus |-> status.out, credentials |-> credentials.out, crl |-> crl.out, revoked |-> revoked.out]
     x == ReadBody(b, r)
     f == [u \in StateType |-> g6(u)]
<1>1. /\ device \in Cursor(String)
      /\ Reads(b, r, device, device.out, TextWriter, String, Ids)
  BY IdReads
<1>2. /\ policy \in Cursor(PolicyType)
      /\ Reads(b, device, policy, policy.out, PolicyWriter, PolicyType, PolicyType)
  BY <1>1, PolicyReads
<1>3. /\ status \in Cursor(Byte)
      /\ Reads(b, policy, status, status.out, Bytes, Byte, Byte)
  BY <1>2, ByteReads
<1>4. /\ credentials \in Cursor(Seq(CredentialType))
      /\ Reads(b, status, credentials, credentials.out, CredentialListWriter, Seq(CredentialType), CredentialLists(MaxCredentials))
  BY <1>3, LimitFacts, CredentialListReads
<1>5. /\ crl \in Cursor(CrlType)
      /\ Reads(b, credentials, crl, crl.out, CrlWriter, CrlType, CrlLimits)
  BY <1>4, CrlReads
<1>6. /\ revoked \in Cursor(Seq(String))
      /\ Reads(b, crl, revoked, revoked.out, IdListWriter, Seq(String), IdLists(MaxRevoked))
  BY <1>5, LimitFacts, IdListReads
<1>7. x = [revoked EXCEPT !.out =
              [deviceId |-> device.out, policy |-> policy.out,
               deviceStatus |-> status.out, credentials |-> credentials.out,
               crl |-> crl.out, revoked |-> @]]
  BY Zenon DEF ReadBody
<1>8. /\ Bytes \in [Byte -> String]
      /\ CredentialListWriter \in [Seq(CredentialType) -> String]
      /\ CrlWriter \in [CrlType -> String]
      /\ IdListWriter \in [Seq(String) -> String]
      /\ PolicyWriter \in [PolicyType -> String]
      /\ TextWriter \in [String -> String]
  BY WriterFacts, IdListIs, RecordWriters, CredentialListIs
<1> HIDE DEF device, policy, status, credentials, crl, revoked, x
<1>9. /\ w2 \in [V2 -> String]
       /\ Reads(b, r, policy, o2, w2, V2, L2)
  BY <1>1, <1>2, <1>8, BothReads
<1> HIDE DEF w2, V2, L2, o2
<1>10. /\ w3 \in [V3 -> String]
       /\ Reads(b, r, status, o3, w3, V3, L3)
  BY <1>2, <1>3, <1>8, <1>9, BothReads, ZenonT(40)
<1> HIDE DEF w3, V3, L3, o3
<1>11. /\ w4 \in [V4 -> String]
       /\ Reads(b, r, credentials, o4, w4, V4, L4)
  BY <1>3, <1>4, <1>8, <1>10, BothReads
<1> HIDE DEF w4, V4, L4, o4
<1>12. /\ w5 \in [V5 -> String]
       /\ Reads(b, r, crl, o5, w5, V5, L5)
  BY <1>4, <1>5, <1>8, <1>11, BothReads, ZenonT(40)
<1> HIDE DEF w5, V5, L5, o5
<1>13. /\ w6 \in [V6 -> String]
       /\ Reads(b, r, revoked, o6, w6, V6, L6)
  BY <1>5, <1>6, <1>8, <1>12, BothReads
<1> HIDE DEF w6, V6, L6, o6
<1>14. /\ device.out \in String
       /\ policy.out \in PolicyType
       /\ status.out \in Byte
       /\ credentials.out \in Seq(CredentialType)
       /\ crl.out \in CrlType
       /\ revoked.out \in Seq(String)
  BY <1>1, <1>2, <1>3, <1>4, <1>5, <1>6 DEF Cursor
<1>15. ASSUME NEW u \in StateType
      PROVE  /\ u.deviceId \in String
             /\ u.policy \in PolicyType
             /\ u.deviceStatus \in Byte
             /\ u.credentials \in Seq(CredentialType)
             /\ u.crl \in CrlType
             /\ u.revoked \in Seq(String)
  BY DEF StateType
<1>16. e \in StateType /\ g6(e) = o6
  <2>1. e \in StateType
    BY <1>14 DEF StateType
  <2>2. e.deviceId = device.out /\ e.policy = policy.out /\ e.deviceStatus = status.out /\ e.credentials = credentials.out /\ e.crl = crl.out /\ e.revoked = revoked.out
    OBVIOUS
  <2> HIDE DEF e
  <2> QED BY <2>1, <2>2 DEF o2, o3, o4, o5, o6
<1>17. ASSUME NEW u \in StateType
      PROVE  /\ g2(u) \in V2
             /\ w2[g2(u)] = TextWriter[u.deviceId] \o PolicyWriter[u.policy]
             /\ g2(u) \in L2 <=> u.deviceId \in Ids /\ u.policy \in PolicyType
  <2>1. u.deviceId \in String /\ u.policy \in PolicyType
    BY <1>15
  <2> QED BY <2>1 DEF V2, w2, L2, Both
<1>18. ASSUME NEW u \in StateType
      PROVE  /\ g3(u) \in V3
             /\ w3[g3(u)] = w2[g2(u)] \o Bytes[u.deviceStatus]
             /\ g3(u) \in L3 <=> g2(u) \in L2 /\ u.deviceStatus \in Byte
  <2>1. g2(u) \in V2 /\ u.deviceStatus \in Byte
    BY <1>15, <1>17
  <2> HIDE DEF g2
  <2> QED BY <2>1 DEF V3, w3, L3, Both
<1>19. ASSUME NEW u \in StateType
      PROVE  /\ g4(u) \in V4
             /\ w4[g4(u)] = w3[g3(u)] \o CredentialListWriter[u.credentials]
             /\ g4(u) \in L4 <=> g3(u) \in L3 /\ u.credentials \in CredentialLists(MaxCredentials)
  <2>1. g3(u) \in V3 /\ u.credentials \in Seq(CredentialType)
    BY <1>15, <1>18
  <2> HIDE DEF g3
  <2> QED BY <2>1 DEF V4, w4, L4, Both
<1>20. ASSUME NEW u \in StateType
      PROVE  /\ g5(u) \in V5
             /\ w5[g5(u)] = w4[g4(u)] \o CrlWriter[u.crl]
             /\ g5(u) \in L5 <=> g4(u) \in L4 /\ u.crl \in CrlLimits
  <2>1. g4(u) \in V4 /\ u.crl \in CrlType
    BY <1>15, <1>19
  <2> HIDE DEF g4
  <2> QED BY <2>1 DEF V5, w5, L5, Both
<1>21. ASSUME NEW u \in StateType
      PROVE  /\ g6(u) \in V6
             /\ w6[g6(u)] = w5[g5(u)] \o IdListWriter[u.revoked]
             /\ g6(u) \in L6 <=> g5(u) \in L5 /\ u.revoked \in IdLists(MaxRevoked)
  <2>1. g5(u) \in V5 /\ u.revoked \in Seq(String)
    BY <1>15, <1>20
  <2> HIDE DEF g5
  <2> QED BY <2>1 DEF V6, w6, L6, Both
<1>22. ASSUME NEW u \in StateType, NEW v \in StateType, g6(u) = g6(v) PROVE u = v
  <2>1. /\ u.deviceId = v.deviceId
        /\ u.policy = v.policy
        /\ u.deviceStatus = v.deviceStatus
        /\ u.credentials = v.credentials
        /\ u.crl = v.crl
        /\ u.revoked = v.revoked
    BY <1>22
  <2> QED BY <2>1 DEF StateType
<1>23. ASSUME NEW u \in StateType PROVE BodyWriter[u] = w6[g6(u)]
  <2>1. w2[g2(u)] = TextWriter[u.deviceId] \o PolicyWriter[u.policy]
    BY <1>17
  <2>2. w3[g3(u)] = w2[g2(u)] \o Bytes[u.deviceStatus]
    BY <1>18
  <2>3. w4[g4(u)] = w3[g3(u)] \o CredentialListWriter[u.credentials]
    BY <1>19
  <2>4. w5[g5(u)] = w4[g4(u)] \o CrlWriter[u.crl]
    BY <1>20
  <2>5. w6[g6(u)] = w5[g5(u)] \o IdListWriter[u.revoked]
    BY <1>21
  <2> HIDE DEF g2, g3, g4, g5, g6
  <2>6. /\ TextWriter[u.deviceId] = Text(u.deviceId)
        /\ PolicyWriter[u.policy] = PolicyWrite(u.policy)
        /\ Bytes[u.deviceStatus] = <<u.deviceStatus>>
        /\ CrlWriter[u.crl] = ListWrite(u.crl) \o Text(u.crl.signature)
        /\ IdListWriter[u.revoked] = Texts(u.revoked)
    BY <1>15, WriterFacts, IdListIs DEF PolicyWriter, CrlWriter
  <2>7. CredentialListWriter[u.credentials]
          = List([i \in DOMAIN u.credentials |-> CredentialWrite(u.credentials[i])])
    BY <1>15, CredentialListIs
  <2>8. BodyWriter[u] = Body(u)
    BY DEF BodyWriter
  <2> QED BY <2>1, <2>2, <2>3, <2>4, <2>5, <2>6, <2>7, <2>8, Zenon DEF Body
<1>24. ASSUME NEW u \in StateType PROVE u \in StateLimits <=> g6(u) \in L6
  <2>1. g6(u) \in L6 <=> /\ u.deviceId \in Ids
                        /\ u.policy \in PolicyType
                        /\ u.deviceStatus \in Byte
                        /\ u.credentials \in CredentialLists(MaxCredentials)
                        /\ u.crl \in CrlLimits
                        /\ u.revoked \in IdLists(MaxRevoked)
    <3> HIDE DEF g2, g3, g4, g5, g6
    <3> QED BY <1>17, <1>18, <1>19, <1>20, <1>21
  <2> HIDE DEF g2, g3, g4, g5, g6
  <2> QED BY <2>1, <1>15 DEF StateLimits
<1> HIDE DEF g2, g3, g4, g5, g6
<1>25. Image(f, BodyWriter, StateType, StateLimits, w6, V6, L6)
  <2>1. f \in [StateType -> V6] /\ \A u \in StateType : f[u] = g6(u)
    BY <1>21
  <2> HIDE DEF f
  <2> QED BY <2>1, <1>22, <1>23, <1>24 DEF Image
<1>26. f[e] = o6
  <2> HIDE DEF e
  <2> QED BY <1>16
<1>27. x = [p |-> revoked.p, ok |-> revoked.ok, out |-> e]
  BY <1>6, <1>7 DEF Cursor
<1> HIDE DEF e, f
<1>28. x.p = revoked.p /\ x.ok = revoked.ok /\ x.out = e /\ x \in Cursor(StateType)
  BY <1>6, <1>16, <1>27 DEF Cursor
<1>29. Reads(b, r, x, e, BodyWriter, StateType, StateLimits)
  BY <1>13, <1>16, <1>25, <1>26, <1>28, ImageReads
<1> QED BY <1>28, <1>29 DEF x

LEMMA CatFacts ==
  ASSUME NEW u \in String, NEW v \in String
  PROVE  /\ u \o v \in String /\ Len(u \o v) = Len(u) + Len(v)
         /\ Len(u) \in Nat /\ Len(v) \in Nat
         /\ \A i \in 1..Len(u) : (u \o v)[i] = u[i]
         /\ \A i \in 1..Len(v) : (u \o v)[Len(u) + i] = v[i]
BY DEF String

LEMMA CatAssociates ==
  ASSUME NEW u \in String, NEW v \in String, NEW t \in String
  PROVE  /\ u \o v \in String /\ v \o t \in String
         /\ (u \o v) \o t = u \o (v \o t)
<1> DEFINE x == u \o v
           y == v \o t
           l == x \o t
           m == u \o y
<1>1. Len(u) \in Nat /\ Len(v) \in Nat /\ Len(t) \in Nat
  BY DEF String
<1>2. /\ x \in String /\ Len(x) = Len(u) + Len(v)
      /\ \A i \in 1..Len(u) : x[i] = u[i]
      /\ \A i \in 1..Len(v) : x[Len(u) + i] = v[i]
  BY CatFacts
<1>3. /\ y \in String /\ Len(y) = Len(v) + Len(t)
      /\ \A i \in 1..Len(v) : y[i] = v[i]
      /\ \A i \in 1..Len(t) : y[Len(v) + i] = t[i]
  BY CatFacts
<1> HIDE DEF x, y
<1>4. /\ l \in String /\ Len(l) = Len(x) + Len(t)
      /\ \A i \in 1..Len(x) : l[i] = x[i]
      /\ \A i \in 1..Len(t) : l[Len(x) + i] = t[i]
  BY <1>2, CatFacts, Zenon
<1>5. /\ m \in String /\ Len(m) = Len(u) + Len(y)
      /\ \A i \in 1..Len(u) : m[i] = u[i]
      /\ \A i \in 1..Len(y) : m[Len(u) + i] = y[i]
  BY <1>3, CatFacts, Zenon
<1> HIDE DEF l, m
<1>6. ASSUME NEW i \in 1..Len(l) PROVE l[i] = m[i]
  <2>1. CASE i <= Len(u)
    <3>1. i \in 1..Len(u) /\ i \in 1..Len(x)
      BY <1>1, <1>2, <2>1
    <3> QED BY <1>2, <1>4, <1>5, <3>1
  <2>2. CASE i > Len(u) /\ i <= Len(u) + Len(v)
    <3>1. PICK j \in 1..Len(v) : i = Len(u) + j
      <4>1. i - Len(u) \in 1..Len(v) /\ i = Len(u) + (i - Len(u))
        BY <1>1, <2>2
      <4> QED BY <4>1
    <3>2. i \in 1..Len(x) /\ j \in 1..Len(y)
      BY <1>1, <1>2, <1>3, <2>2, <3>1
    <3>3. l[i] = x[i] /\ x[i] = v[j] /\ m[i] = y[j] /\ y[j] = v[j]
      BY <1>2, <1>3, <1>4, <1>5, <3>1, <3>2
    <3> QED BY <3>3
  <2>3. CASE i > Len(u) + Len(v)
    <3>1. PICK j \in 1..Len(t) : i = (Len(u) + Len(v)) + j
      <4> DEFINE j == i - (Len(u) + Len(v))
      <4>1. j \in 1..Len(t) /\ i = (Len(u) + Len(v)) + j
        BY <1>1, <1>2, <1>4, <2>3
      <4> HIDE DEF j
      <4> QED BY <4>1
    <3>2. Len(v) + j \in 1..Len(y) /\ i = Len(u) + (Len(v) + j) /\ i = Len(x) + j
      BY <1>1, <1>2, <1>3, <3>1
    <3>3. l[i] = t[j]
      BY <1>4, <3>1, <3>2
    <3>4. m[i] = y[Len(v) + j] /\ y[Len(v) + j] = t[j]
      BY <1>3, <1>5, <3>1, <3>2
    <3> QED BY <3>3, <3>4
  <2> QED BY <1>1, <2>1, <2>2, <2>3
<1>7. Len(l) = Len(m)
  BY <1>1, <1>2, <1>3, <1>4, <1>5
<1>8. l = m
  BY <1>4, <1>5, <1>6, <1>7 DEF String
<1> QED BY <1>2, <1>3, <1>8 DEF x, y, l, m, String

(* The same of an operator the provers do not look into.                   *)
Cat(u, v) == u \o v

LEMMA CatLaws ==
  /\ \A u, v \in String : Cat(u, v) \in String
  /\ \A u, v, t \in String : Cat(Cat(u, v), t) = Cat(u, Cat(v, t))
BY CatFacts, CatAssociates DEF Cat

(* A state is written as its tag and its body.                             *)
LEMMA TagAndBody ==
  ASSUME NEW s \in StateType
  PROVE  /\ <<StateTag>> \in Ids /\ Text(<<StateTag>>) \in String \ {<<>>}
         /\ Body(s) \in String
         /\ EncodeState(s) = Text(<<StateTag>>) \o Body(s)
<1> DEFINE T == Text(<<StateTag>>)
           D == Text(s.deviceId)
           P == PolicyWrite(s.policy)
           B == <<s.deviceStatus>>
           C == List([i \in DOMAIN s.credentials |->
                        CredentialWrite(s.credentials[i])])
           K == ListWrite(s.crl)
           G == Text(s.crl.signature)
           R == Texts(s.revoked)
<1>1. <<StateTag>> \in Ids
  <2>1. StateTag \in Byte /\ MaxText \in Nat /\ MaxText >= 1
    BY CodecConstants, SizeFacts
  <2>2. <<StateTag>> \in Seq(Byte) /\ Len(<<StateTag>>) = 1
    BY <2>1
  <2> QED BY <2>1, <2>2 DEF Ids, TextsUpTo, String
<1>2. T \in String \ {<<>>}
  <2>1. <<StateTag>> \in String
    BY <1>1 DEF Ids, TextsUpTo
  <2> QED BY <2>1, TextNotEmpty, WriterFacts
<1>3. /\ s.deviceId \in String /\ s.policy \in PolicyType
      /\ s.deviceStatus \in Byte /\ s.credentials \in Seq(CredentialType)
      /\ s.crl \in CrlType /\ s.revoked \in Seq(String)
  BY DEF StateType
<1>4. D \in String /\ B \in String
  BY <1>3, TextFacts DEF String
<1>5. P \in String
  <2>1. PolicyWriter[s.policy] = P
    BY <1>3 DEF PolicyWriter
  <2> HIDE DEF P
  <2> QED BY <1>3, <2>1, RecordWriters
<1>6. C \in String
  <2>1. CredentialListWriter[s.credentials] = C
    BY <1>3, CredentialListIs
  <2> HIDE DEF C
  <2> QED BY <1>3, <2>1, CredentialListIs
<1>7. K \in String /\ G \in String
  <2>1. /\ s.crl.version \in Word(NumberSize) /\ s.crl.issuedAt \in Word(NumberSize)
        /\ s.crl.entries \in Seq(EntryType) /\ s.crl.signature \in String
    BY <1>3 DEF CrlType
  <2>2. K = (Number(s.crl.version, NumberSize) \o Number(s.crl.issuedAt, NumberSize))
              \o List([i \in DOMAIN s.crl.entries |-> EntryWrite(s.crl.entries[i])])
    BY Zenon DEF ListWrite
  <2>3. /\ Number(s.crl.version, NumberSize) \in String
        /\ Number(s.crl.issuedAt, NumberSize) \in String
    BY <2>1, WriterFacts
  <2>4. List([i \in DOMAIN s.crl.entries |-> EntryWrite(s.crl.entries[i])]) \in String
    <3>1. EntryListWriter[s.crl.entries]
            = List([i \in DOMAIN s.crl.entries |-> EntryWrite(s.crl.entries[i])])
      BY <2>1, EntryListIs
    <3>2. EntryListWriter[s.crl.entries] \in String
      BY <2>1, EntryListIs
    <3> QED BY <3>1, <3>2, Zenon
  <2>5. K \in String
    <3> DEFINE d == List([i \in DOMAIN s.crl.entries |-> EntryWrite(s.crl.entries[i])])
    <3>1. d \in String
      BY <2>4
    <3> HIDE DEF d
    <3>2. (Number(s.crl.version, NumberSize) \o Number(s.crl.issuedAt, NumberSize)) \o d
            \in String
      BY <2>3, <3>1, CatFacts, Zenon
    <3> QED BY <2>2, <3>2, Zenon DEF d
  <2> HIDE DEF K
  <2> QED BY <2>1, <2>5, TextFacts
<1>8. R \in String
  BY <1>3, IdListIs
<1>9. /\ EncodeState(s) = ((((((T \o D) \o P) \o B) \o C) \o K) \o G) \o R
      /\ Body(s) = ((((D \o P) \o B) \o C) \o (K \o G)) \o R
  BY Zenon DEF EncodeState, Body
<1> HIDE DEF T, D, P, B, C, K, G, R
<1>10. EncodeState(s) = T \o Body(s) /\ Body(s) \in String
  <2>1. /\ EncodeState(s) = Cat(Cat(Cat(Cat(Cat(Cat(Cat(T, D), P), B), C), K), G), R)
        /\ Body(s) = Cat(Cat(Cat(Cat(Cat(D, P), B), C), Cat(K, G)), R)
    BY <1>9, Zenon DEF Cat
  <2>2. /\ T \in String /\ D \in String /\ P \in String /\ B \in String
        /\ C \in String /\ K \in String /\ G \in String /\ R \in String
    BY <1>2, <1>4, <1>5, <1>6, <1>7, <1>8
  <2> DEFINE Q1 == Cat(D, P)
             Q2 == Cat(Q1, B)
             Q3 == Cat(Q2, C)
             Q4 == Cat(Q3, Cat(K, G))
  <2>3. Q1 \in String /\ Cat(Cat(T, D), P) = Cat(T, Q1)
    BY <2>2, CatLaws
  <2> HIDE DEF Q1
  <2>4. Q2 \in String /\ Cat(Cat(T, Q1), B) = Cat(T, Q2)
    BY <2>2, <2>3, CatLaws
  <2> HIDE DEF Q2
  <2>5. Q3 \in String /\ Cat(Cat(T, Q2), C) = Cat(T, Q3)
    BY <2>2, <2>4, CatLaws
  <2> HIDE DEF Q3
  <2>6. Cat(T, Q3) \in String /\ Cat(K, G) \in String
    BY <2>2, <2>5, CatLaws
  <2>7. Q4 \in String /\ Cat(Cat(Cat(T, Q3), K), G) = Cat(T, Q4)
    BY <2>2, <2>5, <2>6, CatLaws
  <2> HIDE DEF Q4
  <2>8. Cat(Q4, R) \in String /\ Cat(Cat(T, Q4), R) = Cat(T, Cat(Q4, R))
    BY <2>2, <2>7, CatLaws
  <2>9. EncodeState(s) = Cat(T, Cat(Q4, R)) /\ Body(s) = Cat(Q4, R)
    BY <2>1, <2>3, <2>4, <2>5, <2>7, <2>8 DEF Q1, Q2, Q3, Q4
  <2> QED BY <2>8, <2>9 DEF Cat
<1> QED BY <1>1, <1>2, <1>10 DEF T

Start == [p |-> 0, ok |-> TRUE, out |-> <<>>]

(* The reads of decodeState are one text after the other reads.            *)
LEMMA TagThenBody ==
  ASSUME NEW b \in String
  PROVE  LET tag  == ReadId(b, Start)
             body == ReadBody(b, tag)
             x    == ReadState(b)
         IN  /\ Start \in Cursor(String) /\ tag \in Cursor(String)
             /\ body \in Cursor(StateType)
             /\ x = [p |-> body.p, ok |-> body.ok /\ tag.out = <<StateTag>>,
                     out |-> body.out]
<1> DEFINE tag         == ReadId(b, Start)
           device      == ReadId(b, tag)
           policy      == ReadPolicy(b, device)
           status      == ReadNumber(b, policy, 1)
           credentials == ReadList(b, status, MaxCredentials, ReadCredential)
           crl         == ReadCrl(b, credentials)
           revoked     == ReadList(b, crl, MaxRevoked, ReadId)
           e == [deviceId |-> device.out, policy |-> policy.out,
                 deviceStatus |-> status.out, credentials |-> credentials.out,
                 crl |-> crl.out, revoked |-> revoked.out]
           body == ReadBody(b, tag)
           x    == ReadState(b)
<1>1. Start \in Cursor(String)
  BY DEF Start, Cursor, String
<1>2. tag \in Cursor(String)
  BY <1>1, IdReads
<1>3. body \in Cursor(StateType)
  BY <1>2, BodyReads
<1>4. body = [revoked EXCEPT !.out =
         [deviceId |-> device.out, policy |-> policy.out,
          deviceStatus |-> status.out, credentials |-> credentials.out,
          crl |-> crl.out, revoked |-> @]]
  BY Zenon DEF ReadBody
<1>5. x = [revoked EXCEPT
         !.ok = @ /\ tag.out = <<StateTag>>,
         !.out = [deviceId |-> device.out, policy |-> policy.out,
                  deviceStatus |-> status.out, credentials |-> credentials.out,
                  crl |-> crl.out, revoked |-> @]]
  BY Zenon DEF ReadState, Start
<1>6. revoked \in Cursor(Seq(String))
  <2>1. device \in Cursor(String)
    BY <1>2, IdReads
  <2>2. policy \in Cursor(PolicyType)
    BY <2>1, PolicyReads
  <2>3. status \in Cursor(Byte)
    BY <2>2, ByteReads
  <2>4. credentials \in Cursor(Seq(CredentialType))
    BY <2>3, LimitFacts, CredentialListReads
  <2>5. crl \in Cursor(CrlType)
    BY <2>4, CrlReads
  <2> QED BY <2>5, LimitFacts, IdListReads
<1> HIDE DEF x, body, revoked, crl, credentials, status, policy, device, tag
<1>7. revoked = [p |-> revoked.p, ok |-> revoked.ok, out |-> revoked.out]
  BY <1>6 DEF Cursor
<1>8. body = [p |-> revoked.p, ok |-> revoked.ok, out |-> e]
  BY <1>4, <1>7
<1>9. x = [p |-> revoked.p, ok |-> revoked.ok /\ tag.out = <<StateTag>>, out |-> e]
  BY <1>5, <1>7
<1> HIDE DEF e
<1>10. x = [p |-> body.p, ok |-> body.ok /\ tag.out = <<StateTag>>, out |-> body.out]
  BY <1>8, <1>9
<1> QED BY <1>1, <1>2, <1>3, <1>10 DEF x, body, tag

LEMMA EncodeIsString ==
  ASSUME NEW s \in StateType
  PROVE  /\ EncodeState(s) \in String \ {<<>>}
         /\ Len(EncodeState(s)) \in Nat /\ Len(EncodeState(s)) # 0
<1>1. EncodeState(s) \in String \ {<<>>}
  <2>1. /\ Text(<<StateTag>>) \in String \ {<<>>} /\ Body(s) \in String
        /\ EncodeState(s) = Text(<<StateTag>>) \o Body(s)
    BY TagAndBody
  <2> QED BY <2>1, NotEmptyCat
<1> QED BY <1>1 DEF String

(* What is read back is what stands at the head of the blob, and a state   *)
(* within the limits that stands there is read.                            *)
LEMMA StateReads ==
  ASSUME NEW b \in String
  PROVE  LET x == ReadState(b) IN
         /\ x.out \in StateType
         /\ x.ok => /\ x.out \in StateLimits /\ At(b, 0, EncodeState(x.out))
                    /\ x.p = Len(EncodeState(x.out))
         /\ \A s \in StateType :
              At(b, 0, EncodeState(s)) /\ (Len(b) <= MaxBytes \/ s \in StateLimits) =>
                (s \in StateLimits => x.ok) /\ (x.ok => x.out = s)
<1> DEFINE x    == ReadState(b)
           tag  == ReadId(b, Start)
           body == ReadBody(b, tag)
           t    == <<StateTag>>
           w    == Both(TextWriter, BodyWriter, String, StateType)
           V    == String \X StateType
           L    == Ids \X StateLimits
           o    == <<tag.out, body.out>>
<1>1. /\ Start \in Cursor(String) /\ tag \in Cursor(String)
      /\ body \in Cursor(StateType)
      /\ x = [p |-> body.p, ok |-> body.ok /\ tag.out = t, out |-> body.out]
  BY TagThenBody
<1>2. Reads(b, Start, tag, tag.out, TextWriter, String, Ids)
  BY <1>1, IdReads
<1>3. Reads(b, tag, body, body.out, BodyWriter, StateType, StateLimits)
  BY <1>1, BodyReads
<1>4. t \in Ids /\ t \in String
  BY <1>1, TagAndBody DEF Cursor, Ids, TextsUpTo
<1>5. BodyWriter \in [StateType -> String] /\ TextWriter \in [String -> String]
  BY TagAndBody, WriterFacts DEF BodyWriter
<1> HIDE DEF x, tag, body
<1>6. Reads(b, Start, body, o, w, V, L)
  BY <1>1, <1>2, <1>3, <1>5, BothReads
<1>7. \A s \in StateType : <<t, s>> \in V /\ w[<<t, s>>] = EncodeState(s)
  <2>1. ASSUME NEW s \in StateType PROVE w[<<t, s>>] = EncodeState(s)
    <3>1. w[<<t, s>>] = TextWriter[t] \o BodyWriter[s]
      BY <1>4 DEF Both
    <3>2. TextWriter[t] = Text(t) /\ BodyWriter[s] = Body(s)
      BY <1>4, WriterFacts DEF BodyWriter
    <3>3. EncodeState(s) = Text(t) \o Body(s)
      BY TagAndBody
    <3> QED BY <3>1, <3>2, <3>3, Zenon
  <2> QED BY <1>4, <2>1
<1>8. Start.p = 0 /\ Start.ok
  BY DEF Start
<1>9. /\ x.out = body.out /\ x.p = body.p /\ (x.ok <=> body.ok /\ tag.out = t)
      /\ body.out \in StateType /\ tag.out \in String
      /\ body.p \in Nat
  BY <1>1 DEF Cursor
<1> HIDE DEF w, V, t
<1>10. ASSUME x.ok
       PROVE  /\ x.out \in StateLimits /\ At(b, 0, EncodeState(x.out))
              /\ x.p = Len(EncodeState(x.out))
  <2>1. body.ok /\ tag.out = t
    BY <1>9, <1>10
  <2>2. o \in L /\ At(b, Start.p, w[o]) /\ body.p = Start.p + Len(w[o])
    BY <1>6, <2>1 DEF Reads
  <2>3. w[o] = EncodeState(x.out) /\ x.out \in StateLimits
    BY <1>7, <1>9, <2>1, <2>2
  <2>4. EncodeState(x.out) \in String
    BY <1>9, EncodeIsString
  <2>5. Len(EncodeState(x.out)) \in Nat
    BY <2>4 DEF String
  <2> HIDE DEF o
  <2> QED BY <1>8, <1>9, <2>2, <2>3, <2>5
<1>11. ASSUME NEW s \in StateType, At(b, 0, EncodeState(s)),
              Len(b) <= MaxBytes \/ s \in StateLimits
       PROVE  (s \in StateLimits => x.ok) /\ (x.ok => x.out = s)
  <2> DEFINE v == <<t, s>>
  <2>1. /\ v \in V /\ At(b, Start.p, w[v])
        /\ s \in StateLimits => v \in L
    BY <1>4, <1>7, <1>8, <1>11
  <2>2. (v \in L => body.ok) /\ (body.ok => o = v)
    <3> HIDE DEF o, v
    <3>1. Len(b) <= MaxBytes \/ v \in L
      BY <1>11, <2>1
    <3> QED BY <1>6, <1>8, <2>1, <3>1 DEF Reads
  <2>3. o = v => tag.out = t /\ body.out = s
    OBVIOUS
  <2> HIDE DEF o, v
  <2> QED BY <1>9, <2>1, <2>2, <2>3
<1> QED BY <1>9, <1>10, <1>11 DEF x

(* What decodes is valid and is the state of that blob only.               *)
LEMMA DecodeIsCanonical ==
  ASSUME NEW b \in String, DecodeState(b) # Refused
  PROVE  /\ DecodeState(b) \in StateLimits /\ Acceptable(DecodeState(b))
         /\ EncodeState(DecodeState(b)) = b /\ Len(b) <= MaxBytes
<1> DEFINE x == ReadState(b)
           s == DecodeState(b)
<1>1. Len(b) <= MaxBytes /\ x.ok /\ x.p = Len(b) /\ Acceptable(x.out) /\ s = x.out
  BY Zenon DEF DecodeState, Decoded
<1> HIDE DEF s
<1>2. /\ x.out \in StateType /\ x.out \in StateLimits
      /\ At(b, 0, EncodeState(x.out)) /\ Len(b) = Len(EncodeState(x.out))
  BY <1>1, StateReads
<1> HIDE DEF x
<1>3. EncodeState(x.out) = b
  <2>1. At(b, 0, b)
    BY AtSelf
  <2>2. EncodeState(x.out) \in String
    BY <1>2, EncodeIsString
  <2> QED BY <1>2, <2>1, <2>2, AtSame
<1> QED BY <1>1, <1>2, <1>3 DEF s

(* A state that its own bytes decode to is the one that was written.       *)
LEMMA DecodeOfEncode ==
  ASSUME NEW s \in StateType
  PROVE  LET d == DecodeState(EncodeState(s)) IN
         /\ d \in {Refused, s}
         /\ Len(EncodeState(s)) <= MaxBytes /\ s \in StateLimits /\ Acceptable(s)
              => d = s
<1> DEFINE b == EncodeState(s)
           d == DecodeState(b)
           x == ReadState(b)
<1>1. b \in String /\ At(b, 0, b)
  BY EncodeIsString, AtSelf
<1>2. ASSUME d # Refused PROVE d = s
  <2>1. /\ Len(b) <= MaxBytes /\ x.ok /\ d = x.out
    BY <1>2, Zenon DEF DecodeState, Decoded
  <2> HIDE DEF d
  <2>2. At(b, 0, EncodeState(s)) /\ (x.ok => x.out = s)
    BY <1>1, <2>1, StateReads
  <2> QED BY <2>1, <2>2
<1>3. ASSUME Len(b) <= MaxBytes, s \in StateLimits, Acceptable(s) PROVE d = s
  <2>1. x.ok /\ x.out = s /\ x.p = Len(b)
    <3>1. At(b, 0, EncodeState(s))
      BY <1>1
    <3>2. x.ok /\ x.out = s
      BY <1>1, <1>3, <3>1, StateReads
    <3>3. x.p = Len(EncodeState(x.out))
      BY <1>1, <3>2, StateReads
    <3> HIDE DEF x
    <3> QED BY <3>2, <3>3
  <2> HIDE DEF b
  <2>2. d = IF Len(b) <= MaxBytes /\ x.ok /\ x.p = Len(b) /\ Acceptable(x.out)
            THEN x.out ELSE Refused
    BY Zenon DEF DecodeState, Decoded
  <2> HIDE DEF d, x
  <2> QED BY <1>3, <2>1, <2>2
<1> HIDE DEF d
<1> QED BY <1>2, <1>3 DEF d, b

-----------------------------------------------------------------------------
(* What is valid is within every limit the reader has.                     *)

LEMMA ValidIds ==
  ASSUME NEW s \in String, ValidIdentifier(s)
  PROVE  s \in Ids
BY DEF ValidIdentifier, Ids, TextsUpTo

LEMMA ValidIdLists ==
  ASSUME NEW ss \in Seq(String), NEW max \in Nat, Len(ss) <= max,
         \A d \in Elements(ss) : ValidIdentifier(d)
  PROVE  ss \in IdLists(max)
<1>1. ASSUME NEW i \in 1..Len(ss) PROVE ss[i] \in Ids
  <2>1. ss[i] \in String /\ ss[i] \in Elements(ss)
    BY DEF Elements
  <2> QED BY <2>1, ValidIds
<1> QED BY <1>1 DEF IdLists, ListUpTo

LEMMA ValidEntriesLimits ==
  ASSUME NEW l, l.entries \in Seq(EntryType), ValidEntries(l)
  PROVE  l.entries \in EntryLists(MaxRevoked)
<1> DEFINE es == l.entries
<1>1. ASSUME NEW i \in 1..Len(es) PROVE es[i] \in EntryLimits
  <2>1. es[i] \in EntryType /\ es[i] \in Elements(es)
    BY DEF Elements
  <2>2. ValidIdentifier(es[i].credentialId) /\ ReasonValid(es[i].reason)
    BY <2>1 DEF ValidEntries
  <2>3. es[i].credentialId \in String /\ es[i].reason \in String
    BY <2>1 DEF EntryType
  <2>4. es[i].reason \in TextsUpTo(MaxReason)
    BY <2>2, <2>3 DEF ReasonValid, TextsUpTo
  <2> HIDE DEF es
  <2> QED BY <2>1, <2>2, <2>3, <2>4, ValidIds DEF EntryLimits
<1>2. Len(es) <= MaxRevoked
  BY DEF ValidEntries
<1> QED BY <1>1, <1>2 DEF EntryLists, ListUpTo

LEMMA ValidCredentialLimits ==
  ASSUME NEW c \in CredentialType, ValidCredential(c)
  PROVE  c \in CredentialLimits
<1>1. /\ c.credentialId \in String /\ c.operatorId \in String /\ c.keyId \in String
      /\ c.allowedDeviceIds \in Seq(String)
  BY DEF CredentialType
<1>2. /\ ValidIdentifier(c.credentialId) /\ ValidIdentifier(c.operatorId)
      /\ ValidIdentifier(c.keyId) /\ Len(c.allowedDeviceIds) <= MaxDevices
      /\ \A d \in Elements(c.allowedDeviceIds) : ValidIdentifier(d)
  BY DEF ValidCredential
<1>3. MaxDevices \in Nat
  BY LimitFacts, SizeFacts
<1>4. c.allowedDeviceIds \in IdLists(MaxDevices)
  BY <1>1, <1>2, <1>3, ValidIdLists
<1> QED BY <1>1, <1>2, <1>4, ValidIds DEF CredentialLimits

LEMMA AcceptableCrl ==
  ASSUME NEW s \in StateType, Acceptable(s)
  PROVE  s.crl \in CrlLimits
<1> DEFINE l == s.crl
<1>1. /\ l \in CrlType /\ l.entries \in Seq(EntryType) /\ l.signature \in String
  BY DEF StateType, CrlType
<1>2. SignatureSize \in Nat /\ MaxRevoked \in Nat
  BY LimitFacts, SizeFacts
<1>3. CASE l.version # 0
  <2>1. RevocationPayload(l) # <<>> /\ Len(l.signature) = SignatureSize
    BY <1>3 DEF Acceptable
  <2>2. ValidEntries(l)
    BY <2>1 DEF RevocationPayload
  <2>3. l.entries \in EntryLists(MaxRevoked)
    BY <1>1, <2>2, ValidEntriesLimits
  <2>4. l.signature \in TextsUpTo(SignatureSize)
    BY <1>1, <1>2, <2>1 DEF TextsUpTo
  <2> QED BY <1>1, <2>3, <2>4 DEF CrlLimits
<1>4. CASE l.version = 0
  <2>1. l.entries = <<>> /\ l.signature = <<>>
    BY <1>4 DEF Acceptable
  <2>2. <<>> \in EntryLists(MaxRevoked)
    BY <1>2 DEF EntryLists, ListUpTo
  <2>3. <<>> \in TextsUpTo(SignatureSize)
    BY <1>2 DEF TextsUpTo, String
  <2> QED BY <1>1, <2>1, <2>2, <2>3 DEF CrlLimits
<1> QED BY <1>3, <1>4

LEMMA StorableLimits ==
  ASSUME NEW s \in StateType
  PROVE  /\ Storable(s) => s \in StateLimits
         /\ s \in StateLimits =>
              Len(s.credentials) <= MaxCredentials /\ Len(s.revoked) <= MaxRevoked
<1>1. /\ s.deviceId \in String /\ s.credentials \in Seq(CredentialType)
      /\ s.revoked \in Seq(String)
  BY DEF StateType
<1>2. ASSUME Storable(s) PROVE s \in StateLimits
  <2>1. /\ ValidIdentifier(s.deviceId)
        /\ \A c \in Elements(s.credentials) : ValidCredential(c)
        /\ \A id \in Elements(s.revoked) : ValidIdentifier(id)
        /\ Len(s.credentials) <= MaxCredentials /\ Len(s.revoked) <= MaxRevoked
        /\ Acceptable(s)
    BY <1>2 DEF Storable, Acceptable
  <2>2. s.revoked \in IdLists(MaxRevoked)
    BY <1>1, <2>1, LimitFacts, SizeFacts, ValidIdLists
  <2>3. ASSUME NEW i \in 1..Len(s.credentials)
        PROVE  s.credentials[i] \in CredentialLimits
    <3>1. /\ s.credentials[i] \in CredentialType
          /\ s.credentials[i] \in Elements(s.credentials)
      BY <1>1 DEF Elements
    <3> QED BY <2>1, <3>1, ValidCredentialLimits
  <2>4. s.credentials \in CredentialLists(MaxCredentials)
    BY <1>1, <2>1, <2>3 DEF CredentialLists, ListUpTo
  <2> QED BY <1>1, <2>1, <2>2, <2>4, ValidIds, AcceptableCrl DEF StateLimits
<1>3. ASSUME s \in StateLimits
      PROVE  Len(s.credentials) <= MaxCredentials /\ Len(s.revoked) <= MaxRevoked
  BY <1>3 DEF StateLimits, CredentialLists, IdLists, ListUpTo
<1> QED BY <1>2, <1>3

(* Its own bytes decode for exactly the states that can be stored.         *)
LEMMA StorableIsStored ==
  ASSUME NEW s \in StateType
  PROVE  LET d == DecodeState(EncodeState(s)) IN
         /\ Storable(s) <=> d # Refused
         /\ Storable(s) <=> d = s
<1> DEFINE b == EncodeState(s)
           d == DecodeState(b)
<1>1. s # Refused
  BY CodecConstants
<1>2. ASSUME d # Refused PROVE Storable(s)
  <2>1. b \in String
    BY EncodeIsString
  <2>2. d = s
    BY <1>2, DecodeOfEncode
  <2>3. d \in StateLimits /\ Acceptable(d) /\ Len(b) <= MaxBytes
    BY <1>2, <2>1, DecodeIsCanonical
  <2> HIDE DEF d
  <2> QED BY <2>2, <2>3, StorableLimits DEF Storable
<1>3. ASSUME Storable(s) PROVE d = s
  <2>1. Len(b) <= MaxBytes /\ Acceptable(s) /\ s \in StateLimits
    BY <1>3, StorableLimits DEF Storable
  <2> QED BY <2>1, DecodeOfEncode
<1> HIDE DEF d
<1> QED BY <1>1, <1>2, <1>3 DEF d, b

-----------------------------------------------------------------------------
(* What is signed is read back in one way only.                            *)

LEMMA CatAt ==
  ASSUME NEW b \in String, NEW p \in Nat, NEW u \in String, NEW v \in String,
         At(b, p, Cat(u, v))
  PROVE  At(b, p, u) /\ At(b, p + Len(u), v)
BY AtCat DEF Cat

LEMMA SameRead ==
  ASSUME NEW b, NEW r, NEW x, NEW o, NEW w, NEW V, NEW L,
         Reads(b, r, x, o, w, V, L), r.ok,
         NEW u \in V, NEW v \in V, u \in L, v \in L,
         At(b, r.p, w[u]), At(b, r.p, w[v])
  PROVE  u = v
BY DEF Reads

CursorAt(p) == [p |-> p, ok |-> TRUE, out |-> <<>>]

LEMMA CursorAtFacts ==
  ASSUME NEW p \in Nat
  PROVE  CursorAt(p) \in Cursor(String) /\ CursorAt(p).ok /\ CursorAt(p).p = p
BY DEF CursorAt, Cursor, String

LEMMA SameText ==
  ASSUME NEW b \in String, NEW p \in Nat, NEW u \in String, NEW v \in String,
         ValidIdentifier(u), ValidIdentifier(v),
         At(b, p, Text(u)), At(b, p, Text(v))
  PROVE  u = v
<1> DEFINE r == CursorAt(p)
<1>1. r \in Cursor(String) /\ r.ok /\ r.p = p
  BY CursorAtFacts
<1> HIDE DEF r
<1>2. Reads(b, r, ReadId(b, r), ReadId(b, r).out, TextWriter, String, Ids)
  BY <1>1, IdReads
<1>3. u \in Ids /\ v \in Ids
  BY ValidIds
<1>4. At(b, r.p, TextWriter[u]) /\ At(b, r.p, TextWriter[v])
  BY <1>1, WriterFacts
<1> QED BY <1>1, <1>2, <1>3, <1>4, SameRead

LEMMA SameNumber ==
  ASSUME NEW b \in String, NEW p \in Nat,
         NEW u \in Word(NumberSize), NEW v \in Word(NumberSize),
         At(b, p, Number(u, NumberSize)), At(b, p, Number(v, NumberSize))
  PROVE  u = v
<1> DEFINE r == CursorAt(p)
           x == ReadNumber(b, r, NumberSize)
           V == Word(NumberSize)
           w == Numbers(NumberSize)
<1>1. r \in Cursor(String) /\ r.ok /\ r.p = p
  BY CursorAtFacts
<1>2. Reads(b, r, x, x.out, w, V, V)
  BY <1>1, SizeFacts, NumberReads
<1>3. At(b, r.p, w[u]) /\ At(b, r.p, w[v])
  BY <1>1, WriterFacts
<1> HIDE DEF r, x, w, V
<1>4. u \in V /\ v \in V
  BY DEF V
<1> QED BY <1>1, <1>2, <1>3, <1>4, SameRead

LEMMA SameEntries ==
  ASSUME NEW b \in String, NEW p \in Nat, NEW l, NEW m,
         l.entries \in Seq(EntryType), m.entries \in Seq(EntryType),
         ValidEntries(l), ValidEntries(m),
         At(b, p, List([i \in DOMAIN l.entries |-> EntryWrite(l.entries[i])])),
         At(b, p, List([i \in DOMAIN m.entries |-> EntryWrite(m.entries[i])]))
  PROVE  l.entries = m.entries
<1> DEFINE r == CursorAt(p)
           x == ReadList(b, r, MaxRevoked, ReadEntry)
           u == l.entries
           v == m.entries
<1>1. r \in Cursor(String) /\ r.ok /\ r.p = p
  BY CursorAtFacts
<1>2. Reads(b, r, x, x.out, EntryListWriter, Seq(EntryType), EntryLists(MaxRevoked))
  BY <1>1, LimitFacts, EntryListReads
<1>3. u \in EntryLists(MaxRevoked) /\ v \in EntryLists(MaxRevoked)
  BY ValidEntriesLimits
<1>4. At(b, r.p, EntryListWriter[u])
  <2>1. EntryListWriter[u] = List([i \in DOMAIN l.entries |-> EntryWrite(l.entries[i])])
    BY EntryListIs
  <2> HIDE DEF u, r
  <2> QED BY <1>1, <2>1, Zenon
<1>5. At(b, r.p, EntryListWriter[v])
  <2>1. EntryListWriter[v] = List([i \in DOMAIN m.entries |-> EntryWrite(m.entries[i])])
    BY EntryListIs
  <2> HIDE DEF v, r
  <2> QED BY <1>1, <2>1, Zenon
<1> HIDE DEF r, x, u, v
<1>6. u \in Seq(EntryType) /\ v \in Seq(EntryType)
  BY DEF u, v
<1>7. u = v
  BY <1>1, <1>2, <1>3, <1>4, <1>5, <1>6, SameRead
<1> QED BY <1>7 DEF u, v

LEMMA TextIsString == \A s \in String : Text(s) \in String
BY TextFacts

LEMMA NumberIsString ==
  \A n \in Word(NumberSize) :
    /\ Number(n, NumberSize) \in String
    /\ Len(Number(n, NumberSize)) = NumberSize
BY SizeFacts, NumberBytes DEF Word

Answers == {m \in MessageType : m.kind = "answer"}
Lists == {m \in MessageType : m.kind = "list"}

LEMMA MessageTypes ==
  /\ Answers = [kind : {"answer"},
                challenge : [deviceId : String, nonce : String,
                             policyVersion : Word(NumberSize),
                             sessionContext : String],
                response : [credentialId : String, keyId : String,
                            counter : Word(NumberSize)]]
  /\ Lists = [kind : {"list"},
              list : [version : Word(NumberSize), issuedAt : Word(NumberSize),
                      entries : Seq(EntryType)]]
  /\ MessageType = Answers \cup Lists
<1> DEFINE A == [kind : {"answer"},
                 challenge : [deviceId : String, nonce : String,
                              policyVersion : Word(NumberSize),
                              sessionContext : String],
                 response : [credentialId : String, keyId : String,
                             counter : Word(NumberSize)]]
           B == [kind : {"list"},
                 list : [version : Word(NumberSize), issuedAt : Word(NumberSize),
                         entries : Seq(EntryType)]]
<1>1. MessageType = A \cup B
  BY Zenon DEF MessageType
<1>2. \A m \in A : m.kind = "answer"
  OBVIOUS
<1>3. \A m \in B : m.kind = "list"
  OBVIOUS
<1>4. "answer" # "list"
  OBVIOUS
<1> HIDE DEF A, B
<1>5. Answers = A /\ Lists = B
  BY <1>1, <1>2, <1>3, <1>4 DEF Answers, Lists
<1> QED BY <1>1, <1>5 DEF A, B

(* The bytes of a challenge and its response, the last part taken off each *)
(* time.                                                                   *)
Part2(c) == Cat(<<AuthTag>>, Text(c.deviceId))
Part3(c) == Cat(Part2(c), c.nonce)
Part4(c, r) == Cat(Part3(c), Number(r.counter, NumberSize))
Part5(c, r) == Cat(Part4(c, r), Number(c.policyVersion, NumberSize))
Part6(c, r) == Cat(Part5(c, r), c.sessionContext)
Part7(c, r) == Cat(Part6(c, r), Text(r.credentialId))
Part8(c, r) == Cat(Part7(c, r), Text(r.keyId))

PartsAt(b, c, r) ==
  /\ At(b, 0, <<AuthTag>>) /\ At(b, 0 + Len(<<AuthTag>>), Text(c.deviceId))
  /\ At(b, 0 + Len(Part2(c)), c.nonce)
  /\ At(b, 0 + Len(Part3(c)), Number(r.counter, NumberSize))
  /\ At(b, 0 + Len(Part4(c, r)), Number(c.policyVersion, NumberSize))
  /\ At(b, 0 + Len(Part5(c, r)), c.sessionContext)
  /\ At(b, 0 + Len(Part6(c, r)), Text(r.credentialId))
  /\ At(b, 0 + Len(Part7(c, r)), Text(r.keyId))

PartsTyped(c, r) ==
  /\ Part2(c) \in String /\ Part3(c) \in String /\ Part4(c, r) \in String
  /\ Part5(c, r) \in String /\ Part6(c, r) \in String /\ Part7(c, r) \in String
  /\ Part8(c, r) \in String

LEMMA TranscriptParts ==
  ASSUME NEW m \in Answers, Signed(m) # <<>>
  PROVE  LET c == m.challenge
             r == m.response
         IN  /\ Signed(m) = Part8(c, r) /\ Signed(m) \in String
             /\ PartsTyped(c, r) /\ PartsAt(Signed(m), c, r)
             /\ ValidIdentifier(c.deviceId) /\ ValidIdentifier(r.credentialId)
             /\ ValidIdentifier(r.keyId)
             /\ Len(c.nonce) = NonceSize /\ Len(c.sessionContext) = ContextSize
<1> DEFINE c == m.challenge
           r == m.response
           b == Signed(m)
<1>1. /\ c.deviceId \in String /\ c.nonce \in String /\ c.sessionContext \in String
      /\ c.policyVersion \in Word(NumberSize) /\ r.counter \in Word(NumberSize)
      /\ r.credentialId \in String /\ r.keyId \in String
  BY MessageTypes
<1>2. b = Transcript(c, r)
  BY DEF Signed, Answers
<1>3. /\ ValidIdentifier(c.deviceId) /\ ValidIdentifier(r.credentialId)
      /\ ValidIdentifier(r.keyId)
      /\ Len(c.nonce) = NonceSize /\ Len(c.sessionContext) = ContextSize
      /\ b = <<AuthTag>> \o Text(c.deviceId) \o c.nonce
               \o Number(r.counter, NumberSize)
               \o Number(c.policyVersion, NumberSize) \o c.sessionContext
               \o Text(r.credentialId) \o Text(r.keyId)
  <2> HIDE DEF b, c, r
  <2>1. b # <<>>
    BY DEF b
  <2> QED BY <1>2, <2>1, Zenon DEF Transcript
<1> HIDE DEF c, r, b
<1>4. b = Part8(c, r)
  BY <1>3, Zenon DEF Cat, Part2, Part3, Part4, Part5, Part6, Part7, Part8
<1>5. /\ <<AuthTag>> \in String /\ Text(c.deviceId) \in String
      /\ Number(r.counter, NumberSize) \in String
      /\ Number(c.policyVersion, NumberSize) \in String
      /\ Text(r.credentialId) \in String /\ Text(r.keyId) \in String
  <2>1. <<AuthTag>> \in String
    BY CodecConstants DEF String
  <2>2. Text(c.deviceId) \in String /\ Text(r.credentialId) \in String
        /\ Text(r.keyId) \in String
    BY <1>1, TextIsString
  <2>3. /\ Number(r.counter, NumberSize) \in String
        /\ Number(c.policyVersion, NumberSize) \in String
    BY <1>1, NumberIsString
  <2> QED BY <2>1, <2>2, <2>3
<1>6. PartsTyped(c, r)
  <2>1. Part2(c) \in String
    BY <1>5, CatLaws DEF Part2
  <2>2. Part3(c) \in String
    BY <1>1, <2>1, CatLaws DEF Part3
  <2>3. Part4(c, r) \in String
    BY <1>5, <2>2, CatLaws DEF Part4
  <2>4. Part5(c, r) \in String
    BY <1>5, <2>3, CatLaws DEF Part5
  <2>5. Part6(c, r) \in String
    BY <1>1, <2>4, CatLaws DEF Part6
  <2>6. Part7(c, r) \in String
    BY <1>5, <2>5, CatLaws DEF Part7
  <2>7. Part8(c, r) \in String
    BY <1>5, <2>6, CatLaws DEF Part8
  <2> QED BY <2>1, <2>2, <2>3, <2>4, <2>5, <2>6, <2>7 DEF PartsTyped
<1>7. PartsAt(b, c, r)
  <2>0. b \in String /\ At(b, 0, Part8(c, r))
    BY <1>4, <1>6, AtSelf DEF PartsTyped
  <2>1. At(b, 0, Part7(c, r)) /\ At(b, 0 + Len(Part7(c, r)), Text(r.keyId))
    BY <1>5, <1>6, <2>0, CatAt DEF PartsTyped, Part8
  <2>2. At(b, 0, Part6(c, r)) /\ At(b, 0 + Len(Part6(c, r)), Text(r.credentialId))
    BY <1>5, <1>6, <2>0, <2>1, CatAt DEF PartsTyped, Part7
  <2>3. At(b, 0, Part5(c, r)) /\ At(b, 0 + Len(Part5(c, r)), c.sessionContext)
    BY <1>1, <1>6, <2>0, <2>2, CatAt DEF PartsTyped, Part6
  <2>4. /\ At(b, 0, Part4(c, r))
        /\ At(b, 0 + Len(Part4(c, r)), Number(c.policyVersion, NumberSize))
    BY <1>5, <1>6, <2>0, <2>3, CatAt DEF PartsTyped, Part5
  <2>5. /\ At(b, 0, Part3(c))
        /\ At(b, 0 + Len(Part3(c)), Number(r.counter, NumberSize))
    BY <1>5, <1>6, <2>0, <2>4, CatAt DEF PartsTyped, Part4
  <2>6. At(b, 0, Part2(c)) /\ At(b, 0 + Len(Part2(c)), c.nonce)
    BY <1>1, <1>6, <2>0, <2>5, CatAt DEF PartsTyped, Part3
  <2>7. At(b, 0, <<AuthTag>>) /\ At(b, 0 + Len(<<AuthTag>>), Text(c.deviceId))
    BY <1>5, <1>6, <2>0, <2>6, CatAt DEF PartsTyped, Part2
  <2> QED BY <2>1, <2>2, <2>3, <2>4, <2>5, <2>6, <2>7 DEF PartsAt
<1> QED BY <1>3, <1>4, <1>6, <1>7 DEF PartsTyped, b, c, r

LEMMA AnswersDistinct ==
  ASSUME NEW m \in Answers, NEW n \in Answers,
         Signed(m) = Signed(n), Signed(m) # <<>>
  PROVE  m = n
<1> DEFINE c == m.challenge
           r == m.response
           d == n.challenge
           q == n.response
           b == Signed(m)
<1>1. /\ c.deviceId \in String /\ c.nonce \in String /\ c.sessionContext \in String
      /\ c.policyVersion \in Word(NumberSize) /\ r.counter \in Word(NumberSize)
      /\ r.credentialId \in String /\ r.keyId \in String
  BY MessageTypes
<1>2. /\ d.deviceId \in String /\ d.nonce \in String /\ d.sessionContext \in String
      /\ d.policyVersion \in Word(NumberSize) /\ q.counter \in Word(NumberSize)
      /\ q.credentialId \in String /\ q.keyId \in String
  BY MessageTypes
<1>3. /\ b \in String /\ PartsTyped(c, r) /\ PartsAt(b, c, r)
      /\ ValidIdentifier(c.deviceId) /\ ValidIdentifier(r.credentialId)
      /\ ValidIdentifier(r.keyId)
      /\ Len(c.nonce) = NonceSize /\ Len(c.sessionContext) = ContextSize
  BY TranscriptParts
<1>4. /\ PartsTyped(d, q) /\ PartsAt(b, d, q)
      /\ ValidIdentifier(d.deviceId) /\ ValidIdentifier(q.credentialId)
      /\ ValidIdentifier(q.keyId)
      /\ Len(d.nonce) = NonceSize /\ Len(d.sessionContext) = ContextSize
  BY TranscriptParts
<1> HIDE DEF c, r, d, q, b
<1>5. /\ Len(<<AuthTag>>) \in Nat /\ Len(Part2(c)) \in Nat /\ Len(Part3(c)) \in Nat
      /\ Len(Part4(c, r)) \in Nat /\ Len(Part5(c, r)) \in Nat
      /\ Len(Part6(c, r)) \in Nat /\ Len(Part7(c, r)) \in Nat
  <2>1. \A s \in String : Len(s) \in Nat
    BY DEF String
  <2>2. <<AuthTag>> \in String
    BY CodecConstants DEF String
  <2> QED BY <1>3, <2>1, <2>2 DEF PartsTyped
<1>6. c.deviceId = d.deviceId
  <2>1. 0 + Len(<<AuthTag>>) \in Nat
    BY <1>5
  <2> QED BY <1>1, <1>2, <1>3, <1>4, <2>1, SameText DEF PartsAt
<1>7. c.nonce = d.nonce
  <2>1. Part2(c) = Part2(d)
    BY <1>6 DEF Part2
  <2> QED BY <1>1, <1>2, <1>3, <1>4, <2>1, AtSame DEF PartsAt
<1>8. Part3(c) = Part3(d)
  BY <1>6, <1>7 DEF Part3, Part2
<1>9. r.counter = q.counter
  <2>1. 0 + Len(Part3(c)) \in Nat
    BY <1>5
  <2> QED BY <1>1, <1>2, <1>3, <1>4, <1>8, <2>1, SameNumber DEF PartsAt
<1>10. Part4(c, r) = Part4(d, q)
  BY <1>8, <1>9 DEF Part4
<1>11. c.policyVersion = d.policyVersion
  <2>1. 0 + Len(Part4(c, r)) \in Nat
    BY <1>5
  <2> QED BY <1>1, <1>2, <1>3, <1>4, <1>10, <2>1, SameNumber DEF PartsAt
<1>12. Part5(c, r) = Part5(d, q)
  BY <1>10, <1>11 DEF Part5
<1>13. c.sessionContext = d.sessionContext
  BY <1>1, <1>2, <1>3, <1>4, <1>12, AtSame DEF PartsAt
<1>14. Part6(c, r) = Part6(d, q)
  BY <1>12, <1>13 DEF Part6
<1>15. r.credentialId = q.credentialId
  <2>1. 0 + Len(Part6(c, r)) \in Nat
    BY <1>5
  <2> QED BY <1>1, <1>2, <1>3, <1>4, <1>14, <2>1, SameText DEF PartsAt
<1>16. Part7(c, r) = Part7(d, q)
  BY <1>14, <1>15 DEF Part7
<1>17. r.keyId = q.keyId
  <2>1. 0 + Len(Part7(c, r)) \in Nat
    BY <1>5
  <2> QED BY <1>1, <1>2, <1>3, <1>4, <1>16, <2>1, SameText DEF PartsAt
<1>18. c = d
  <2>1. /\ c = [deviceId |-> c.deviceId, nonce |-> c.nonce,
                policyVersion |-> c.policyVersion,
                sessionContext |-> c.sessionContext]
        /\ d = [deviceId |-> d.deviceId, nonce |-> d.nonce,
                policyVersion |-> d.policyVersion,
                sessionContext |-> d.sessionContext]
    BY MessageTypes DEF c, d
  <2> QED BY <1>6, <1>7, <1>11, <1>13, <2>1
<1>19. r = q
  <2>1. /\ r = [credentialId |-> r.credentialId, keyId |-> r.keyId,
                counter |-> r.counter]
        /\ q = [credentialId |-> q.credentialId, keyId |-> q.keyId,
                counter |-> q.counter]
    BY MessageTypes DEF r, q
  <2> QED BY <1>9, <1>15, <1>17, <2>1
<1>20. /\ m = [kind |-> "answer", challenge |-> c, response |-> r]
       /\ n = [kind |-> "answer", challenge |-> d, response |-> q]
  BY MessageTypes DEF c, r, d, q
<1> QED BY <1>18, <1>19, <1>20

(* The bytes of a revocation list.                                         *)
LEMMA PayloadParts ==
  ASSUME NEW m \in Lists, Signed(m) # <<>>
  PROVE  LET l == m.list
             b == Signed(m)
         IN  /\ b \in String /\ ValidEntries(l) /\ At(b, 0, <<CrlTag>>)
             /\ At(b, 1, Number(l.version, NumberSize))
             /\ At(b, 1 + NumberSize, Number(l.issuedAt, NumberSize))
             /\ At(b, (1 + NumberSize) + NumberSize,
                   List([i \in DOMAIN l.entries |-> EntryWrite(l.entries[i])]))
<1> DEFINE l == m.list
           b == Signed(m)
           t == <<CrlTag>>
           v == Number(l.version, NumberSize)
           u == Number(l.issuedAt, NumberSize)
           es == List([i \in DOMAIN l.entries |-> EntryWrite(l.entries[i])])
           head == Cat(v, u)
           tail == Cat(head, es)
<1>1. /\ l.version \in Word(NumberSize) /\ l.issuedAt \in Word(NumberSize)
      /\ l.entries \in Seq(EntryType)
  BY MessageTypes
<1>2. b = RevocationPayload(l)
  BY DEF Signed, Lists
<1>3. ValidEntries(l) /\ b = t \o ListWrite(l)
  BY <1>2, Zenon DEF RevocationPayload
<1>4. b = Cat(t, tail)
  BY <1>3, Zenon DEF ListWrite, Cat
<1>5. v \in String /\ u \in String /\ Len(v) = NumberSize /\ Len(u) = NumberSize
  BY <1>1, NumberIsString
<1>6. es \in String
  <2>1. EntryListWriter[l.entries] = es
    BY <1>1, EntryListIs
  <2> HIDE DEF es, l
  <2> QED BY <1>1, <2>1, EntryListIs
<1>7. t \in String /\ Len(t) = 1
  BY CodecConstants DEF String
<1> HIDE DEF b, t, v, u, es
<1>8. head \in String
  BY <1>5, CatLaws
<1> HIDE DEF head
<1>9. tail \in String
  BY <1>6, <1>8, CatLaws
<1> HIDE DEF tail
<1>10. b \in String /\ At(b, 0, Cat(t, tail))
  BY <1>4, <1>7, <1>9, AtSelf, CatLaws
<1>11. At(b, 0, t) /\ At(b, 1, tail)
  <2>1. At(b, 0, t) /\ At(b, 0 + Len(t), tail)
    BY <1>7, <1>9, <1>10, CatAt
  <2>2. 0 + Len(t) = 1
    BY <1>7
  <2> QED BY <2>1, <2>2
<1>12. At(b, 1, head) /\ At(b, 1 + Len(head), es)
  BY <1>6, <1>8, <1>10, <1>11, CatAt DEF tail
<1>13. At(b, 1, v) /\ At(b, 1 + NumberSize, u)
  BY <1>5, <1>10, <1>12, CatAt DEF head
<1>14. 1 + Len(head) = (1 + NumberSize) + NumberSize
  <2>1. Len(head) = NumberSize + NumberSize
    BY <1>5, CatFacts DEF head, Cat
  <2> QED BY <2>1, SizeFacts
<1>15. At(b, (1 + NumberSize) + NumberSize, es)
  BY <1>12, <1>14
<1> QED BY <1>3, <1>10, <1>11, <1>13, <1>15 DEF b, t, v, u, es

LEMMA ListsDistinct ==
  ASSUME NEW m \in Lists, NEW n \in Lists,
         Signed(m) = Signed(n), Signed(m) # <<>>
  PROVE  m = n
<1> DEFINE l == m.list
           k == n.list
           b == Signed(m)
<1>1. /\ l.version \in Word(NumberSize) /\ l.issuedAt \in Word(NumberSize)
      /\ l.entries \in Seq(EntryType)
      /\ k.version \in Word(NumberSize) /\ k.issuedAt \in Word(NumberSize)
      /\ k.entries \in Seq(EntryType)
  BY MessageTypes
<1>2. /\ b \in String /\ ValidEntries(l)
      /\ At(b, 1, Number(l.version, NumberSize))
      /\ At(b, 1 + NumberSize, Number(l.issuedAt, NumberSize))
      /\ At(b, (1 + NumberSize) + NumberSize,
            List([i \in DOMAIN l.entries |-> EntryWrite(l.entries[i])]))
  BY PayloadParts
<1>3. /\ ValidEntries(k)
      /\ At(b, 1, Number(k.version, NumberSize))
      /\ At(b, 1 + NumberSize, Number(k.issuedAt, NumberSize))
      /\ At(b, (1 + NumberSize) + NumberSize,
            List([i \in DOMAIN k.entries |-> EntryWrite(k.entries[i])]))
  BY PayloadParts
<1> HIDE DEF l, k, b
<1>4. 1 + NumberSize \in Nat /\ (1 + NumberSize) + NumberSize \in Nat
  BY SizeFacts
<1>5. l.version = k.version /\ l.issuedAt = k.issuedAt
  BY <1>1, <1>2, <1>3, <1>4, SameNumber
<1>6. l.entries = k.entries
  BY <1>1, <1>2, <1>3, <1>4, SameEntries
<1>7. /\ l = [version |-> l.version, issuedAt |-> l.issuedAt, entries |-> l.entries]
      /\ k = [version |-> k.version, issuedAt |-> k.issuedAt, entries |-> k.entries]
      /\ m = [kind |-> "list", list |-> l] /\ n = [kind |-> "list", list |-> k]
  BY MessageTypes DEF l, k
<1> QED BY <1>5, <1>6, <1>7

LEMMA MessagesDistinct ==
  ASSUME NEW m \in MessageType, NEW n \in MessageType,
         Signed(m) = Signed(n), Signed(m) # <<>>
  PROVE  m = n
<1>1. ASSUME NEW a \in Answers, NEW l \in Lists, Signed(a) = Signed(l),
             Signed(a) # <<>>
      PROVE  FALSE
  <2>1. At(Signed(a), 0, <<AuthTag>>)
    BY <1>1, TranscriptParts DEF PartsAt
  <2>2. At(Signed(a), 0, <<CrlTag>>)
    BY <1>1, PayloadParts
  <2>3. AuthTag \in Byte /\ CrlTag \in Byte /\ AuthTag # CrlTag
    BY CodecConstants
  <2>4. <<AuthTag>> \in String /\ <<CrlTag>> \in String
        /\ Len(<<AuthTag>>) = Len(<<CrlTag>>)
    BY <2>3 DEF String
  <2>5. <<AuthTag>> = <<CrlTag>>
    BY <2>1, <2>2, <2>4, AtSame
  <2> QED BY <2>3, <2>5
<1>2. MessageType = Answers \cup Lists
  BY MessageTypes
<1> QED BY <1>1, <1>2, AnswersDistinct, ListsDistinct

-----------------------------------------------------------------------------
(* What holds in every state of a behaviour, inductively: the flash is     *)
(* empty or holds what was made of the encoding of the state, which        *)
(* decodes exactly when save went on, and what is loaded is what the bytes *)
(* in flash decode to, or nothing.                                         *)
CodecInv ==
  /\ flash \in String /\ state \in States \cup {Refused}
  /\ message \in Messages \cup {NoMessage}
  /\ step \in {"start", "refused", "failed", "written", "damaged"}
  /\ step # "start" => state # Refused
  /\ step \in {"start", "refused", "failed"} => flash = <<>> /\ loaded = Refused
  /\ step = "refused" => DecodeState(EncodeState(state)) = Refused
  /\ step \in {"failed", "written"} => DecodeState(EncodeState(state)) # Refused
  /\ step = "written" => flash = EncodeState(state)
  /\ loaded \in {Refused, DecodeState(flash)}

LEMMA StatesTyped ==
  /\ States \subseteq StateType /\ Messages \subseteq MessageType
  /\ IdBytes \cup {0, 1} \subseteq Byte /\ {1, Base - 1} \subseteq Nat
BY CodecConstants DEF Byte

LEMMA CodecInvInit == CodecInit => CodecInv
<1> SUFFICES ASSUME CodecInit PROVE CodecInv
  OBVIOUS
<1>1. flash \in String /\ state \in States \cup {Refused}
      /\ message \in Messages \cup {NoMessage}
  BY DEF CodecInit, String
<1>2. step = "start" /\ loaded = Refused /\ flash = <<>>
  BY DEF CodecInit
<1> QED BY <1>1, <1>2 DEF CodecInv

LEMMA SaveKeeps == CodecInv /\ Save => CodecInv'
<1> SUFFICES ASSUME CodecInv, Save PROVE CodecInv'
  OBVIOUS
<1> DEFINE b == EncodeState(state)
           d == DecodeState(b)
<1>1. /\ state \in States /\ state \in StateType /\ step = "start"
      /\ state' = state /\ message' = message /\ loaded' = loaded
      /\ flash \in String /\ message \in Messages \cup {NoMessage}
      /\ flash = <<>> /\ loaded = Refused
  BY StatesTyped DEF CodecInv, Save
<1>2. b \in String
  BY <1>1, EncodeIsString
<1>3. \/ d = Refused /\ step' = "refused" /\ flash' = flash
      \/ d # Refused /\ step' = "failed" /\ flash' = flash
      \/ d # Refused /\ step' = "written" /\ flash' = b
  BY Zenon DEF Save
<1>4. state # Refused
  BY DEF Save
<1>5. loaded' \in {Refused, DecodeState(flash')}
  BY <1>1
<1>6. /\ step' = "refused" => DecodeState(EncodeState(state')) = Refused
      /\ step' \in {"failed", "written"} => DecodeState(EncodeState(state')) # Refused
      /\ step' = "written" => flash' = EncodeState(state')
  BY <1>1, <1>3
<1> HIDE DEF b, d
<1> QED BY <1>1, <1>2, <1>3, <1>4, <1>5, <1>6 DEF CodecInv

(* Whatever the damage, bytes stay in flash.                               *)
LEMMA DamageKeeps == CodecInv /\ Damage => CodecInv'
<1> SUFFICES ASSUME CodecInv, Damage PROVE CodecInv'
  OBVIOUS
<1>1. /\ flash \in String /\ flash \in Seq(Byte) /\ Len(flash) \in Nat
      /\ state \in States \cup {Refused} /\ message \in Messages \cup {NoMessage}
      /\ state # Refused
      /\ step' = "damaged" /\ loaded' = Refused /\ state' = state
      /\ message' = message
  BY DEF CodecInv, Damage, String
<1>2. CASE \E n \in 1..(Len(flash) - 1) : flash' = SubSeq(flash, 1, n)
  <2>1. PICK n \in 1..(Len(flash) - 1) : flash' = SubSeq(flash, 1, n)
    BY <1>2
  <2>2. n \in Nat /\ 0 \in Nat /\ 0 + n <= Len(flash) /\ 0 + n = n /\ 0 + 1 = 1
    BY <1>1
  <2>3. SubSeq(flash, 0 + 1, 0 + n) \in String
    BY <1>1, <2>2, Slice
  <2> QED BY <1>1, <2>1, <2>2, <2>3 DEF CodecInv
<1>3. CASE \E c \in IdBytes \cup {0, 1} : flash' = Append(flash, c)
  <2>1. PICK c \in Byte : flash' = Append(flash, c)
    BY <1>3, StatesTyped
  <2>2. flash' \in String
    BY <1>1, <2>1 DEF String
  <2> QED BY <1>1, <2>2 DEF CodecInv
<1>4. CASE \E i \in DOMAIN flash, d \in {1, Base - 1} :
             flash' = [flash EXCEPT ![i] = (@ + d) % Base]
  <2>1. PICK i \in DOMAIN flash, d \in {1, Base - 1} :
          flash' = [flash EXCEPT ![i] = (@ + d) % Base]
    BY <1>4
  <2>2. d \in Nat /\ flash[i] \in Nat
    BY <1>1, StatesTyped DEF Byte
  <2> DEFINE c == (flash[i] + d) % Base
  <2>3. c \in Byte
    <3>1. flash[i] + d \in Nat
      BY <2>2
    <3> DEFINE m == flash[i] + d
    <3> HIDE DEF m
    <3>2. m \in Nat
      BY <3>1 DEF m
    <3>3. (m % Base) \in Byte
      BY <3>2, Division
    <3> QED BY <3>3 DEF m
  <2>4. flash' = [flash EXCEPT ![i] = c]
    BY <2>1
  <2> HIDE DEF c
  <2>5. flash' \in String
    BY <1>1, <2>3, <2>4 DEF String
  <2> QED BY <1>1, <2>5 DEF CodecInv
<1> QED BY <1>2, <1>3, <1>4 DEF Damage

LEMMA LoadKeeps == CodecInv /\ Load => CodecInv'
<1> SUFFICES ASSUME CodecInv, Load PROVE CodecInv'
  OBVIOUS
<1>1. /\ loaded' = IF Len(flash) \in 1..MaxBytes THEN DecodeState(flash) ELSE Refused
      /\ state' = state /\ message' = message /\ flash' = flash /\ step' = step
  BY DEF Load
<1>2. loaded' \in {Refused, DecodeState(flash')}
  BY <1>1
<1>3. flash = <<>> => loaded' = Refused
  BY <1>1
<1> QED BY <1>1, <1>2, <1>3 DEF CodecInv

(* The strengthening that makes the properties below inductive holds of    *)
(* every state that save, damage in flash and load lead to.                *)
THEOREM CodecTypeCorrect == CodecSpec => []CodecInv
<1>1. CodecInv /\ UNCHANGED codecVars => CodecInv'
  BY DEF CodecInv, codecVars
<1>2. CodecInv /\ [CodecNext]_codecVars => CodecInv'
  BY <1>1, SaveKeeps, DamageKeeps, LoadKeeps DEF CodecNext
<1> QED BY <1>2, CodecInvInit, PTL DEF CodecSpec

(* No state that save() accepts is stored as another one: the wrapping of  *)
(* the lengths in Writer::text and Writer::count is always caught by the   *)
(* limits of the Reader, for any sizes and limits that fit their fields.   *)
THEOREM SavedStatesAreLoaded == CodecSpec => []SavedIsLoaded
<1>1. CodecInv => SavedIsLoaded
  <2> SUFFICES ASSUME CodecInv, step = "written"
               PROVE  DecodeState(flash) = state /\ loaded \in {Refused, state}
    BY DEF SavedIsLoaded
  <2>1. /\ state \in StateType /\ flash = EncodeState(state)
        /\ DecodeState(EncodeState(state)) # Refused
        /\ loaded \in {Refused, DecodeState(flash)}
    BY StatesTyped DEF CodecInv
  <2>2. DecodeState(EncodeState(state)) = state
    BY <2>1, DecodeOfEncode
  <2> QED BY <2>1, <2>2
<1> QED BY <1>1, CodecTypeCorrect, PTL

(* Whatever has become of the bytes in flash, what load() makes of them is *)
(* nothing, or the one state that save() writes as these very bytes.       *)
THEOREM LoadedStatesAreCanonical == CodecSpec => []LoadIsCanonical
<1>1. CodecInv => LoadIsCanonical
  <2> SUFFICES ASSUME CodecInv, loaded # Refused
               PROVE  EncodeState(loaded) = flash
    BY DEF LoadIsCanonical
  <2>1. flash \in String /\ loaded = DecodeState(flash)
    BY DEF CodecInv
  <2> QED BY <2>1, DecodeIsCanonical
<1> QED BY <1>1, CodecTypeCorrect, PTL

(* save() refuses a state exactly when a rule or a limit refuses it: the   *)
(* encoding itself loses none.                                             *)
THEOREM OnlyUnstorableIsRefused == CodecSpec => []RefusesUnstorable
<1>1. CodecInv => RefusesUnstorable
  <2> SUFFICES ASSUME CodecInv PROVE RefusesUnstorable
    OBVIOUS
  <2>1. ASSUME step = "refused" PROVE ~Storable(state)
    <3>1. state \in StateType /\ DecodeState(EncodeState(state)) = Refused
      BY <2>1, StatesTyped DEF CodecInv
    <3> QED BY <3>1, StorableIsStored
  <2>2. ASSUME step \in {"failed", "written"} PROVE Storable(state)
    <3>1. state \in StateType /\ DecodeState(EncodeState(state)) # Refused
      BY <2>2, StatesTyped DEF CodecInv
    <3> QED BY <3>1, StorableIsStored
  <2> QED BY <2>1, <2>2 DEF RefusesUnstorable
<1> QED BY <1>1, CodecTypeCorrect, PTL

(* No two different messages have the same bytes under a MAC or a          *)
(* signature, whatever texts, numbers and lists they hold.                 *)
THEOREM SignedMessagesDiffer == CodecSpec => []SignedBytesDistinct
<1>1. CodecInv => SignedBytesDistinct
  <2> SUFFICES ASSUME CodecInv, message # NoMessage, Signed(message) # <<>>,
                      NEW m \in Messages, Signed(m) = Signed(message)
               PROVE  m = message
    BY DEF SignedBytesDistinct
  <2>1. message \in MessageType /\ m \in MessageType
    BY StatesTyped DEF CodecInv
  <2> QED BY <2>1, MessagesDistinct
<1> QED BY <1>1, CodecTypeCorrect, PTL

=============================================================================
