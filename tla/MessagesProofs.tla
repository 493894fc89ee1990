--------------------------- MODULE MessagesProofs ---------------------------
(***************************************************************************)
(* Proofs about the subscriptions of the Cayenne layer: the number of a    *)
(* channel survives its way through a topic name, and the table of message *)
(* handlers is what the subscriptions ask for, with calls nested in calls. *)
(***************************************************************************)
EXTENDS Messages, SequenceTheorems, WellFoundedInduction, TLAPS

(* Every set of natural numbers has a least element, and so induction can  *)
(* be written with sets.                                                   *)
LEMMA LeastNatural ==
    ASSUME NEW T, T \subseteq Nat, T # {}
    PROVE  \E m \in T : \A k \in T : m <= k
<1> DEFINE R == OpToRel(<, Nat)
<1>1. IsWellFoundedOn(R, Nat)
  BY NatLessThanWellFounded, Zenon
<1>2. \A x, y \in Nat : <<x, y>> \in R <=> x < y
  BY DEF OpToRel
<1> HIDE DEF R
<1>3. PICK m \in T : \A y \in T : ~(<<y, m>> \in R)
  BY <1>1, WFMin, Zenon
<1>4. ASSUME NEW k \in T PROVE m <= k
  <2>1. m \in Nat /\ k \in Nat /\ ~(<<k, m>> \in R)
    BY <1>3
  <2>2. ~(k < m)
    BY <1>2, <2>1, Zenon
  <2> QED  BY <2>1, <2>2
<1> QED  BY <1>4

(* Induction on the natural numbers, for a set. *)
LEMMA SetInduction ==
    ASSUME NEW S, 0 \in S, \A n \in Nat : n \in S => n + 1 \in S
    PROVE  Nat \subseteq S
<1> SUFFICES ASSUME Nat \ S # {} PROVE FALSE
  OBVIOUS
<1>1. PICK m \in Nat \ S : \A k \in Nat \ S : m <= k
  BY LeastNatural, Zenon
<1>2. m # 0 /\ m - 1 \in Nat
  BY <1>1
<1>3. m - 1 \in S
  BY <1>1, <1>2
<1>4. (m - 1) + 1 \in S
  BY <1>2, <1>3
<1> QED  BY <1>1, <1>4
-----------------------------------------------------------------------------
(* Decimal: the recursion has a solution, and only one.                    *)

(* One step of the recursion, and a solution up to n. *)
DecimalStep(g, k) == IF k < 10 THEN <<k>> ELSE Append(g[k \div 10], k % 10)

IsDecimal(g, n) == g \in [0..n -> Seq(Digits)] /\ \A k \in 0..n : g[k] = DecimalStep(g, k)

(* The digits of every number exist, *)
LEMMA DecimalExists ==
    ASSUME NEW n \in Nat
    PROVE  \E g : IsDecimal(g, n)
<1> DEFINE S == {m \in Nat : \E g : IsDecimal(g, m)}
<1>1. 0 \in S
  <2> DEFINE g == [k \in 0..0 |-> <<0>>]
  <2>1. g \in [0..0 -> Seq(Digits)] /\ g[0] = <<0>>
    BY DEF Digits
  <2>2. \A k \in 0..0 : k = 0
    OBVIOUS
  <2>3. IsDecimal(g, 0)
    BY <2>1, <2>2 DEF IsDecimal, DecimalStep
  <2> QED  BY <2>3
<1>2. ASSUME NEW m \in Nat, m \in S PROVE m + 1 \in S
  <2>1. PICK g : IsDecimal(g, m)
    BY <1>2
  <2> DEFINE h == [k \in 0..m + 1 |-> IF k = m + 1 THEN DecimalStep(g, m + 1) ELSE g[k]]
  <2>2. DecimalStep(g, m + 1) \in Seq(Digits)
    <3>1. CASE m + 1 < 10
      BY <3>1 DEF DecimalStep, Digits
    <3>2. CASE ~(m + 1 < 10)
      <4>1. (m + 1) \div 10 \in 0..m /\ (m + 1) % 10 \in Digits
        BY <3>2 DEF Digits
      <4>2. g[(m + 1) \div 10] \in Seq(Digits)
        BY <2>1, <4>1 DEF IsDecimal
      <4> QED  BY <3>2, <4>1, <4>2 DEF DecimalStep
    <3> QED  BY <3>1, <3>2
  <2>3. h \in [0..m + 1 -> Seq(Digits)]
    BY <2>1, <2>2 DEF IsDecimal
  <2>4. ASSUME NEW k \in 0..m + 1 PROVE h[k] = DecimalStep(h, k)
    <3>1. k >= 10 => k \div 10 \in 0..m /\ k \div 10 # m + 1
      OBVIOUS
    <3>2. k >= 10 => h[k \div 10] = g[k \div 10]
      BY <3>1
    <3>3. DecimalStep(h, k) = DecimalStep(g, k)
      BY <3>2 DEF DecimalStep
    <3>4. k # m + 1 => k \in 0..m
      OBVIOUS
    <3> QED  BY <2>1, <3>3, <3>4 DEF IsDecimal
  <2> HIDE DEF h
  <2>5. IsDecimal(h, m + 1)
    BY <2>3, <2>4 DEF IsDecimal
  <2> QED  BY <2>5
<1> HIDE DEF S
<1>3. Nat \subseteq S
  BY <1>1, <1>2, SetInduction
<1> QED  BY <1>3 DEF S

(* and are determined by it. *)
LEMMA DecimalUnique ==
    ASSUME NEW m \in Nat, NEW n \in Nat, NEW g, NEW h, IsDecimal(g, m), IsDecimal(h, n),
           NEW k \in Nat, k <= m, k <= n
    PROVE  g[k] = h[k]
<1> DEFINE T == {j \in Nat : j <= m /\ j <= n /\ g[j] # h[j]}
<1> SUFFICES ASSUME T # {} PROVE FALSE
  OBVIOUS
<1>1. PICK j \in T : \A i \in T : j <= i
  BY LeastNatural, Zenon
<1>2. g[j] = DecimalStep(g, j) /\ h[j] = DecimalStep(h, j)
  BY DEF IsDecimal
<1>3. j \in Nat /\ j >= 10
  BY <1>2 DEF DecimalStep
<1>4. j \div 10 \in Nat /\ j \div 10 < j
  BY <1>3
<1>5. j \div 10 \notin T
  BY <1>1, <1>3, <1>4
<1>6. g[j \div 10] = h[j \div 10]
  BY <1>3, <1>4, <1>5
<1> QED  BY <1>2, <1>6 DEF DecimalStep

(* Decimal is what its definition says. *)
LEMMA DecimalDef ==
    ASSUME NEW n \in Nat
    PROVE  Decimal[n] = DecimalStep(Decimal, n)
<1> DEFINE G(m) == CHOOSE g : IsDecimal(g, m)
<1> DEFINE f == [m \in Nat |-> G(m)[m]]
<1>1. ASSUME NEW m \in Nat PROVE IsDecimal(G(m), m)
  BY DecimalExists
<1>2. ASSUME NEW m \in Nat PROVE f[m] = DecimalStep(f, m)
  <2>1. G(m)[m] = DecimalStep(G(m), m)
    <3> HIDE DEF G
    <3>1. m \in 0..m
      OBVIOUS
    <3> QED  BY <1>1, <3>1, Zenon DEF IsDecimal
  <2>2. CASE m < 10
    BY <2>1, <2>2 DEF DecimalStep
  <2>3. CASE ~(m < 10)
    <3>1. m \div 10 \in Nat /\ m \div 10 <= m
      BY <2>3
    <3>2. IsDecimal(G(m \div 10), m \div 10)
      BY <1>1, <3>1
    <3>3. G(m)[m \div 10] = G(m \div 10)[m \div 10]
      BY <1>1, <3>1, <3>2, DecimalUnique
    <3>4. f[m \div 10] = G(m)[m \div 10]
      BY <3>1, <3>3
    <3> QED  BY <2>1, <3>4 DEF DecimalStep
  <2> QED  BY <2>2, <2>3
<1> HIDE DEF G
<1>3. f = [m \in Nat |-> IF m < 10 THEN <<m>> ELSE Append(f[m \div 10], m % 10)]
  BY <1>2 DEF DecimalStep
<1> HIDE DEF f
<1>4. \E F : F = [m \in Nat |-> IF m < 10 THEN <<m>> ELSE Append(F[m \div 10], m % 10)]
  BY <1>3
<1>5. Decimal = [m \in Nat |-> IF m < 10 THEN <<m>> ELSE Append(Decimal[m \div 10], m % 10)]
  BY <1>4, Zenon DEF Decimal
<1> QED  BY <1>5, Zenon DEF DecimalStep

(* The digits of a number, without a leading zero. *)
LEMMA DecimalDigits ==
    ASSUME NEW n \in Nat
    PROVE  /\ Decimal[n] \in Seq(Digits) /\ Decimal[n] # <<>>
           /\ n = 0 => Decimal[n] = <<0>>
           /\ n > 0 => Decimal[n][1] # 0
<1> DEFINE OK(m) == /\ Decimal[m] \in Seq(Digits) /\ Decimal[m] # <<>>
                    /\ m = 0 => Decimal[m] = <<0>>
                    /\ m > 0 => Decimal[m][1] # 0
<1> DEFINE T == {m \in Nat : ~OK(m)}
<1> SUFFICES ASSUME T # {} PROVE FALSE
  OBVIOUS
<1>1. PICK m \in T : \A i \in T : m <= i
  BY LeastNatural, Zenon
<1>2. m \in Nat /\ ~OK(m)
  OBVIOUS
<1>3. CASE m < 10
  <2>1. Decimal[m] = <<m>>
    BY <1>2, <1>3, DecimalDef, Zenon DEF DecimalStep
  <2>2. m \in Digits
    BY <1>2, <1>3 DEF Digits
  <2> QED  BY <1>2, <2>1, <2>2
<1>4. CASE ~(m < 10)
  <2>1. Decimal[m] = Append(Decimal[m \div 10], m % 10)
    BY <1>2, <1>4, DecimalDef, Zenon DEF DecimalStep
  <2>2. m \div 10 \in Nat /\ m \div 10 < m /\ m \div 10 > 0 /\ m % 10 \in Digits
    BY <1>2, <1>4 DEF Digits
  <2>3. OK(m \div 10)
    BY <1>1, <1>2, <2>2
  <2> DEFINE d == Decimal[m \div 10]
  <2>4. d \in Seq(Digits) /\ d # <<>> /\ d[1] # 0
    BY <2>2, <2>3
  <2> HIDE DEF d
  <2>5. Append(d, m % 10) \in Seq(Digits) /\ Append(d, m % 10) # <<>> /\ Append(d, m % 10)[1] = d[1]
    BY <2>2, <2>4
  <2>6. Decimal[m] = Append(d, m % 10)
    BY <2>1 DEF d
  <2> QED  BY <1>2, <1>4, <2>4, <2>5, <2>6
<1> QED  BY <1>3, <1>4
-----------------------------------------------------------------------------
(* Number: likewise, digit by digit.                                       *)

IsValue(v, s, n) ==
    v \in [0..n -> Nat] /\ v[0] = 0 /\ \A k \in 1..n : v[k] = 10 * v[k - 1] + s[k]

(* The number that a sequence of digits stands for exists, *)
LEMMA ValueExists ==
    ASSUME NEW s \in Seq(Nat), NEW n \in Nat
    PROVE  n <= Len(s) => \E v : IsValue(v, s, n)
<1> DEFINE S == {m \in Nat : m <= Len(s) => \E v : IsValue(v, s, m)}
<1>1. 0 \in S
  <2> DEFINE v == [k \in 0..0 |-> 0]
  <2>1. IsValue(v, s, 0)
    BY DEF IsValue
  <2> QED  BY <2>1
<1>2. ASSUME NEW m \in Nat, m \in S PROVE m + 1 \in S
  <2> SUFFICES ASSUME m + 1 <= Len(s) PROVE \E v : IsValue(v, s, m + 1)
    OBVIOUS
  <2>1. PICK v : IsValue(v, s, m)
    BY <1>2
  <2> DEFINE w == [k \in 0..m + 1 |-> IF k = m + 1 THEN 10 * v[m] + s[m + 1] ELSE v[k]]
  <2>2. v[m] \in Nat /\ s[m + 1] \in Nat
    BY <2>1 DEF IsValue
  <2>3. w \in [0..m + 1 -> Nat]
    BY <2>1, <2>2 DEF IsValue
  <2>4. w[0] = 0
    BY <2>1 DEF IsValue
  <2>5. ASSUME NEW k \in 1..m + 1 PROVE w[k] = 10 * w[k - 1] + s[k]
    <3>1. w[k - 1] = v[k - 1]
      OBVIOUS
    <3>2. CASE k = m + 1
      BY <3>1, <3>2
    <3>3. CASE k # m + 1
      <4>1. k \in 1..m
        BY <3>3
      <4> QED  BY <2>1, <3>1, <3>3, <4>1 DEF IsValue
    <3> QED  BY <3>2, <3>3
  <2> HIDE DEF w
  <2>6. IsValue(w, s, m + 1)
    BY <2>3, <2>4, <2>5 DEF IsValue
  <2> QED  BY <2>6
<1> HIDE DEF S
<1>3. Nat \subseteq S
  BY <1>1, <1>2, SetInduction
<1> QED  BY <1>3 DEF S

(* and is determined by them. *)
LEMMA ValueUnique ==
    ASSUME NEW s, NEW t, NEW v, NEW w, NEW m \in Nat, NEW n \in Nat,
           IsValue(v, s, m), IsValue(w, t, n),
           NEW k \in Nat, k <= m, k <= n, \A i \in 1..k : s[i] = t[i]
    PROVE  v[k] = w[k]
<1> DEFINE T == {j \in Nat : j <= k /\ v[j] # w[j]}
<1> SUFFICES ASSUME T # {} PROVE FALSE
  OBVIOUS
<1>1. PICK j \in T : \A i \in T : j <= i
  BY LeastNatural, Zenon
<1>2. j \in Nat /\ j <= k /\ v[j] # w[j]
  OBVIOUS
<1>3. j # 0
  BY <1>2 DEF IsValue
<1>4. j - 1 \in Nat /\ j \in 1..m /\ j \in 1..n /\ j \in 1..k /\ ~(j <= j - 1)
  BY <1>2, <1>3
<1>5. v[j - 1] = w[j - 1]
  BY <1>1, <1>2, <1>4
<1>6. v[j] = 10 * v[j - 1] + s[j] /\ w[j] = 10 * w[j - 1] + t[j]
  BY <1>4 DEF IsValue
<1> QED  BY <1>2, <1>4, <1>5, <1>6

(* Number computes it. *)
LEMMA NumberIsValue ==
    ASSUME NEW s \in Seq(Nat)
    PROVE  \E v : IsValue(v, s, Len(s)) /\ Number(s) = v[Len(s)]
<1> DEFINE n == Len(s)
<1>0. n \in Nat
  OBVIOUS
<1> DEFINE f == CHOOSE g : g = [k \in 0..n |-> IF k = 0 THEN 0 ELSE 10 * g[k - 1] + s[k]]
<1>1. Number(s) = f[n]
  BY DEF Number
<1>2. PICK v : IsValue(v, s, n)
  BY ValueExists
<1> HIDE DEF n
<1>3. v = [k \in 0..n |-> IF k = 0 THEN 0 ELSE 10 * v[k - 1] + s[k]]
  <2>1. v \in [0..n -> Nat]
    BY <1>2 DEF IsValue
  <2>2. ASSUME NEW k \in 0..n PROVE v[k] = IF k = 0 THEN 0 ELSE 10 * v[k - 1] + s[k]
    <3>1. k # 0 => k \in 1..n
      BY <1>0
    <3> QED  BY <1>2, <3>1 DEF IsValue
  <2> QED  BY <2>1, <2>2
<1>4. f = [k \in 0..n |-> IF k = 0 THEN 0 ELSE 10 * f[k - 1] + s[k]]
  BY <1>3, Zenon
<1> HIDE DEF f
<1>5. f[0] = 0 /\ \A k \in 1..n : f[k] = 10 * f[k - 1] + s[k]
  BY <1>0, <1>4
<1>6. \A k \in 1..n : s[k] \in Nat
  BY DEF n
<1>7. ASSUME NEW k \in 0..n PROVE f[k] \in Nat
  <2> DEFINE T == {j \in Nat : j <= n /\ f[j] \notin Nat}
  <2> SUFFICES ASSUME T # {} PROVE FALSE
    BY <1>0
  <2>1. PICK j \in T : \A i \in T : j <= i
    BY LeastNatural, Zenon
  <2>2. j # 0 /\ j - 1 \in Nat /\ j \in 1..n /\ ~(j <= j - 1)
    BY <1>0, <1>5
  <2>3. f[j - 1] \in Nat
    BY <1>0, <2>1, <2>2
  <2>4. f[j] \in Nat
    <3>1. f[j] = 10 * f[j - 1] + s[j] /\ s[j] \in Nat
      BY <1>5, <1>6, <2>2, Zenon
    <3> QED  BY ONLY <2>3, <3>1
  <2> QED  BY <2>4
<1>8. f \in [0..n -> Nat]
  BY <1>4, <1>7
<1>9. IsValue(f, s, n)
  BY <1>5, <1>8 DEF IsValue
<1> QED  BY <1>1, <1>9 DEF n

(* One digit more. *)
LEMMA NumberAppend ==
    ASSUME NEW s \in Seq(Nat), NEW d \in Nat
    PROVE  /\ Number(s) \in Nat /\ Number(<<>>) = 0
           /\ Number(Append(s, d)) = 10 * Number(s) + d
<1>1. PICK v : IsValue(v, s, Len(s)) /\ Number(s) = v[Len(s)]
  BY NumberIsValue
<1> DEFINE t == Append(s, d)
<1>2. t \in Seq(Nat) /\ Len(t) = Len(s) + 1 /\ t[Len(s) + 1] = d /\ \A i \in 1..Len(s) : s[i] = t[i]
  OBVIOUS
<1> HIDE DEF t
<1>3. PICK w : IsValue(w, t, Len(t)) /\ Number(t) = w[Len(t)]
  BY <1>2, NumberIsValue
<1> DEFINE n == Len(s)
<1>4. n \in Nat /\ Len(t) = n + 1
  BY <1>2
<1>5. v[n] = w[n]
  <2>1. IsValue(v, s, n) /\ IsValue(w, t, n + 1) /\ (\A i \in 1..n : s[i] = t[i])
    BY <1>1, <1>2, <1>3
  <2> HIDE DEF n
  <2>2. n <= n /\ n <= n + 1 /\ n + 1 \in Nat
    BY <1>4
  <2> QED  BY <1>4, <2>1, <2>2, ValueUnique
<1> HIDE DEF n
<1>6. w[n + 1] = 10 * w[n] + d
  <2>1. n + 1 \in 1..n + 1 /\ (n + 1) - 1 = n
    BY <1>4
  <2>2. IsValue(w, t, n + 1) /\ t[n + 1] = d
    BY <1>2, <1>3 DEF n
  <2> QED  BY <2>1, <2>2 DEF IsValue
<1>7. Number(s) \in Nat
  BY <1>1 DEF IsValue
<1>8. Number(<<>>) = 0
  <2> DEFINE e == <<>>
  <2>1. e \in Seq(Nat) /\ Len(e) = 0
    OBVIOUS
  <2> HIDE DEF e
  <2>2. PICK u : IsValue(u, e, Len(e)) /\ Number(e) = u[Len(e)]
    BY <2>1, NumberIsValue, Zenon
  <2>3. Number(e) = 0
    BY <2>1, <2>2 DEF IsValue
  <2> QED  BY <2>3 DEF e
<1> QED  BY <1>1, <1>3, <1>4, <1>5, <1>6, <1>7, <1>8 DEF n, t

(* The value of a number's digits is the number. *)
LEMMA NumberOfDecimal ==
    ASSUME NEW n \in Nat
    PROVE  Number(Decimal[n]) = n
<1> DEFINE T == {m \in Nat : Number(Decimal[m]) # m}
<1> SUFFICES ASSUME T # {} PROVE FALSE
  OBVIOUS
<1>1. PICK m \in T : \A i \in T : m <= i
  BY LeastNatural, Zenon
<1>2. m \in Nat /\ Number(Decimal[m]) # m
  OBVIOUS
<1>3. CASE m < 10
  <2>1. Decimal[m] = <<m>>
    BY <1>2, <1>3, DecimalDef, Zenon DEF DecimalStep
  <2>2. Decimal[m] = Append(<<>>, m)
    BY <2>1
  <2>3. <<>> \in Seq(Nat)
    OBVIOUS
  <2>4. Number(Append(<<>>, m)) = 10 * Number(<<>>) + m /\ Number(<<>>) = 0
    BY <1>2, <2>3, NumberAppend, Zenon
  <2> QED  BY <1>2, <2>2, <2>4
<1>4. CASE ~(m < 10)
  <2>1. Decimal[m] = Append(Decimal[m \div 10], m % 10)
    BY <1>2, <1>4, DecimalDef, Zenon DEF DecimalStep
  <2>2. m \div 10 \in Nat /\ m \div 10 < m /\ m % 10 \in Nat /\ m = 10 * (m \div 10) + (m % 10)
    BY <1>2, <1>4
  <2>3. Number(Decimal[m \div 10]) = m \div 10
    BY <1>1, <1>2, <2>2
  <2>4. Decimal[m \div 10] \in Seq(Nat)
    <3>1. Decimal[m \div 10] \in Seq(Digits)
      BY <2>2, DecimalDigits
    <3>2. Digits \subseteq Nat
      BY DEF Digits
    <3> QED  BY <3>1, <3>2, SeqMonotonic, Zenon
  <2>5. Number(Decimal[m]) = 10 * Number(Decimal[m \div 10]) + (m % 10)
    BY <2>1, <2>2, <2>4, NumberAppend
  <2> QED  BY <1>2, <2>2, <2>3, <2>5
<1> QED  BY <1>3, <1>4

(* What strtoul and the test for leading zeros accept. *)
Canonical(s) == s \in Seq(Digits) /\ s # <<>> /\ (s[1] # 0 \/ s = <<0>>)

(* And a number without leading zeros has no other digits. *)
LEMMA DecimalOfNumber ==
    ASSUME NEW s, Canonical(s)
    PROVE  Decimal[Number(s)] = s
<1> DEFINE T == {k \in Nat : \E u \in Seq(Digits) : Canonical(u) /\ Len(u) = k /\ Decimal[Number(u)] # u}
<1>0. s \in Seq(Digits) /\ Len(s) \in Nat
  BY DEF Canonical
<1> SUFFICES ASSUME T # {} PROVE FALSE
  BY <1>0
<1>1. PICK k \in T : \A i \in T : k <= i
  BY LeastNatural, Zenon
<1>2. PICK u \in Seq(Digits) : Canonical(u) /\ Len(u) = k /\ Decimal[Number(u)] # u
  BY <1>1
<1> HIDE DEF T
<1>3. k \in Nat /\ k >= 1
  BY <1>2 DEF Canonical
<1> DEFINE a == SubSeq(u, 1, k - 1)
<1> DEFINE d == u[k]
<1>4. a \in Seq(Digits) /\ Len(a) = k - 1 /\ d \in Digits /\ u = Append(a, d)
  BY <1>2, <1>3
<1>5. k > 1 => a # <<>> /\ a[1] = u[1]
  BY <1>2, <1>3
<1> HIDE DEF a, d
<1>6. a \in Seq(Nat) /\ d \in Nat /\ d < 10
  BY <1>4 DEF Digits
<1>7. Number(a) \in Nat /\ Number(<<>>) = 0 /\ Number(u) = 10 * Number(a) + d
  BY <1>4, <1>6, NumberAppend
<1>8. CASE k = 1
  <2>1. a = <<>> /\ u = <<d>>
    BY <1>4, <1>8
  <2>2. Number(u) = d
    BY <1>6, <1>7, <2>1
  <2>3. Decimal[d] = <<d>>
    BY <1>6, DecimalDef, Zenon DEF DecimalStep
  <2> QED  BY <1>2, <2>1, <2>2, <2>3
<1>9. CASE k > 1
  <2>1. u # <<0>>
    BY <1>2, <1>9
  <2>2. Canonical(a)
    BY <1>2, <1>4, <1>5, <1>9, <2>1 DEF Canonical
  <2>3. k - 1 \notin T /\ k - 1 \in Nat
    BY <1>1, <1>3
  <2>4. Decimal[Number(a)] = a
    BY <1>4, <2>2, <2>3 DEF T
  <2>5. a[1] # 0
    BY <1>2, <1>5, <1>9, <2>1 DEF Canonical
  <2>6. Number(a) # 0
    <3> SUFFICES ASSUME Number(a) = 0 PROVE FALSE
      OBVIOUS
    <3>1. Decimal[0] = <<0>>
      BY DecimalDigits
    <3> QED  BY <2>4, <2>5, <3>1
  <2> DEFINE n == Number(u)
  <2>7. n \in Nat /\ ~(n < 10) /\ n \div 10 = Number(a) /\ n % 10 = d
    <3> DEFINE q == Number(a)
    <3>1. q \in Nat /\ q # 0 /\ d \in Nat /\ d < 10 /\ n = 10 * q + d
      BY <1>6, <1>7, <2>6
    <3> HIDE DEF q, n
    <3>2. n \in Nat /\ ~(n < 10) /\ n \div 10 = q /\ n % 10 = d
      BY <3>1
    <3> QED  BY <3>2 DEF q
  <2>8. Decimal[n] = Append(Decimal[n \div 10], n % 10)
    BY <2>7, DecimalDef, Zenon DEF DecimalStep
  <2>9. Decimal[n] = u
    BY <1>4, <2>4, <2>7, <2>8
  <2> QED  BY <1>2, <2>9
<1> QED  BY <1>3, <1>8, <1>9
-----------------------------------------------------------------------------
(* The channel level of a filter. *)
Level(channel) == IF channel = CAYENNE_NO_CHANNEL THEN <<>>
                  ELSE IF channel = CAYENNE_ALL_CHANNELS THEN <<Plus>>
                  ELSE Decimal[channel]

(* The digits of a number are neither no level nor a "+". *)
LEMMA NotPlus ==
    ASSUME NEW n \in Nat
    PROVE  Decimal[n] # <<>> /\ Decimal[n] # <<Plus>>
<1>1. Decimal[n] \in Seq(Digits) /\ Decimal[n] # <<>>
  BY DecimalDigits
<1>2. Decimal[n] # <<Plus>>
  BY <1>1 DEF Digits, Plus
<1> QED  BY <1>1, <1>2

(* Different channels have different levels. *)
LEMMA LevelsDiffer ==
    ASSUME NEW c \in Nat, NEW e \in Nat, Level(c) = Level(e)
    PROVE  c = e
<1>1. \A n \in Nat : Decimal[n] # <<>> /\ Decimal[n] # <<Plus>> /\ Number(Decimal[n]) = n
  BY NotPlus, NumberOfDecimal
<1>2. <<Plus>> # <<>>
  OBVIOUS
<1>3. c = CAYENNE_NO_CHANNEL <=> Level(c) = <<>>
  BY <1>1, <1>2 DEF Level
<1>4. e = CAYENNE_NO_CHANNEL <=> Level(e) = <<>>
  BY <1>1, <1>2 DEF Level
<1>5. c = CAYENNE_ALL_CHANNELS <=> Level(c) = <<Plus>>
  BY <1>1, <1>2 DEF Level, CAYENNE_NO_CHANNEL, CAYENNE_ALL_CHANNELS
<1>6. e = CAYENNE_ALL_CHANNELS <=> Level(e) = <<Plus>>
  BY <1>1, <1>2 DEF Level, CAYENNE_NO_CHANNEL, CAYENNE_ALL_CHANNELS
<1> QED  BY <1>1, <1>3, <1>4, <1>5, <1>6 DEF Level

(* CayenneParseTopic reads the channel of a topic name as the number that  *)
(* CayenneBuildTopic has written it for, and as no other.  (2^32 - 1 is    *)
(* what strtoul makes of every larger number.)                             *)
LEMMA ChannelRoundTrip ==
    ASSUME NEW level \in Seq(Digits \cup {Letter}), level # <<>>,
           NEW c \in Nat, c < SizeBound - 1, c # CAYENNE_NO_CHANNEL
    PROVE  ParseChannel(level) = c <=> level = Decimal[c]
<1>0. SizeBound \in Nat
  BY MessagesAssumption
<1>1. ASSUME ParseChannel(level) = c PROVE level = Decimal[c]
  <2>1. /\ IsDigits(level) /\ (level[1] # 0 \/ level = <<0>>)
        /\ Strtoul(level) = c
    BY <1>1 DEF ParseChannel
  <2>2. level \in Seq(Digits)
    BY <2>1 DEF IsDigits
  <2>3. Canonical(level)
    BY <2>1, <2>2 DEF Canonical
  <2>4. Number(level) = c
    BY <1>0, <2>1 DEF Strtoul
  <2> QED  BY <2>3, <2>4, DecimalOfNumber
<1>2. ASSUME level = Decimal[c] PROVE ParseChannel(level) = c
  <2>1. Decimal[c] \in Seq(Digits) /\ (Decimal[c][1] # 0 \/ Decimal[c] = <<0>>)
    BY DecimalDigits
  <2>2. IsDigits(level)
    BY <1>2, <2>1 DEF IsDigits
  <2>3. Number(level) = c
    BY <1>2, NumberOfDecimal
  <2>4. Strtoul(level) = c
    BY <1>0, <2>3 DEF Strtoul
  <2> QED  BY <1>2, <2>1, <2>2, <2>4 DEF ParseChannel
<1> QED  BY <1>1, <1>2

-----------------------------------------------------------------------------
(* The invariant of the table and of the calls in progress. *)

(* A slot is empty or holds a request with a handler; the client ID is     *)
(* null only if the application has given a null one.                      *)
Known(h, given) ==
    \/ h = NoHandler
    \/ h \in Requests /\ h.fp /\ (h.clientID = Null => given)

TableInv ==
    /\ messageHandlers = [i \in Slots |-> messageHandlers[i]]
    /\ \A i \in Slots : Known(messageHandlers[i], nullGiven)

(* What a client ID in readbuf can read as. *)
Texts == {n.clientID : n \in Names} \cup {"other text"}

CallFrames ==
    [call : {"subscribe", "unsubscribe"}, request : Requests]
        \cup {[call |-> "respond", request |-> NoHandler]}

DispatchFrames ==
    [call : {"dispatch"}, pc : {"loop", "handler", "default"}, i : Nat \ {0}, name : Names,
     clientID : Texts, topic : {"cmd", "conf"}, channel : {ParseChannel(n.channel) : n \in Names},
     overwritten : BOOLEAN, called : SUBSET Slots, kept : SUBSET Slots]

(* The slots the loop of a dispatch has looked at. *)
Seen(f, j) == j < f.i \/ (j = f.i /\ f.pc = "handler")

(* A slot has been treated as its filter asks for. *)
TreatedRight(f, j, h) ==
    LET filter == Filter(h)
    IN  /\ ~f.overwritten => (j \in f.called <=> Matches(filter, f.name))
        /\ j \in f.called => MatchesButClient(filter, f.name)

(* strtoul makes 2^32 - 1 of every larger number, so this is no channel to *)
(* subscribe to.                                                           *)
ChannelsAreNumbers == \A r \in Requests : r.channel < SizeBound - 1

(* A dispatch works on the topic name of its message, only slots it has    *)
(* looked at have been called, and those that are as they were have been   *)
(* treated right.                                                          *)
DispatchOK(f, table, default) ==
    /\ TopicParses(f.name) /\ f.topic = f.name.topic /\ f.channel = ParseChannel(f.name.channel)
    /\ ~f.overwritten => f.clientID = f.name.clientID
    /\ \A j \in f.called : Seen(f, j)
    /\ f.pc = "handler" => f.i \in f.called
    /\ f.pc = "default" => f.called = {} /\ default /\ f.i \notin Slots
    /\ ChannelsAreNumbers =>
         \A j \in f.kept : Seen(f, j) /\ Served(table[j]) => TreatedRight(f, j, table[j])

(* The frames that a call in progress can have. *)
CallsOK(given) == {f \in CallFrames : f.call = "subscribe" /\ f.request.clientID = Null => given}

FramesOK(table, default, given) ==
    CallsOK(given) \cup {f \in DispatchFrames : DispatchOK(f, table, default)}

StackInv == stack \in Seq(FramesOK(messageHandlers, defaultMessageHandler, nullGiven))

CrashInv == crashed => nullGiven /\ stack = <<>>

MessagesInv == TableInv /\ StackInv /\ CrashInv /\ defaultMessageHandler \in BOOLEAN /\ UnsubscribedIsSilent

(* What the assumption says of the slots, the requests and the names. *)
LEMMA SlotFacts == MaxHandlers \in Nat /\ Slots \subseteq Nat /\ \A i \in Nat \ {0} : i \notin Slots => i > MaxHandlers
<1>1. MaxHandlers \in Nat
  BY MessagesAssumption
<1> QED  BY <1>1 DEF Slots

(* What a request is made of, *)
LEMMA RequestFacts ==
    ASSUME NEW r \in Requests
    PROVE  r.topic # "undefined" /\ r.channel \in Nat /\ SizeBound \in Nat /\ r.channel < SizeBound
<1>1. SizeBound \in Nat
  BY MessagesAssumption
<1>2. r.topic # "undefined" /\ r.channel \in 0..SizeBound - 1
  BY MessagesAssumption
<1> QED  BY <1>1, <1>2

(* and a topic name. *)
LEMMA NameFacts ==
    ASSUME NEW n \in Names
    PROVE  n.clientID # Null /\ n.channel \in Seq(Digits \cup {Letter})
BY MessagesAssumption

(* What the table can hold in a slot. *)
LEMMA KnownFacts ==
    ASSUME NEW h, NEW given, Known(h, given)
    PROVE  /\ h.fp => h \in Requests
           /\ h.clientID = Null /\ (h.fp \/ h.topic # "undefined") => given
<1>1. CASE h = NoHandler
  <2>1. h.fp = FALSE /\ h.topic = "undefined"
    BY <1>1 DEF NoHandler
  <2> QED  BY <2>1
<1>2. CASE h \in Requests /\ h.fp /\ (h.clientID = Null => given)
  BY <1>2
<1> QED  BY <1>1, <1>2 DEF Known

(* The innermost call and the stack below it. *)
LEMMA StackTop ==
    ASSUME NEW S, NEW s \in Seq(S), s # <<>>
    PROVE  s[Len(s)] \in S /\ SubSeq(s, 1, Len(s) - 1) \in Seq(S) /\ Len(s) \in Nat /\ Len(s) \in 1..Len(s) /\ DOMAIN s = 1..Len(s)
<1>1. Len(s) \in Nat /\ Len(s) > 0 /\ DOMAIN s = 1..Len(s)
  BY LenProperties
<1>2. s[Len(s)] \in S
  BY <1>1, ElementOfSeq
<1>3. SubSeq(s, 1, Len(s) - 1) \in Seq(S)
  BY <1>1
<1> QED  BY <1>1, <1>2, <1>3

(* The fields the loop of MQTTMessageArrived compares with a message's     *)
(* stand for the filter of the subscription.                               *)
LEMMA FieldsStandForFilter ==
    ASSUME ChannelsAreNumbers, NEW h \in Requests, Served(h), NEW name \in Names, TopicParses(name),
           NEW f, f.topic = name.topic, f.channel = ParseChannel(name.channel)
    PROVE  ForChannel(h, f) <=> MatchesButClient(Filter(h), name)
<1>1. /\ h.channel \in Nat /\ h.channel < SizeBound - 1 /\ h.channel # CAYENNE_NO_CHANNEL /\ h.fp
      /\ name.channel \in Seq(Digits \cup {Letter}) /\ name.channel # <<>>
  <2>1. SizeBound \in Nat /\ h.channel \in Nat
    BY RequestFacts
  <2>2. name.channel \in Seq(Digits \cup {Letter})
    BY NameFacts
  <2> QED  BY <2>1, <2>2 DEF ChannelsAreNumbers, Served, TopicParses
<1>2. Filter(h).topic = h.topic /\ Filter(h).channel = Level(h.channel)
  BY DEF Filter, BuildTopic, Level
<1>3. CASE h.channel = CAYENNE_ALL_CHANNELS
  <2>1. Level(h.channel) = <<Plus>>
    BY <1>3 DEF Level, CAYENNE_ALL_CHANNELS, CAYENNE_NO_CHANNEL
  <2> QED  BY <1>1, <1>2, <1>3, <2>1 DEF ForChannel, MatchesButClient
<1>4. CASE h.channel # CAYENNE_ALL_CHANNELS
  <2>1. Level(h.channel) = Decimal[h.channel]
    BY <1>1, <1>4 DEF Level
  <2>2. Decimal[h.channel] # <<Plus>>
    BY <1>1, NotPlus
  <2>3. ParseChannel(name.channel) = h.channel <=> name.channel = Decimal[h.channel]
    BY <1>1, ChannelRoundTrip
  <2> QED  BY <1>1, <1>2, <1>4, <2>1, <2>2, <2>3 DEF ForChannel, MatchesButClient
<1> QED  BY <1>3, <1>4

(* A subscription or unsubscription in a nested call leaves the dispatches *)
(* further out right about the slots it has not changed.                   *)
LEMMA ForgetFrame ==
    ASSUME NEW table, NEW after, NEW default, NEW given, NEW changed,
           \A j \in Slots \ changed : after[j] = table[j],
           NEW f \in FramesOK(table, default, given)
    PROVE  (IF f.call = "dispatch" THEN [f EXCEPT !.kept = @ \ changed] ELSE f)
               \in FramesOK(after, default, given)
<1>1. CASE f \in CallsOK(given)
  <2>1. f.call # "dispatch"
    BY <1>1, SMTT(60) DEF CallsOK, CallFrames
  <2> QED  BY <1>1, <2>1 DEF FramesOK
<1>2. CASE f \in DispatchFrames /\ DispatchOK(f, table, default)
  <2> DEFINE g == [f EXCEPT !.kept = @ \ changed]
  <2>1. f.call = "dispatch"
    BY <1>2 DEF DispatchFrames
  <2>2. /\ g \in DispatchFrames
        /\ g.pc = f.pc /\ g.i = f.i /\ g.name = f.name /\ g.clientID = f.clientID
        /\ g.topic = f.topic /\ g.channel = f.channel /\ g.overwritten = f.overwritten
        /\ g.called = f.called /\ g.kept = f.kept \ changed /\ f.kept \subseteq Slots
    BY <1>2 DEF DispatchFrames
  <2> HIDE DEF g
  <2>3. DispatchOK(g, after, default)
    BY <1>2, <2>2 DEF DispatchOK, Seen, TreatedRight
  <2> QED  BY <2>1, <2>2, <2>3 DEF FramesOK, g
<1> QED  BY <1>1, <1>2 DEF FramesOK

(* So does a message that arrives in a nested call. *)
LEMMA OverwrittenFrame ==
    ASSUME NEW table, NEW default, NEW given, NEW text \in Texts,
           NEW f \in FramesOK(table, default, given)
    PROVE  (IF f.call = "dispatch" THEN [f EXCEPT !.clientID = text, !.overwritten = TRUE] ELSE f)
               \in FramesOK(table, default, given)
<1>1. CASE f \in CallsOK(given)
  <2>1. f.call # "dispatch"
    BY <1>1 DEF CallsOK, CallFrames
  <2> QED  BY <1>1, <2>1 DEF FramesOK
<1>2. CASE f \in DispatchFrames /\ DispatchOK(f, table, default)
  <2> DEFINE g == [f EXCEPT !.clientID = text, !.overwritten = TRUE]
  <2>1. f.call = "dispatch"
    BY <1>2 DEF DispatchFrames
  <2>2. /\ g \in DispatchFrames
        /\ g.pc = f.pc /\ g.i = f.i /\ g.name = f.name
        /\ g.topic = f.topic /\ g.channel = f.channel /\ g.overwritten = TRUE
        /\ g.called = f.called /\ g.kept = f.kept
    BY <1>2, Zenon DEF DispatchFrames
  <2> HIDE DEF g
  <2>3. DispatchOK(g, table, default)
    BY <1>2, <2>2 DEF DispatchOK, Seen, TreatedRight
  <2> QED  BY <2>1, <2>2, <2>3 DEF FramesOK, g
<1> QED  BY <1>1, <1>2 DEF FramesOK

(* Giving a null client ID only allows more frames. *)
LEMMA GivenFrames ==
    ASSUME NEW table, NEW default, NEW given, NEW now, given => now
    PROVE  FramesOK(table, default, given) \subseteq FramesOK(table, default, now)
BY DEF FramesOK, CallsOK

-----------------------------------------------------------------------------
(* The steps of the loop. *)

(* A new dispatch. *)
LEMMA NewFrame ==
    ASSUME NEW table, NEW default, NEW given, NEW name \in Names, TopicParses(name)
    PROVE  Delivery(name) \in FramesOK(table, default, given)
<1> DEFINE g == Delivery(name)
<1>1. MaxHandlers \in Nat
  BY SlotFacts
<1>2. /\ g \in DispatchFrames /\ g.pc = "loop" /\ g.i = 1 /\ g.name = name
      /\ g.clientID = name.clientID /\ g.topic = name.topic
      /\ g.channel = ParseChannel(name.channel) /\ g.called = {} /\ g.kept = Slots
  <2>1. name.clientID \in Texts /\ name.topic \in {"cmd", "conf"} /\ 1 \in Nat \ {0}
    <3>1. name.clientID \in {n.clientID : n \in Names}
      OBVIOUS
    <3>2. name.clientID \in Texts
      BY <3>1, Zenon DEF Texts
    <3> QED  BY <3>2, SMTT(60) DEF TopicParses
  <2> DEFINE c == ParseChannel(name.channel)
             C == {ParseChannel(n.channel) : n \in Names}
  <2>2. c \in C
    OBVIOUS
  <2> HIDE DEF c, C
  <2>3. g \in DispatchFrames
    BY <2>1, <2>2 DEF Delivery, DispatchFrames, c, C
  <2> QED  BY <2>3 DEF Delivery
<1> HIDE DEF g
<1>3. \A j \in Slots : ~Seen(g, j)
  BY <1>1, <1>2 DEF Seen, Slots
<1>4. DispatchOK(g, table, default)
  BY <1>2, <1>3 DEF DispatchOK
<1> QED  BY <1>2, <1>4 DEF FramesOK, g

(* A handler is called. *)
LEMMA HandlerFrame ==
    ASSUME NEW table, NEW default, NEW given, \A i \in Slots : Known(table[i], given),
           NEW f \in DispatchFrames, DispatchOK(f, table, default), f.pc = "loop", f.i \in Slots,
           ForChannel(table[f.i], f), table[f.i].clientID = f.clientID
    PROVE  [f EXCEPT !.pc = "handler", !.called = @ \cup {f.i}] \in FramesOK(table, default, given)
<1> DEFINE g == [f EXCEPT !.pc = "handler", !.called = @ \cup {f.i}]
           h == table[f.i]
<1>1. /\ g \in DispatchFrames
      /\ g.pc = "handler" /\ g.i = f.i /\ g.name = f.name /\ g.clientID = f.clientID
      /\ g.topic = f.topic /\ g.channel = f.channel /\ g.overwritten = f.overwritten
      /\ g.called = f.called \cup {f.i} /\ g.kept = f.kept /\ f.name \in Names
  BY Zenon DEF DispatchFrames
<1>2. h \in Requests
  BY KnownFacts DEF ForChannel
<1>3. ASSUME ChannelsAreNumbers, Served(h)
      PROVE  TreatedRight(g, f.i, h)
  <2>1. TopicParses(f.name) /\ f.topic = f.name.topic /\ f.channel = ParseChannel(f.name.channel)
    BY DEF DispatchOK
  <2>2. MatchesButClient(Filter(h), f.name)
    BY <1>1, <1>2, <1>3, <2>1, FieldsStandForFilter
  <2>3. ~f.overwritten => Filter(h).clientID = f.name.clientID
    BY <1>1, NameFacts DEF DispatchOK, Filter, BuildTopic
  <2> QED  BY <1>1, <2>2, <2>3 DEF TreatedRight, Matches
<1>4. \A j \in Slots : Seen(g, j) <=> Seen(f, j) \/ j = f.i
  BY <1>1 DEF Seen
<1>5. \A j \in Slots : j # f.i => (TreatedRight(f, j, table[j]) <=> TreatedRight(g, j, table[j]))
  BY <1>1 DEF TreatedRight
<1>6. f.called \subseteq Slots /\ f.kept \subseteq Slots
  BY DEF DispatchFrames
<1> HIDE DEF g
<1>7. DispatchOK(g, table, default)
  <2>1. \A j \in g.called : Seen(g, j)
    BY <1>1, <1>4, <1>6 DEF DispatchOK
  <2>2. ASSUME ChannelsAreNumbers, NEW j \in g.kept, Seen(g, j), Served(table[j])
        PROVE  TreatedRight(g, j, table[j])
    <3>1. CASE j = f.i
      BY <1>3, <2>2, <3>1
    <3>2. CASE j # f.i
      BY <1>1, <1>4, <1>5, <1>6, <2>2, <3>2 DEF DispatchOK
    <3> QED  BY <3>1, <3>2
  <2> QED  BY <1>1, <2>1, <2>2 DEF DispatchOK
<1> QED  BY <1>1, <1>7 DEF FramesOK, g

(* A slot is passed over. *)
LEMMA PassedFrame ==
    ASSUME NEW table, NEW default, NEW given, \A i \in Slots : Known(table[i], given),
           NEW f \in DispatchFrames, DispatchOK(f, table, default), f.pc = "loop", f.i \in Slots,
           ForChannel(table[f.i], f) => table[f.i].clientID \notin {Null, f.clientID}
    PROVE  [f EXCEPT !.i = @ + 1] \in FramesOK(table, default, given)
<1> DEFINE g == [f EXCEPT !.i = @ + 1]
           h == table[f.i]
<1>0. f.i \in Nat /\ f.called \subseteq Slots /\ f.kept \subseteq Slots /\ Slots \subseteq Nat
  BY SlotFacts DEF DispatchFrames
<1>1. /\ g \in DispatchFrames
      /\ g.pc = "loop" /\ g.i = f.i + 1 /\ g.name = f.name /\ g.clientID = f.clientID
      /\ g.topic = f.topic /\ g.channel = f.channel /\ g.overwritten = f.overwritten
      /\ g.called = f.called /\ g.kept = f.kept /\ f.name \in Names
  BY <1>0 DEF DispatchFrames
<1>2. f.i \notin f.called
  BY <1>0, SMTT(60) DEF DispatchOK, Seen
<1>3. ASSUME ChannelsAreNumbers, Served(h)
      PROVE  TreatedRight(g, f.i, h)
  <2>1. TopicParses(f.name) /\ f.topic = f.name.topic /\ f.channel = ParseChannel(f.name.channel)
    BY DEF DispatchOK
  <2>2. h \in Requests
    BY <1>3, KnownFacts DEF Served
  <2>3. ForChannel(h, f) <=> MatchesButClient(Filter(h), f.name)
    BY <1>1, <1>3, <2>1, <2>2, FieldsStandForFilter
  <2>4. ~f.overwritten /\ MatchesButClient(Filter(h), f.name) => Filter(h).clientID # f.name.clientID
    BY <2>3 DEF DispatchOK, Filter, BuildTopic
  <2> QED  BY <1>1, <1>2, <2>4 DEF TreatedRight, Matches
<1>4. \A j \in Slots : Seen(g, j) <=> Seen(f, j) \/ j = f.i
  BY <1>0, <1>1 DEF Seen
<1>5. \A j \in Slots : TreatedRight(f, j, table[j]) <=> TreatedRight(g, j, table[j])
  BY <1>1 DEF TreatedRight
<1> HIDE DEF g
<1>6. DispatchOK(g, table, default)
  <2>1. \A j \in g.called : Seen(g, j)
    BY <1>0, <1>1, <1>4 DEF DispatchOK
  <2>2. ASSUME ChannelsAreNumbers, NEW j \in g.kept, Seen(g, j), Served(table[j])
        PROVE  TreatedRight(g, j, table[j])
    <3>1. CASE j = f.i
      BY <1>3, <2>2, <3>1
    <3>2. CASE j # f.i
      BY <1>0, <1>1, <1>4, <1>5, <2>2, <3>2, Zenon DEF DispatchOK
    <3> QED  BY <3>1, <3>2
  <2> QED  BY <1>1, <2>1, <2>2 DEF DispatchOK
<1> QED  BY <1>1, <1>6 DEF FramesOK, g

(* A handler returns. *)
LEMMA ReturnedFrame ==
    ASSUME NEW table, NEW default, NEW given,
           NEW f \in DispatchFrames, DispatchOK(f, table, default), f.pc = "handler"
    PROVE  [f EXCEPT !.pc = "loop", !.i = @ + 1] \in FramesOK(table, default, given)
<1> DEFINE g == [f EXCEPT !.pc = "loop", !.i = @ + 1]
<1>0. f.i \in Nat /\ f.called \subseteq Slots /\ f.kept \subseteq Slots /\ Slots \subseteq Nat
  BY SlotFacts DEF DispatchFrames
<1>1. /\ g \in DispatchFrames
      /\ g.pc = "loop" /\ g.i = f.i + 1 /\ g.name = f.name /\ g.clientID = f.clientID
      /\ g.topic = f.topic /\ g.channel = f.channel /\ g.overwritten = f.overwritten
      /\ g.called = f.called /\ g.kept = f.kept
  <2>1. f.i + 1 \in Nat \ {0}
    BY <1>0
  <2>2. g \in DispatchFrames
    BY <2>1, Zenon DEF DispatchFrames
  <2> QED  BY <2>2 DEF DispatchFrames
<1> HIDE DEF g
<1>2. \A j \in Slots : Seen(g, j) <=> Seen(f, j)
  BY <1>0, <1>1 DEF Seen
<1>3. \A j \in Slots : TreatedRight(f, j, table[j]) <=> TreatedRight(g, j, table[j])
  BY <1>1 DEF TreatedRight
<1>4. DispatchOK(g, table, default)
  BY <1>0, <1>1, <1>2, <1>3, Zenon DEF DispatchOK
<1> QED  BY <1>1, <1>4 DEF FramesOK, g

(* The default handler is called. *)
LEMMA DefaultFrame ==
    ASSUME NEW table, NEW default, NEW given,
           NEW f \in DispatchFrames, DispatchOK(f, table, default), f.pc = "loop",
           f.i \notin Slots, f.called = {}, default
    PROVE  [f EXCEPT !.pc = "default"] \in FramesOK(table, default, given)
<1> DEFINE g == [f EXCEPT !.pc = "default"]
<1>1. /\ g \in DispatchFrames
      /\ g.pc = "default" /\ g.i = f.i /\ g.name = f.name /\ g.clientID = f.clientID
      /\ g.topic = f.topic /\ g.channel = f.channel /\ g.overwritten = f.overwritten
      /\ g.called = f.called /\ g.kept = f.kept
  BY DEF DispatchFrames
<1> HIDE DEF g
<1>2. DispatchOK(g, table, default)
  BY <1>1 DEF DispatchOK, Seen, TreatedRight
<1> QED  BY <1>1, <1>2, Zenon DEF FramesOK, g

-----------------------------------------------------------------------------
(* The same for whole stacks. *)

LEMMA ForgetStack ==
    ASSUME NEW table, NEW after, NEW default, NEW given, NEW changed,
           \A j \in Slots \ changed : after[j] = table[j],
           NEW s \in Seq(FramesOK(table, default, given))
    PROVE  Forget(changed, s) \in Seq(FramesOK(after, default, given))
<1> DEFINE S == FramesOK(table, default, given)
           T == FramesOK(after, default, given)
           new(k) == IF s[k].call = "dispatch" THEN [s[k] EXCEPT !.kept = @ \ changed] ELSE s[k]
<1>1. Len(s) \in Nat /\ DOMAIN s = 1..Len(s) /\ \A k \in 1..Len(s) : s[k] \in S
  BY LenProperties, ElementOfSeq
<1>2. \A k \in 1..Len(s) : new(k) \in T
  BY <1>1, ForgetFrame, Zenon
<1>3. Forget(changed, s) = [k \in 1..Len(s) |-> new(k)]
  BY <1>1 DEF Forget
<1> HIDE DEF new, S, T
<1>4. [k \in 1..Len(s) |-> new(k)] \in Seq(T)
  BY <1>1, <1>2, IsASeq
<1> QED  BY <1>3, <1>4 DEF T

(* A message that arrives leaves the other calls in order. *)
LEMMA OverwrittenStack ==
    ASSUME NEW table, NEW default, NEW given, NEW text \in Texts,
           NEW s \in Seq(FramesOK(table, default, given))
    PROVE  Overwritten(s, text) \in Seq(FramesOK(table, default, given))
<1> DEFINE S == FramesOK(table, default, given)
           new(k) == IF s[k].call = "dispatch"
                     THEN [s[k] EXCEPT !.clientID = text, !.overwritten = TRUE] ELSE s[k]
<1>1. Len(s) \in Nat /\ DOMAIN s = 1..Len(s) /\ \A k \in 1..Len(s) : s[k] \in S
  BY LenProperties, ElementOfSeq
<1>2. \A k \in 1..Len(s) : new(k) \in S
  BY <1>1, OverwrittenFrame, Zenon
<1>3. Overwritten(s, text) = [k \in 1..Len(s) |-> new(k)]
  BY <1>1 DEF Overwritten
<1> HIDE DEF new, S
<1>4. [k \in 1..Len(s) |-> new(k)] \in Seq(S)
  BY <1>1, <1>2, IsASeq
<1> QED  BY <1>3, <1>4 DEF S

(* The innermost call may be replaced by one that is in order. *)
LEMMA TopReplaced ==
    ASSUME NEW S, NEW s \in Seq(S), s # <<>>, NEW x \in S
    PROVE  [s EXCEPT ![Len(s)] = x] \in Seq(S)
BY StackTop, ExceptSeq

(* A step that leaves the table and has a stack of good frames. *)
LEMMA TableKept ==
    ASSUME MessagesInv, UNCHANGED tableVars, ~crashed,
           stack' \in Seq(FramesOK(messageHandlers, defaultMessageHandler, nullGiven))
    PROVE  MessagesInv'
BY DEF MessagesInv, tableVars, TableInv, StackInv, CrashInv, UnsubscribedIsSilent

(* The frame of a dispatch, and of a call that waits. *)
LEMMA TopFrame ==
    ASSUME MessagesInv, stack # <<>>
    PROVE  /\ Top \in FramesOK(messageHandlers, defaultMessageHandler, nullGiven)
           /\ Pop \in Seq(FramesOK(messageHandlers, defaultMessageHandler, nullGiven))
           /\ Top.call = "dispatch" =>
                Top \in DispatchFrames /\ DispatchOK(Top, messageHandlers, defaultMessageHandler)
           /\ Top.call \in {"subscribe", "unsubscribe"} =>
                /\ Top.request \in Requests
                /\ Top.call = "subscribe" /\ Top.request.clientID = Null => nullGiven
<1> DEFINE S == FramesOK(messageHandlers, defaultMessageHandler, nullGiven)
<1>1. Top \in S /\ Pop \in Seq(S)
  BY StackTop DEF MessagesInv, StackInv, Top, Pop
<1> QED  BY <1>1, SMTT(60), SMTT(60) DEF FramesOK, CallsOK, CallFrames, DispatchFrames

(* The first of some slots is one of them. *)
LEMMA MinOfSlots ==
    ASSUME NEW T, T \subseteq Slots, T # {}
    PROVE  Min(T) \in T
<1>1. T \subseteq Nat
  BY SlotFacts
<1>2. \E m \in T : \A k \in T : m <= k
  BY <1>1, LeastNatural, Zenon
<1> QED  BY <1>2 DEF Min

-----------------------------------------------------------------------------
(* The actions that leave the table. *)

LEMMA BeginInv ==
    ASSUME MessagesInv, NEW call, NEW r, Begin(call, r),
           (call \in {"subscribe", "unsubscribe"} /\ r \in Requests) \/ (call = "respond" /\ r = NoHandler)
    PROVE  MessagesInv'
<1> DEFINE S == FramesOK(messageHandlers, defaultMessageHandler, nullGiven)
           T == FramesOK(messageHandlers, defaultMessageHandler, nullGiven')
           f == [call |-> call, request |-> r]
<1>1. /\ ~crashed /\ stack' = Append(stack, f) /\ (nullGiven => nullGiven')
      /\ call = "subscribe" /\ r.clientID = Null => nullGiven'
      /\ UNCHANGED <<messageHandlers, defaultMessageHandler, crashed, removed>>
  BY Zenon DEF Begin, ApplicationRuns, Running
<1>2. S \subseteq T
  BY <1>1, GivenFrames
<1>3. f \in T
  BY <1>1 DEF FramesOK, CallsOK, CallFrames
<1> HIDE DEF f
<1>4. stack \in Seq(S)
  BY DEF MessagesInv, StackInv
<1> HIDE DEF S, T
<1>5. Append(stack, f) \in Seq(T)
  <2>1. stack \in Seq(T)
    BY <1>2, <1>4, SeqMonotonic
  <2> QED  BY <1>3, <2>1, AppendProperties
<1>6. StackInv'
  BY <1>1, <1>5 DEF StackInv, T
<1> QED  BY <1>1, <1>6 DEF MessagesInv, TableInv, CrashInv, UnsubscribedIsSilent, Known

(* A call that returns without success. *)
LEMMA CallReturnsInv ==
    ASSUME MessagesInv, CallReturns
    PROVE  MessagesInv'
<1>1. ~crashed /\ stack # <<>> /\ stack' = Pop /\ UNCHANGED tableVars
  BY DEF CallReturns, Running, Waiting
<1> QED  BY <1>1, TopFrame, TableKept

(* A message that arrives. *)
LEMMA ArrivesInv ==
    ASSUME MessagesInv, NEW name \in Names, NEW payload,
           MQTTMessageArrived(name, payload) \/ MessageDropped(name, payload)
    PROVE  MessagesInv'
<1> DEFINE S == FramesOK(messageHandlers, defaultMessageHandler, nullGiven)
<1>1. ~crashed /\ UNCHANGED tableVars
  BY Zenon DEF MQTTMessageArrived, MessageDropped, Arrives, Running
<1>2. PICK text \in {name.clientID, "other text"} :
        \/ TopicParses(name) /\ stack' = Append(Overwritten(stack, text), Delivery(name))
        \/ stack' = Overwritten(stack, text)
  BY Zenon DEF MQTTMessageArrived, MessageDropped
<1>3. text \in Texts
  <2>1. name.clientID \in {n.clientID : n \in Names}
    BY Zenon
  <2> QED  BY <2>1, Zenon DEF Texts
<1>4. Overwritten(stack, text) \in Seq(S)
  BY <1>3, OverwrittenStack, Zenon DEF MessagesInv, StackInv
<1>5. TopicParses(name) => Delivery(name) \in S
  BY NewFrame, Zenon
<1> HIDE DEF S
<1>6. stack' \in Seq(S)
  <2>1. TopicParses(name) => Append(Overwritten(stack, text), Delivery(name)) \in Seq(S)
    BY <1>4, <1>5, AppendProperties, Zenon
  <2> QED  BY <1>2, <1>4, <2>1, Zenon
<1> QED  BY <1>1, <1>6, TableKept, Zenon DEF S

(* A step of the loop of MQTTMessageArrived. *)
LEMMA LoopInv ==
    ASSUME MessagesInv, HandlerCalled \/ SlotPassedOver \/ HandlerReturns \/ DefaultCalled
    PROVE  MessagesInv'
<1> DEFINE S == FramesOK(messageHandlers, defaultMessageHandler, nullGiven)
<1>1. /\ ~crashed /\ UNCHANGED tableVars /\ stack # <<>> /\ Top.call = "dispatch"
  BY DEF HandlerCalled, SlotPassedOver, HandlerReturns, DefaultCalled, InLoop, Running, Dispatching
<1>2. /\ Top \in DispatchFrames /\ DispatchOK(Top, messageHandlers, defaultMessageHandler)
      /\ stack \in Seq(S) /\ \A i \in Slots : Known(messageHandlers[i], nullGiven)
  BY <1>1, TopFrame DEF MessagesInv, StackInv, TableInv
<1>3. /\ Len(stack) \in DOMAIN stack /\ Top = stack[Len(stack)]
      /\ Top = [k \in DOMAIN Top |-> Top[k]] /\ DOMAIN Top = {"call", "pc", "i", "name", "clientID", "topic", "channel", "overwritten", "called", "kept"}
  <2>1. Len(stack) \in DOMAIN stack
    BY <1>1, <1>2, StackTop
  <2>2. Top = stack[Len(stack)]
    BY DEF Top
  <2> QED  BY <1>2, <2>1, <2>2 DEF DispatchFrames
<1>4. CASE HandlerCalled
  <2> DEFINE g == [Top EXCEPT !.pc = "handler", !.called = @ \cup {Top.i}]
  <2>1. stack' = [stack EXCEPT ![Len(stack)] = g]
    BY <1>3, <1>4, Zenon DEF HandlerCalled
  <2>2. /\ Top.pc = "loop" /\ Top.i \in Slots /\ ForChannel(messageHandlers[Top.i], Top)
        /\ messageHandlers[Top.i].clientID = Top.clientID
    BY <1>4 DEF HandlerCalled, InLoop, Dispatching
  <2>3. g \in S
    BY <1>2, <2>2, HandlerFrame, Zenon
  <2> QED  BY <1>1, <1>2, <2>1, <2>3, TopReplaced, TableKept
<1>5. CASE SlotPassedOver
  <2> DEFINE g == [Top EXCEPT !.i = @ + 1]
  <2>1. stack' = [stack EXCEPT ![Len(stack)] = g]
    BY <1>3, <1>5 DEF SlotPassedOver
  <2>2. /\ Top.pc = "loop" /\ Top.i \in Slots
        /\ ForChannel(messageHandlers[Top.i], Top) => messageHandlers[Top.i].clientID \notin {Null, Top.clientID}
    BY <1>5 DEF SlotPassedOver, InLoop, Dispatching
  <2>3. g \in S
    BY <1>2, <2>2, PassedFrame
  <2> QED  BY <1>1, <1>2, <2>1, <2>3, TopReplaced, TableKept
<1>6. CASE HandlerReturns
  <2> DEFINE g == [Top EXCEPT !.pc = "loop", !.i = @ + 1]
  <2>1. stack' = [stack EXCEPT ![Len(stack)] = g]
    BY <1>3, <1>6, Zenon DEF HandlerReturns
  <2>2. Top.pc = "handler"
    BY <1>6 DEF HandlerReturns, Dispatching
  <2>3. g \in S
    BY <1>2, <2>2, ReturnedFrame, Zenon
  <2> QED  BY <1>1, <1>2, <2>1, <2>3, TopReplaced, TableKept
<1>7. CASE DefaultCalled
  <2> DEFINE g == [Top EXCEPT !.pc = "default"]
  <2>1. stack' = [stack EXCEPT ![Len(stack)] = g]
    BY <1>3, <1>7 DEF DefaultCalled
  <2>2. Top.pc = "loop" /\ Top.i \notin Slots /\ Top.called = {} /\ defaultMessageHandler
    BY <1>7 DEF DefaultCalled, ByDefault, Dispatching
  <2>3. g \in S
    BY <1>2, <2>2, DefaultFrame, Zenon
  <2> QED  BY <1>1, <1>2, <2>1, <2>3, TopReplaced, TableKept
<1> QED  BY <1>4, <1>5, <1>6, <1>7

(* The end of a delivery, or its default handler. *)
LEMMA EndsInv ==
    ASSUME MessagesInv, DispatchEnds
    PROVE  MessagesInv'
<1>1. ~crashed /\ stack # <<>> /\ stack' = Pop /\ UNCHANGED tableVars
  BY DEF DispatchEnds, Running, Dispatching
<1> QED  BY <1>1, TopFrame, TableKept

-----------------------------------------------------------------------------
(* The actions that change the table, and the crashes. *)

LEMMA SubscribeInv ==
    ASSUME MessagesInv, SubscribeSucceeds
    PROVE  MessagesInv'
<1> DEFINE r == Top.request
           m == Min(Free)
<1>1. /\ ~crashed /\ ~crashed' /\ stack # <<>> /\ Top.call = "subscribe"
      /\ UNCHANGED <<defaultMessageHandler, nullGiven>>
      /\ removed' = removed \ {Filter(r)}
  BY DEF SubscribeSucceeds, Running, Waiting, Filter
<1>2. /\ r \in Requests /\ (r.clientID = Null => nullGiven)
      /\ Pop \in Seq(FramesOK(messageHandlers, defaultMessageHandler, nullGiven))
  BY <1>1, TopFrame
<1>3. /\ messageHandlers = [i \in Slots |-> messageHandlers[i]]
      /\ \A i \in Slots : Known(messageHandlers[i], nullGiven)
      /\ defaultMessageHandler \in BOOLEAN
      /\ \A i \in Slots : messageHandlers[i].fp => Filter(messageHandlers[i]) \notin removed
  BY DEF MessagesInv, TableInv, UnsubscribedIsSilent
<1>4. CASE r.fp /\ Free # {}
  <2>1. /\ messageHandlers' = [messageHandlers EXCEPT ![m] = r]
        /\ stack' = Forget({m}, Pop)
    BY <1>4 DEF SubscribeSucceeds
  <2>2. m \in Slots
    BY <1>4, MinOfSlots DEF Free
  <2> HIDE DEF r, m
  <2>3. /\ messageHandlers'[m] = r
        /\ \A j \in Slots \ {m} : messageHandlers'[j] = messageHandlers[j]
        /\ messageHandlers' = [i \in Slots |-> messageHandlers'[i]]
    BY <1>3, <2>1, <2>2
  <2>4. \A i \in Slots : Known(messageHandlers'[i], nullGiven)
    BY <1>2, <1>3, <1>4, <2>3 DEF Known
  <2>5. stack' \in Seq(FramesOK(messageHandlers', defaultMessageHandler, nullGiven))
    BY <1>2, <2>1, <2>3, ForgetStack
  <2>6. \A i \in Slots : messageHandlers'[i].fp => Filter(messageHandlers'[i]) \notin removed'
    BY <1>1, <1>3, <2>3
  <2> QED
    BY <1>1, <1>3, <2>3, <2>4, <2>5, <2>6
    DEF MessagesInv, TableInv, StackInv, CrashInv, UnsubscribedIsSilent
<1>5. CASE ~(r.fp /\ Free # {})
  <2>1. messageHandlers' = messageHandlers /\ stack' = Pop
    BY <1>5 DEF SubscribeSucceeds
  <2> HIDE DEF r, m
  <2>2. \A i \in Slots : messageHandlers'[i].fp => Filter(messageHandlers'[i]) \notin removed'
    BY <1>1, <1>3, <2>1
  <2> QED
    BY <1>1, <1>2, <1>3, <2>1, <2>2
    DEF MessagesInv, TableInv, StackInv, CrashInv, UnsubscribedIsSilent
<1> QED  BY <1>4, <1>5

(* A slot whose filter is that of a request, and whose client ID is not    *)
(* null, is one the comparisons of CayenneMQTTUnsubscribe find.            *)
LEMMA FilterIsCompared ==
    ASSUME NEW h \in Requests, NEW r \in Requests, Filter(h) = Filter(r)
    PROVE  /\ h.topic = r.topic /\ h.channel = r.channel
           /\ h.clientID # Null => h.clientID = BuildTopic(r.clientID, r.topic, r.channel).clientID
<1>1. h.channel \in Nat /\ r.channel \in Nat
  BY RequestFacts
<1>2. /\ Filter(h).topic = h.topic /\ Filter(r).topic = r.topic
      /\ Filter(h).channel = Level(h.channel) /\ Filter(r).channel = Level(r.channel)
      /\ h.clientID # Null => Filter(h).clientID = h.clientID
      /\ Filter(r) = BuildTopic(r.clientID, r.topic, r.channel)
  BY DEF Filter, BuildTopic, Level
<1>3. Level(h.channel) = Level(r.channel)
  BY <1>2
<1>4. h.channel = r.channel
  BY <1>1, <1>3, LevelsDiffer
<1> QED  BY <1>2, <1>4

(* CayenneMQTTUnsubscribe empties slots. *)
LEMMA UnsubscribeInv ==
    ASSUME MessagesInv, UnsubscribeSucceeds
    PROVE  MessagesInv'
<1> DEFINE r == Top.request
           gone == SameClient(r)
<1>1. /\ ~crashed /\ ~crashed' /\ stack # <<>> /\ Top.call = "unsubscribe"
      /\ UNCHANGED <<defaultMessageHandler, nullGiven>>
      /\ removed' = removed \cup {Filter(r)}
      /\ messageHandlers' = Cleared(gone) /\ stack' = Forget(gone, Pop)
      /\ \A i \in Candidates(r) : messageHandlers[i].clientID # Null
  BY DEF UnsubscribeSucceeds, Running, Waiting, Filter
<1>2. /\ r \in Requests
      /\ Pop \in Seq(FramesOK(messageHandlers, defaultMessageHandler, nullGiven))
  BY <1>1, TopFrame
<1>3. /\ \A i \in Slots : Known(messageHandlers[i], nullGiven)
      /\ defaultMessageHandler \in BOOLEAN
      /\ \A i \in Slots : messageHandlers[i].fp => Filter(messageHandlers[i]) \notin removed
  BY DEF MessagesInv, TableInv, UnsubscribedIsSilent
<1> HIDE DEF r
<1>4. /\ \A j \in Slots : messageHandlers'[j] = IF j \in gone THEN NoHandler ELSE messageHandlers[j]
      /\ messageHandlers' = [i \in Slots |-> messageHandlers'[i]]
  BY <1>1 DEF Cleared
<1>5. \A i \in Slots : Known(messageHandlers'[i], nullGiven)
  BY <1>3, <1>4 DEF Known
<1>6. stack' \in Seq(FramesOK(messageHandlers', defaultMessageHandler, nullGiven))
  <2>1. \A j \in Slots \ gone : messageHandlers'[j] = messageHandlers[j]
    BY <1>4
  <2> HIDE DEF gone
  <2> QED  BY <1>1, <1>2, <2>1, ForgetStack
<1>7. ASSUME NEW i \in Slots, messageHandlers'[i].fp
      PROVE  Filter(messageHandlers'[i]) \notin removed'
  <2> DEFINE h == messageHandlers[i]
  <2>1. i \notin gone /\ messageHandlers'[i] = h /\ h.fp
    BY <1>4, <1>7 DEF NoHandler
  <2>2. h \in Requests /\ Filter(h) \notin removed
    BY <1>3, <2>1, KnownFacts
  <2>3. Filter(h) # Filter(r)
    <3> SUFFICES ASSUME Filter(h) = Filter(r) PROVE FALSE
      OBVIOUS
    <3>1. /\ h.topic = r.topic /\ h.channel = r.channel
          /\ h.clientID # Null => h.clientID = BuildTopic(r.clientID, r.topic, r.channel).clientID
      BY <1>2, <2>2, FilterIsCompared
    <3>2. i \in Candidates(r)
      BY <3>1 DEF Candidates
    <3>3. i \in SameClient(r)
      BY <1>1, <3>1, <3>2 DEF SameClient
    <3> QED  BY <2>1, <3>3
  <2> QED  BY <1>1, <2>1, <2>2, <2>3
<1> QED
  BY <1>1, <1>3, <1>4, <1>5, <1>6, <1>7
  DEF MessagesInv, TableInv, StackInv, CrashInv, UnsubscribedIsSilent

(* A strcmp with a null client ID. *)
LEMMA CrashesInv ==
    ASSUME MessagesInv, UnsubscribeCrashes \/ DispatchCrashes
    PROVE  MessagesInv'
<1>1. /\ stack' = <<>> /\ stack # <<>>
      /\ UNCHANGED <<messageHandlers, defaultMessageHandler, removed, nullGiven>>
  BY DEF UnsubscribeCrashes, DispatchCrashes, Crash, Waiting, InLoop, Dispatching
<1>2. \A i \in Slots : Known(messageHandlers[i], nullGiven)
  BY DEF MessagesInv, TableInv
<1>3. nullGiven
  <2>1. CASE UnsubscribeCrashes
    <3>1. Top.request.topic # "undefined"
      BY <1>1, <2>1, TopFrame, RequestFacts DEF UnsubscribeCrashes
    <3>2. PICK i \in Candidates(Top.request) : messageHandlers[i].clientID = Null
      BY <2>1 DEF UnsubscribeCrashes
    <3>3. i \in Slots /\ messageHandlers[i].topic # "undefined"
      BY <3>1 DEF Candidates
    <3> QED  BY <1>2, <3>2, <3>3, KnownFacts
  <2>2. CASE DispatchCrashes
    <3>1. /\ Top.i \in Slots /\ messageHandlers[Top.i].fp /\ messageHandlers[Top.i].clientID = Null
      BY <2>2 DEF DispatchCrashes, InLoop, ForChannel
    <3> QED  BY <1>2, <3>1, KnownFacts
  <2> QED  BY <2>1, <2>2
<1>4. StackInv'
  BY <1>1, EmptySeq DEF StackInv
<1> QED  BY <1>1, <1>3, <1>4, Zenon DEF MessagesInv, TableInv, CrashInv, UnsubscribedIsSilent

(* The empty table. *)
LEMMA EmptyTableInv ==
    ASSUME NEW given
    PROVE  /\ EmptyTable = [i \in Slots |-> EmptyTable[i]]
           /\ \A i \in Slots : Known(EmptyTable[i], given) /\ ~EmptyTable[i].fp
BY DEF EmptyTable, Known, NoHandler

(* The invariant holds of the first state, *)
LEMMA MessagesInit ==
    ASSUME Init
    PROVE  MessagesInv
<1>1. StackInv
  BY EmptySeq DEF Init, StackInv
<1> QED
  BY <1>1, EmptyTableInv DEF Init, MessagesInv, TableInv, CrashInv, UnsubscribedIsSilent

(* after CayenneMQTTClientInit, *)
LEMMA ClientInitInv ==
    ASSUME MessagesInv, CayenneMQTTClientInit
    PROVE  MessagesInv'
<1>1. StackInv'
  BY EmptySeq DEF CayenneMQTTClientInit, StackInv
<1> QED
  BY <1>1, EmptyTableInv, Zenon
  DEF CayenneMQTTClientInit, MessagesInv, TableInv, CrashInv, UnsubscribedIsSilent

(* and after every step. *)
LEMMA MessagesNext ==
    ASSUME MessagesInv, [Next]_vars
    PROVE  MessagesInv'
<1>1. ASSUME NEW call \in {"subscribe", "unsubscribe"}, NEW r \in Requests, Begin(call, r)
      PROVE  MessagesInv'
  BY <1>1, BeginInv
<1>2. CASE Begin("respond", NoHandler)
  BY <1>2, BeginInv
<1>3. CASE Call
  BY <1>1, <1>2, <1>3, SubscribeInv, UnsubscribeInv, CrashesInv, CallReturnsInv DEF Call
<1>4. CASE Dispatch
  BY <1>4, ArrivesInv, LoopInv, CrashesInv, EndsInv DEF Dispatch
<1>5. ASSUME UNCHANGED <<tableVars, stack>> PROVE MessagesInv'
  BY <1>5 DEF MessagesInv, tableVars, TableInv, StackInv, CrashInv, UnsubscribedIsSilent
<1>6. CASE Publish
  <2>1. UNCHANGED <<tableVars, stack>>
    BY <1>6, Zenon DEF Publish, BeginArray, Collect, EndArray, CayenneMQTTPublishDataArray, callVars
  <2> QED  BY <1>5, <2>1
<1>7. CASE UNCHANGED vars
  BY <1>5, <1>7 DEF vars, callVars
<1> QED  BY <1>3, <1>4, <1>6, <1>7, ClientInitInv DEF Next

(* In every reachable state the table and the calls in progress are in     *)
(* order.                                                                  *)
THEOREM MessagesInvariant == Spec => []MessagesInv
<1>1. Init => MessagesInv
  BY MessagesInit
<1>2. MessagesInv /\ [Next]_vars => MessagesInv'
  BY MessagesNext
<1> QED  BY <1>1, <1>2, PTL DEF Spec

(* strcmp reads through a null pointer only if CayenneMQTTSubscribe was    *)
(* given one: an empty or cleared slot is never compared.                  *)
THEOREM NullOnlyIfGiven == Spec => []NamedClientsAreSafe
<1>1. MessagesInv => NamedClientsAreSafe
  BY DEF MessagesInv, CrashInv, NamedClientsAreSafe
<1> QED  BY <1>1, MessagesInvariant, PTL

(* What CayenneMQTTUnsubscribe has removed has no handler until it is      *)
(* subscribed again, whatever calls are nested.                            *)
THEOREM UnsubscribeIsComplete == Spec => []UnsubscribedIsSilent
<1>1. MessagesInv => UnsubscribedIsSilent
  BY DEF MessagesInv
<1> QED  BY <1>1, MessagesInvariant, PTL

-----------------------------------------------------------------------------
(* A handler is registered for a topic whose messages reach                *)
(* MQTTMessageArrived's loop: CayenneParseTopic knows cmd and conf.        *)
TopicsAreParsed == \A r \in Requests : r.topic \in {"cmd", "conf"}

(* A message that is dropped has been called for nobody. *)
LEMMA DroppedOutcome ==
    ASSUME TopicsAreParsed, MessagesInv, NEW name \in Names, NEW payload,
           MessageDropped(name, payload), outcome' # None
    PROVE  DeliveredToSubscribers'
<1>1. /\ outcome' = Ended({}, Slots, name, FALSE, FALSE) /\ ~TopicParses(name)
      /\ UNCHANGED tableVars
  BY Zenon DEF MessageDropped
<1>2. /\ outcome'.kept = Slots /\ outcome'.called = {} /\ outcome'.name = name
      /\ outcome'.default = FALSE
  BY <1>1 DEF Ended
<1>3. ASSUME NEW i \in Slots, Served(messageHandlers[i])
      PROVE  ~Matches(Filter(messageHandlers[i]), name)
  <2> DEFINE h == messageHandlers[i]
  <2>1. h \in Requests /\ h.channel # CAYENNE_NO_CHANNEL
    BY <1>3, KnownFacts DEF MessagesInv, TableInv, Served
  <2>2. h.channel \in Nat /\ h.topic \in {"cmd", "conf"}
    BY <2>1, RequestFacts DEF TopicsAreParsed
  <2>3. Filter(h).topic = h.topic /\ Filter(h).channel = Level(h.channel)
    BY DEF Filter, BuildTopic, Level
  <2>4. Level(h.channel) # <<>>
    BY <2>1, <2>2, NotPlus DEF Level
  <2> QED  BY <1>1, <2>2, <2>3, <2>4, Zenon DEF Matches, MatchesButClient, TopicParses
<1>4. messageHandlers' = messageHandlers
  BY <1>1 DEF tableVars
<1> QED  BY <1>1, <1>2, <1>3, <1>4, Zenon DEF DeliveredToSubscribers

(* A delivery that ends has called the right handlers. *)
LEMMA EndedOutcome ==
    ASSUME ChannelsAreNumbers, MessagesInv, DispatchEnds
    PROVE  DeliveredToSubscribers'
<1>1. /\ stack # <<>> /\ Top.call = "dispatch"
      /\ outcome' = Ended(Top.called, Top.kept, Top.name, Top.pc = "default", Top.overwritten)
      /\ \/ Top.pc = "loop" /\ Top.i \notin Slots /\ ~(Top.called = {} /\ defaultMessageHandler)
         \/ Top.pc = "default"
      /\ messageHandlers' = messageHandlers /\ defaultMessageHandler' = defaultMessageHandler
  BY DEF DispatchEnds, Dispatching, ByDefault, tableVars
<1>2. Top \in DispatchFrames /\ DispatchOK(Top, messageHandlers, defaultMessageHandler)
  BY <1>1, TopFrame
<1>3. /\ outcome'.kept = Top.kept /\ outcome'.called = Top.called /\ outcome'.name = Top.name
      /\ outcome'.default = (Top.pc = "default") /\ outcome'.overwritten = Top.overwritten
  BY <1>1 DEF Ended
<1>4. Top.i \notin Slots
  BY <1>1, <1>2 DEF DispatchOK
<1>5. \A j \in Top.kept : Seen(Top, j)
  <2>1. Top.i \in Nat \ {0} /\ Top.kept \subseteq Slots /\ MaxHandlers \in Nat
    BY <1>2, SlotFacts DEF DispatchFrames
  <2> QED  BY <1>4, <2>1 DEF Seen, Slots
<1>6. \A j \in Top.kept : Served(messageHandlers[j]) => TreatedRight(Top, j, messageHandlers[j])
  BY <1>2, <1>5 DEF DispatchOK
<1>7. (Top.pc = "default") <=> Top.called = {} /\ defaultMessageHandler /\ TopicParses(Top.name)
  BY <1>1, <1>2 DEF DispatchOK
<1>8. \A i \in outcome'.kept :
        Served(messageHandlers'[i]) =>
          LET filter == Filter(messageHandlers'[i])
          IN  /\ ~outcome'.overwritten => (i \in outcome'.called <=> Matches(filter, outcome'.name))
              /\ i \in outcome'.called => MatchesButClient(filter, outcome'.name)
  BY <1>1, <1>3, <1>6 DEF TreatedRight
<1>9. outcome'.default <=> outcome'.called = {} /\ defaultMessageHandler' /\ TopicParses(outcome'.name)
  BY <1>1, <1>3, <1>7, Zenon
<1> QED  BY <1>8, <1>9 DEF DeliveredToSubscribers

(* A message is delivered to the handlers whose filters match its topic    *)
(* name in the sense of MQTT, and to no others, among the slots that no    *)
(* nested call has changed; the default handler gets it if and only if     *)
(* none of them has.  The channels a handler is for are below 2^32 - 1 and *)
(* the topics cmd and conf.                                                *)
THEOREM DeliveredAsFiltersMatch ==
    ASSUME ChannelsAreNumbers, TopicsAreParsed
    PROVE  Spec => []DeliveredToSubscribers
<1>1. Init => DeliveredToSubscribers
  BY DEF Init, DeliveredToSubscribers
<1>2. MessagesInv /\ DeliveredToSubscribers /\ [Next]_vars => DeliveredToSubscribers'
  <2> SUFFICES ASSUME MessagesInv, DeliveredToSubscribers, [Next]_vars PROVE DeliveredToSubscribers'
    OBVIOUS
  <2>1. ASSUME outcome' = None PROVE DeliveredToSubscribers'
    BY <2>1 DEF DeliveredToSubscribers
  <2>2. ASSUME UNCHANGED callVars PROVE DeliveredToSubscribers'
    BY <2>2 DEF DeliveredToSubscribers, callVars, tableVars
  <2>3. CASE CayenneMQTTClientInit
    BY <2>1, <2>3 DEF CayenneMQTTClientInit
  <2>4. CASE Call
    BY <2>1, <2>4, Zenon
    DEF Call, Begin, SubscribeSucceeds, UnsubscribeSucceeds, UnsubscribeCrashes, CallReturns
  <2>5. CASE Dispatch
    <3>1. ASSUME NEW name \in Names, NEW payload \in Payloads,
                 MQTTMessageArrived(name, payload) \/ MessageDropped(name, payload)
          PROVE  DeliveredToSubscribers'
      BY <2>1, <3>1, DroppedOutcome, Zenon DEF MQTTMessageArrived
    <3>2. ASSUME HandlerCalled \/ SlotPassedOver \/ DispatchCrashes \/ HandlerReturns \/ DefaultCalled
          PROVE  DeliveredToSubscribers'
      BY <2>1, <3>2
      DEF HandlerCalled, SlotPassedOver, DispatchCrashes, HandlerReturns, DefaultCalled
    <3> QED  BY <2>5, <3>1, <3>2, EndedOutcome DEF Dispatch
  <2>6. CASE Publish
    BY <2>1, <2>2, <2>6, Zenon DEF Publish, BeginArray, Collect, EndArray, CayenneMQTTPublishDataArray
  <2>7. CASE UNCHANGED vars
    BY <2>2, <2>7 DEF vars
  <2> QED  BY <2>3, <2>4, <2>5, <2>6, <2>7 DEF Next
<1> QED  BY <1>1, <1>2, MessagesInvariant, PTL DEF Spec

(* A subscription that succeeds with a handler takes a slot unless all are *)
(* in use, and takes it from nobody.                                       *)
THEOREM SubscriptionTakesASlot == Spec => SubscribedIsHeard
<1> DEFINE Heard ==
      SubscribeSucceeds /\ Top.request.fp =>
         /\ \/ \E i \in Slots : messageHandlers'[i] = Top.request
            \/ \A i \in Slots : messageHandlers[i].fp
         /\ \A i \in Slots : messageHandlers[i].fp => messageHandlers'[i] = messageHandlers[i]
<1>1. MessagesInv => Heard
  <2> SUFFICES ASSUME MessagesInv, SubscribeSucceeds, Top.request.fp
               PROVE  /\ \/ \E i \in Slots : messageHandlers'[i] = Top.request
                         \/ \A i \in Slots : messageHandlers[i].fp
                      /\ \A i \in Slots : messageHandlers[i].fp => messageHandlers'[i] = messageHandlers[i]
    OBVIOUS
  <2>1. messageHandlers = [i \in Slots |-> messageHandlers[i]]
    BY DEF MessagesInv, TableInv
  <2>2. CASE Free = {}
    BY <2>2 DEF SubscribeSucceeds, Free
  <2>3. CASE Free # {}
    <3> DEFINE m == Min(Free)
    <3>1. messageHandlers' = [messageHandlers EXCEPT ![m] = Top.request]
      BY <2>3 DEF SubscribeSucceeds
    <3>2. m \in Free /\ m \in Slots /\ ~messageHandlers[m].fp
      BY <2>3, MinOfSlots DEF Free
    <3> HIDE DEF m
    <3> QED  BY <2>1, <3>1, <3>2
  <2> QED  BY <2>2, <2>3
<1> QED  BY <1>1, MessagesInvariant, PTL DEF SubscribedIsHeard

=============================================================================
