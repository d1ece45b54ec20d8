---------------------------- MODULE GeneratorProofs ----------------------------
(***************************************************************************)
(* The request generator hands out every request with every combination of *)
(* payloads, once and in order, for any number of requests and any number  *)
(* and lengths of payload lists.                                           *)
(***************************************************************************)
EXTENDS RequestGenerator, WellFoundedInduction, TLAPS

-----------------------------------------------------------------------------
(* Induction and recursion, over sets and functions.                       *)

LEMMA LeastNumber ==
    ASSUME NEW T, T \subseteq Nat, T # {}
    PROVE  \E n \in T : \A m \in T : ~(m < n)
<1> DEFINE R == {ss \in Nat \X Nat : ss[1] < ss[2]}
<1>1. IsWellFoundedOn(R, Nat)
  BY NatLessThanWellFounded DEF OpToRel
<1>2. \A x, y \in Nat : x < y => <<x, y>> \in R
  OBVIOUS
<1> HIDE DEF R
<1>3. \E x \in T : \A y \in T : ~ (<<y, x>> \in R)
  BY <1>1, WFMin
<1> QED
  BY <1>2, <1>3

LEMMA MinOf ==
    ASSUME NEW T, T \subseteq Nat, T # {}
    PROVE  Min(T) \in T /\ \A n \in T : Min(T) <= n
<1>1. PICK n \in T : \A m \in T : ~(m < n)
  BY LeastNumber
<1>2. \A m \in T : n <= m
  BY <1>1
<1> QED
  BY <1>2 DEF Min

\* What holds of 0 and goes from every number below m to the next one holds
\* up to m.
LEMMA UpTo ==
    ASSUME NEW m \in Nat, NEW T, 0 \in T,
           \A n \in 0..(m - 1) : n \in T => n + 1 \in T
    PROVE  0..m \subseteq T
<1> SUFFICES ASSUME (0..m) \ T # {} PROVE FALSE
  OBVIOUS
<1>1. PICK n \in (0..m) \ T : \A k \in (0..m) \ T : ~(k < n)
  <2>1. (0..m) \ T \subseteq Nat
    OBVIOUS
  <2> QED
    BY <2>1, LeastNumber
<1>2. n - 1 \in 0..(m - 1) /\ (n - 1) + 1 = n /\ n - 1 < n
  BY <1>1
<1> QED
  BY <1>1, <1>2

\* A function is defined by its value at 0 and a step.
Recurses(m, S, b, F) ==
    \E f \in [0..m -> S] : f[0] = b /\ \A i \in 1..m : f[i] = F[i][f[i - 1]]

LEMMA Recursion ==
    \A m \in Nat : \A S : \A b \in S : \A F \in [1..m -> [S -> S]] : Recurses(m, S, b, F)
<1> SUFFICES ASSUME NEW m \in Nat, NEW S, NEW b \in S, NEW F \in [1..m -> [S -> S]]
             PROVE  Recurses(m, S, b, F)
  OBVIOUS
<1> DEFINE Defines(f, n) == f \in [0..n -> S] /\ f[0] = b
                              /\ \A i \in 1..n : f[i] = F[i][f[i - 1]]
           T == {n \in 0..m : \E f : Defines(f, n)}
<1>1. 0 \in T
  <2> DEFINE g == [i \in 0..0 |-> b]
  <2>1. g \in [0..0 -> S] /\ g[0] = b /\ \A i \in 1..0 : FALSE
    OBVIOUS
  <2> HIDE DEF g
  <2>2. Defines(g, 0)
    BY <2>1
  <2> QED
    BY <2>2
<1>2. ASSUME NEW n \in 0..(m - 1), n \in T PROVE n + 1 \in T
  <2>1. PICK f : Defines(f, n)
    BY <1>2
  <2> DEFINE g == [i \in 0..(n + 1) |-> IF i = n + 1 THEN F[n + 1][f[n]] ELSE f[i]]
  <2>2. f[n] \in S /\ n + 1 \in 1..m
    BY <2>1
  <2>3. F[n + 1][f[n]] \in S
    BY <2>2
  <2>4. g \in [0..(n + 1) -> S] /\ g[0] = b
    BY <2>1, <2>3
  <2>5. ASSUME NEW i \in 1..(n + 1) PROVE g[i] = F[i][g[i - 1]]
    <3>1. CASE i = n + 1
      <4>1. g[i] = F[n + 1][f[n]] /\ g[i - 1] = f[n]
        BY <3>1
      <4> QED
        BY <3>1, <4>1
    <3>2. CASE i \in 1..n
      BY <2>1, <3>2
    <3> QED
      BY <3>1, <3>2
  <2> HIDE DEF g
  <2>6. Defines(g, n + 1)
    BY <2>4, <2>5
  <2> QED
    BY <2>6
<1>3. m \in T
  <2> HIDE DEF T
  <2>1. 0..m \subseteq T
    BY <1>1, <1>2, UpTo
  <2> QED
    BY <2>1
<1>4. PICK f : Defines(f, m)
  BY <1>3
<1> QED
  BY <1>4 DEF Recurses

-----------------------------------------------------------------------------
(* Sums and products                                                       *)

LEMMA SumsOf ==
    ASSUME NEW ns \in Seq(Nat)
    PROVE  /\ Sums(ns) \in [0..Len(ns) -> Nat]
           /\ Sums(ns)[0] = 0
           /\ \A i \in 1..Len(ns) : Sums(ns)[i] = Sums(ns)[i - 1] + ns[i]
<1> DEFINE F == [i \in 1..Len(ns) |-> [n \in Nat |-> n + ns[i]]]
           Is(f) == f = [i \in 0..Len(ns) |-> IF i = 0 THEN 0 ELSE f[i - 1] + ns[i]]
<1>1. F \in [1..Len(ns) -> [Nat -> Nat]] /\ \A i \in 1..Len(ns), n \in Nat : F[i][n] = n + ns[i]
  OBVIOUS
<1>2. Len(ns) \in Nat /\ 0 \in Nat
  OBVIOUS
<1> HIDE DEF F
<1>3. PICK f \in [0..Len(ns) -> Nat] :
           f[0] = 0 /\ \A i \in 1..Len(ns) : f[i] = F[i][f[i - 1]]
  <2>1. Recurses(Len(ns), Nat, 0, F)
    BY <1>1, <1>2, Recursion, Zenon
  <2> QED
    BY <2>1, Zenon DEF Recurses
<1>4. ASSUME NEW i \in 1..Len(ns)
      PROVE  i - 1 \in 0..Len(ns) /\ f[i] = f[i - 1] + ns[i]
  <2>1. i - 1 \in 0..Len(ns)
    BY <1>2
  <2>2. f[i - 1] \in Nat /\ f[i] = F[i][f[i - 1]]
    BY <1>3, <2>1
  <2> QED
    BY <1>1, <2>1, <2>2
<1>5. Is(f)
  BY <1>2, <1>3, <1>4
<1>6. Is(Sums(ns))
  BY <1>5, Zenon DEF Sums
<1> DEFINE T == {i \in 0..Len(ns) : Sums(ns)[i] = f[i]}
<1>7. 0 \in T
  BY <1>2, <1>3, <1>6
<1>8. ASSUME NEW i \in 0..(Len(ns) - 1), i \in T PROVE i + 1 \in T
  BY <1>2, <1>4, <1>6, <1>8
<1> HIDE DEF T
<1>9. 0..Len(ns) \subseteq T
  BY <1>2, <1>7, <1>8, UpTo
<1>10. \A i \in 0..Len(ns) : Sums(ns)[i] = f[i]
  BY <1>9 DEF T
<1>11. Sums(ns) = f
  BY <1>3, <1>6, <1>10
<1> QED
  BY <1>3, <1>4, <1>11

LEMMA ProductsOf ==
    ASSUME NEW ns \in Seq(Nat)
    PROVE  /\ Products(ns) \in [0..Len(ns) -> Nat]
           /\ Products(ns)[0] = 1
           /\ \A i \in 1..Len(ns) : Products(ns)[i] = Products(ns)[i - 1] * ns[i]
<1> DEFINE F == [i \in 1..Len(ns) |-> [n \in Nat |-> n * ns[i]]]
           Is(f) == f = [i \in 0..Len(ns) |-> IF i = 0 THEN 1 ELSE f[i - 1] * ns[i]]
<1>1. F \in [1..Len(ns) -> [Nat -> Nat]] /\ \A i \in 1..Len(ns), n \in Nat : F[i][n] = n * ns[i]
  OBVIOUS
<1>2. Len(ns) \in Nat /\ 1 \in Nat
  OBVIOUS
<1> HIDE DEF F
<1>3. PICK f \in [0..Len(ns) -> Nat] :
           f[0] = 1 /\ \A i \in 1..Len(ns) : f[i] = F[i][f[i - 1]]
  <2>1. Recurses(Len(ns), Nat, 1, F)
    BY <1>1, <1>2, Recursion, Zenon
  <2> QED
    BY <2>1, Zenon DEF Recurses
<1>4. ASSUME NEW i \in 1..Len(ns)
      PROVE  i - 1 \in 0..Len(ns) /\ f[i] = f[i - 1] * ns[i]
  <2>1. i - 1 \in 0..Len(ns)
    BY <1>2
  <2>2. f[i - 1] \in Nat /\ f[i] = F[i][f[i - 1]]
    BY <1>3, <2>1
  <2> QED
    BY <1>1, <2>1, <2>2
<1>5. Is(f)
  BY <1>2, <1>3, <1>4
<1>6. Is(Products(ns))
  BY <1>5, Zenon DEF Products
<1> DEFINE T == {i \in 0..Len(ns) : Products(ns)[i] = f[i]}
<1>7. 0 \in T
  BY <1>2, <1>3, <1>6
<1>8. ASSUME NEW i \in 0..(Len(ns) - 1), i \in T PROVE i + 1 \in T
  BY <1>2, <1>4, <1>6, <1>8
<1> HIDE DEF T
<1>9. 0..Len(ns) \subseteq T
  BY <1>2, <1>7, <1>8, UpTo
<1>10. \A i \in 0..Len(ns) : Products(ns)[i] = f[i]
  BY <1>9 DEF T
<1>11. Products(ns) = f
  BY <1>3, <1>6, <1>10
<1> QED
  BY <1>3, <1>4, <1>11


LEMMA SumsGrow ==
    ASSUME NEW ns \in Seq(Nat), NEW i \in 0..Len(ns), NEW j \in 0..Len(ns), i <= j
    PROVE  Sums(ns)[i] <= Sums(ns)[j]
<1> DEFINE S == Sums(ns)
           T == {x \in 0..Len(ns) : i <= x => S[i] <= S[x]}
<1>1. /\ Len(ns) \in Nat /\ S \in [0..Len(ns) -> Nat]
      /\ \A x \in 1..Len(ns) : S[x] = S[x - 1] + ns[x] /\ ns[x] \in Nat
  <2>1. /\ S \in [0..Len(ns) -> Nat]
        /\ \A x \in 1..Len(ns) : S[x] = S[x - 1] + ns[x]
    BY SumsOf, Zenon
  <2> HIDE DEF S
  <2> QED
    BY <2>1
<1> HIDE DEF S
<1>2. 0 \in T
  <2>1. 0 \in 0..Len(ns) /\ (i <= 0 => i = 0)
    BY <1>1
  <2>2. i = 0 => S[i] <= S[0]
    <3>1. S[0] \in Nat
      BY <1>1, <2>1
    <3> QED
      BY <3>1
  <2> QED
    BY <2>1, <2>2
<1>3. ASSUME NEW x \in 0..(Len(ns) - 1), x \in T PROVE x + 1 \in T
  <2> DEFINE y == x + 1
  <2>1. y \in 1..Len(ns) /\ y \in 0..Len(ns) /\ y - 1 = x /\ x \in 0..Len(ns)
    BY <1>1
  <2>2. i <= y => i <= x \/ i = y
    OBVIOUS
  <2> HIDE DEF y
  <2>3. S[y] = S[x] + ns[y] /\ ns[y] \in Nat /\ S[x] \in Nat /\ S[i] \in Nat /\ S[y] \in Nat
    BY <1>1, <2>1
  <2>4. i <= x => S[i] <= S[x]
    BY <1>3
  <2>5. y \in T
    BY <2>1, <2>2, <2>3, <2>4
  <2> QED
    BY <2>5 DEF y
<1> HIDE DEF T
<1>4. j \in T
  BY <1>1, <1>2, <1>3, UpTo
<1> QED
  BY <1>4 DEF S, T

\* When there are combinations no list is empty.
LEMMA NoneEmpty ==
    ASSUME NEW ns \in Seq(Nat), Products(ns)[Len(ns)] # 0
    PROVE  /\ \A i \in 1..Len(ns) : ns[i] \in Nat \ {0}
           /\ \A i \in 0..Len(ns) : Products(ns)[i] \in Nat \ {0}
<1> DEFINE n == Len(ns)
           P == Products(ns)
           T == {x \in 0..n : P[n - x] # 0}
<1>1. /\ n \in Nat /\ P \in [0..n -> Nat]
      /\ \A x \in 1..n : P[x] = P[x - 1] * ns[x] /\ ns[x] \in Nat
  BY ProductsOf
<1>2. P[n] # 0
  OBVIOUS
<1> HIDE DEF P, n
<1>3. 0 \in T
  BY <1>1, <1>2
<1>4. ASSUME NEW x \in 1..n, P[x] # 0 PROVE P[x - 1] # 0 /\ ns[x] # 0
  <2>1. x - 1 \in 0..n
    BY <1>1
  <2>2. P[x - 1] \in Nat /\ ns[x] \in Nat /\ P[x] = P[x - 1] * ns[x]
    BY <1>1, <2>1
  <2>3. \A a \in Nat : a * 0 = 0 /\ 0 * a = 0
    OBVIOUS
  <2> QED
    BY <1>4, <2>2, <2>3
<1>5. ASSUME NEW x \in 0..(n - 1), x \in T PROVE x + 1 \in T
  <2>1. n - x \in 1..n /\ x + 1 \in 0..n /\ (n - x) - 1 = n - (x + 1)
    BY <1>1
  <2>2. P[n - x] # 0
    BY <1>5
  <2> QED
    BY <1>4, <2>1, <2>2
<1> HIDE DEF T
<1>6. 0..n \subseteq T
  BY <1>1, <1>3, <1>5, UpTo
<1>7. ASSUME NEW i \in 0..n PROVE P[i] # 0
  <2>1. n - i \in 0..n /\ n - (n - i) = i
    BY <1>1
  <2>2. n - i \in T
    BY <1>6, <2>1
  <2> QED
    BY <2>1, <2>2 DEF T
<1>8. \A i \in 1..n : i \in 0..n /\ ns[i] # 0
  BY <1>1, <1>4, <1>7
<1> QED
  BY <1>1, <1>7, <1>8 DEF n, P

-----------------------------------------------------------------------------
(* Division                                                                *)

LEMMA Division ==
    ASSUME NEW a \in Nat, NEW b \in Nat \ {0}
    PROVE  /\ a \div b \in Nat /\ (a % b) \in 0..(b - 1)
           /\ a = b * (a \div b) + (a % b)
  OBVIOUS

LEMMA Quotient ==
    ASSUME NEW a \in Nat, NEW b \in Nat \ {0}, NEW q \in Nat, NEW r \in 0..(b - 1),
           a = b * q + r
    PROVE  a \div b = q /\ (a % b) = r
<1> DEFINE p == a \div b
           s == a % b
<1>1. p \in Nat /\ s \in 0..(b - 1) /\ a = b * p + s
  BY Division
<1> HIDE DEF p, s
<1>2. ASSUME p < q PROVE FALSE
  <2>1. PICK d \in Nat \ {0} : q = p + d
    <3>1. q - p \in Nat \ {0} /\ q = p + (q - p)
      BY <1>1, <1>2
    <3> QED
      BY <3>1
  <2>2. b * q = b * p + b * d /\ b * d >= b /\ b * p \in Nat /\ b * d \in Nat
    BY <1>1, <2>1
  <2> QED
    BY <1>1, <2>2
<1>3. ASSUME q < p PROVE FALSE
  <2>1. PICK d \in Nat \ {0} : p = q + d
    <3>1. p - q \in Nat \ {0} /\ p = q + (p - q)
      BY <1>1, <1>3
    <3> QED
      BY <3>1
  <2>2. b * p = b * q + b * d /\ b * d >= b /\ b * q \in Nat /\ b * d \in Nat
    BY <1>1, <2>1
  <2> QED
    BY <1>1, <2>2
<1>4. p = q
  BY <1>1, <1>2, <1>3
<1>5. b * q \in Nat
  OBVIOUS
<1>6. s = r
  BY <1>1, <1>4, <1>5
<1> QED
  BY <1>4, <1>6 DEF p, s

InTwoSteps(a, b, c) == a \div (b * c) = (a \div b) \div c

LEMMA DivideTwice == \A a \in Nat, b, c \in Nat \ {0} : InTwoSteps(a, b, c)
<1> SUFFICES ASSUME NEW a \in Nat, NEW b \in Nat \ {0}, NEW c \in Nat \ {0}
             PROVE  a \div (b * c) = (a \div b) \div c
  BY DEF InTwoSteps
<1> DEFINE p == a \div b
           r == a % b
           q == p \div c
           s == p % c
           m == b * c
           x == b * s + r
<1>1. p \in Nat /\ r \in 0..(b - 1) /\ a = b * p + r
  BY Division
<1> HIDE DEF p, r
<1>2. q \in Nat /\ s \in 0..(c - 1) /\ p = c * q + s
  BY <1>1, Division
<1> HIDE DEF q, s
<1>3. m \in Nat \ {0}
  OBVIOUS
<1>4. b * p = m * q + b * s
  BY <1>1, <1>2
<1>5. b * s \in Nat /\ b * s + b <= m
  <2>1. PICK d \in Nat : c = s + 1 + d
    <3>1. c - (s + 1) \in Nat /\ c = s + 1 + (c - (s + 1))
      BY <1>2
    <3> QED
      BY <3>1
  <2>2. m = b * s + b + b * d /\ b * d \in Nat /\ b * s \in Nat
    BY <1>2, <2>1
  <2> QED
    BY <2>2
<1> HIDE DEF m
<1>6. x \in 0..(m - 1)
  BY <1>1, <1>3, <1>5
<1>7. a = m * q + x
  <2>1. m * q \in Nat
    BY <1>2, <1>3
  <2> QED
    BY <1>1, <1>4, <1>5, <2>1
<1> HIDE DEF x
<1>8. a \div m = q
  BY <1>2, <1>3, <1>6, <1>7, Quotient
<1> QED
  BY <1>8 DEF m, q, p

\* Counting on by one, with a carry.
LEMMA CountOne ==
    ASSUME NEW q \in Nat, NEW b \in Nat \ {0}
    PROVE  /\ (q + 1) \div b = (q \div b) + (IF (q % b) = b - 1 THEN 1 ELSE 0)
           /\ (q + 1) % b = IF (q % b) = b - 1 THEN 0 ELSE (q % b) + 1
<1> DEFINE p == q \div b
           r == q % b
           x == q + 1
<1>1. p \in Nat /\ r \in 0..(b - 1) /\ q = b * p + r
  BY Division
<1> HIDE DEF p, r
<1>2. b * p \in Nat /\ b * (p + 1) = b * p + b /\ x \in Nat
  BY <1>1
<1>3. CASE r = b - 1
  <2>1. x = b * (p + 1) + 0 /\ p + 1 \in Nat /\ 0 \in 0..(b - 1)
    BY <1>1, <1>2, <1>3
  <2> HIDE DEF x
  <2>2. x \div b = p + 1 /\ (x % b) = 0
    BY <1>2, <2>1, Quotient
  <2> QED
    BY <1>3, <2>2 DEF x, p, r
<1>4. CASE r # b - 1
  <2>1. x = b * p + (r + 1) /\ r + 1 \in 0..(b - 1)
    BY <1>1, <1>2, <1>4
  <2> HIDE DEF x
  <2>2. x \div b = p /\ (x % b) = r + 1
    BY <1>1, <1>2, <2>1, Quotient
  <2>3. p + 0 = p
    BY <1>1
  <2> QED
    BY <1>4, <2>2, <2>3 DEF x, p, r
<1> QED
  BY <1>3, <1>4

-----------------------------------------------------------------------------
(* Digits, in a mixed base                                                 *)

Digit(ns, k, i) == (k \div Products(ns)[i - 1]) % ns[i]

\* All digits up to i are at their end.
Carries(ns, k, i) == \A j \in 1..i : Digit(ns, k, j) = ns[j] - 1

LEMMA Digits ==
    ASSUME NEW ns \in Seq(Nat), Products(ns)[Len(ns)] # 0, NEW k \in Nat
    PROVE  \A i \in 1..Len(ns) : Digit(ns, k, i) \in 0..(ns[i] - 1) /\ Digit(ns, 0, i) = 0
<1> SUFFICES ASSUME NEW i \in 1..Len(ns)
             PROVE  Digit(ns, k, i) \in 0..(ns[i] - 1) /\ Digit(ns, 0, i) = 0
  OBVIOUS
<1> DEFINE w == Products(ns)[i - 1]
           b == ns[i]
           q == k \div w
           z == 0 \div w
<1>1. w \in Nat \ {0} /\ b \in Nat \ {0}
  <2>1. i - 1 \in 0..Len(ns)
    OBVIOUS
  <2> QED
    BY <2>1, NoneEmpty
<1>2. Digit(ns, k, i) = q % b /\ Digit(ns, 0, i) = z % b
  BY DEF Digit
<1> HIDE DEF w, b
<1>3. q \in Nat
  BY <1>1, Division
<1>4. z = 0
  <2>1. 0 = w * 0 + 0 /\ 0 \in 0..(w - 1)
    BY <1>1
  <2> QED
    BY <1>1, <2>1, Quotient
<1> HIDE DEF q, z
<1>5. q % b \in 0..(b - 1)
  BY <1>1, <1>3, Division
<1>6. z % b = 0
  <2>1. 0 = b * 0 + 0 /\ 0 \in 0..(b - 1)
    BY <1>1
  <2> QED
    BY <1>1, <1>4, <2>1, Quotient
<1> QED
  BY <1>2, <1>5, <1>6 DEF b

LEMMA CarriesStep ==
    ASSUME NEW ns \in Seq(Nat), NEW k \in Nat, NEW i \in 1..Len(ns)
    PROVE  Carries(ns, k, i) <=> Carries(ns, k, i - 1) /\ Digit(ns, k, i) = ns[i] - 1
<1>1. \A j : j \in 1..i <=> j \in 1..(i - 1) \/ j = i
  OBVIOUS
<1> QED
  BY <1>1 DEF Carries

LEMMA CountDigits ==
    ASSUME NEW ns \in Seq(Nat), Products(ns)[Len(ns)] # 0, NEW k \in Nat
    PROVE  \A i \in 0..Len(ns) :
              (k + 1) \div Products(ns)[i]
                  = (k \div Products(ns)[i]) + (IF Carries(ns, k, i) THEN 1 ELSE 0)
<1> DEFINE n == Len(ns)
           Q(x, i) == x \div Products(ns)[i]
           T == {i \in 0..n : Q(k + 1, i) = Q(k, i) + (IF Carries(ns, k, i) THEN 1 ELSE 0)}
<1>1. n \in Nat /\ k + 1 \in Nat
  OBVIOUS
<1>2. 0 \in T
  <2>1. Products(ns)[0] = 1 /\ Carries(ns, k, 0)
    BY ProductsOf DEF Carries
  <2>2. k \div 1 = k /\ (k + 1) \div 1 = k + 1
    <3>1. k = 1 * k + 0 /\ k + 1 = 1 * (k + 1) + 0 /\ 0 \in 0..(1 - 1) /\ 1 \in Nat \ {0}
      OBVIOUS
    <3>2. k \div 1 = k
      BY <3>1, Quotient
    <3> DEFINE x == k + 1
    <3>3. x \in Nat /\ x = 1 * x + 0
      OBVIOUS
    <3> HIDE DEF x
    <3>4. x \div 1 = x
      BY <3>1, <3>3, Quotient
    <3> QED
      BY <3>2, <3>4 DEF x
  <2> QED
    BY <1>1, <2>1, <2>2
<1>3. ASSUME NEW i \in 0..(n - 1), i \in T PROVE i + 1 \in T
  <2> DEFINE m == i + 1
             w == Products(ns)[i]
             b == ns[m]
             q == k \div w
             x == k + 1
  <2>1. m \in 1..n /\ m \in 0..n /\ m - 1 = i /\ i \in 0..n
    BY <1>1
  <2> HIDE DEF m
  <2>2. w \in Nat \ {0} /\ b \in Nat \ {0} /\ Products(ns)[m] = w * b
    BY <2>1, NoneEmpty, ProductsOf
  <2>3. Digit(ns, k, m) = q % b
    BY <2>1 DEF Digit
  <2>4. Carries(ns, k, m) <=> Carries(ns, k, i) /\ q % b = b - 1
    BY <2>1, <2>3, CarriesStep
  <2>5. x \div w = q + (IF Carries(ns, k, i) THEN 1 ELSE 0)
    BY <1>3
  <2>6. x \in Nat
    OBVIOUS
  <2> HIDE DEF w, b, x
  <2>7. Q(x, m) = (x \div w) \div b /\ Q(k, m) = q \div b
    <3>1. InTwoSteps(x, w, b) /\ InTwoSteps(k, w, b)
      BY <2>2, <2>6, DivideTwice, Zenon
    <3> QED
      BY <2>2, <3>1 DEF InTwoSteps
  <2>8. q \in Nat
    BY <2>2, Division
  <2> HIDE DEF q
  <2>9. Q(x, m) = Q(k, m) + (IF Carries(ns, k, m) THEN 1 ELSE 0)
    <3>1. q \div b \in Nat
      BY <2>2, <2>8, Division
    <3>2. (q + 1) \div b = (q \div b) + (IF q % b = b - 1 THEN 1 ELSE 0)
      BY <2>2, <2>8, CountOne
    <3> HIDE DEF Q
    <3>3. CASE Carries(ns, k, i)
      BY <2>4, <2>5, <2>7, <3>2, <3>3
    <3>4. CASE ~Carries(ns, k, i)
      <4>1. x \div w = q
        BY <2>5, <2>8, <3>4
      <4> QED
        BY <2>4, <2>7, <3>1, <3>4, <4>1
    <3> QED
      BY <3>3, <3>4
  <2>10. m \in T
    BY <2>1, <2>9 DEF x
  <2> QED
    BY <2>10 DEF m
<1> HIDE DEF T
<1>4. 0..n \subseteq T
  BY <1>1, <1>2, <1>3, UpTo
<1> QED
  BY <1>4 DEF T

\* A digit counts when all before it are at their end.
LEMMA NextDigit ==
    ASSUME NEW ns \in Seq(Nat), Products(ns)[Len(ns)] # 0, NEW k \in Nat
    PROVE  \A i \in 1..Len(ns) :
              Digit(ns, k + 1, i) = IF ~Carries(ns, k, i - 1) THEN Digit(ns, k, i)
                                    ELSE IF Digit(ns, k, i) = ns[i] - 1 THEN 0
                                    ELSE Digit(ns, k, i) + 1
<1> SUFFICES ASSUME NEW i \in 1..Len(ns)
             PROVE  Digit(ns, k + 1, i) = IF ~Carries(ns, k, i - 1) THEN Digit(ns, k, i)
                                          ELSE IF Digit(ns, k, i) = ns[i] - 1 THEN 0
                                          ELSE Digit(ns, k, i) + 1
  OBVIOUS
<1> DEFINE w == Products(ns)[i - 1]
           b == ns[i]
           q == k \div w
           y == (k + 1) \div w
<1>1. w \in Nat \ {0} /\ b \in Nat \ {0} /\ i - 1 \in 0..Len(ns)
  <2>1. i - 1 \in 0..Len(ns)
    OBVIOUS
  <2> QED
    BY <2>1, NoneEmpty
<1>2. y = q + (IF Carries(ns, k, i - 1) THEN 1 ELSE 0)
  BY <1>1, CountDigits
<1>3. Digit(ns, k, i) = q % b /\ Digit(ns, k + 1, i) = y % b
  BY DEF Digit
<1>4. q \in Nat
  BY <1>1, Division
<1> HIDE DEF w, b, q, y
<1>5. (q + 1) % b = IF q % b = b - 1 THEN 0 ELSE (q % b) + 1
  BY <1>1, <1>4, CountOne
<1>6. CASE Carries(ns, k, i - 1)
  BY <1>2, <1>3, <1>5, <1>6 DEF b
<1>7. CASE ~Carries(ns, k, i - 1)
  <2>1. y = q
    BY <1>2, <1>4, <1>7
  <2> QED
    BY <1>3, <1>7, <2>1
<1> QED
  BY <1>6, <1>7

\* Only the last combination has all digits at their end.
LEMMA NoOverflow ==
    ASSUME NEW ns \in Seq(Nat), Products(ns)[Len(ns)] # 0, NEW k \in Nat,
           k + 1 < Products(ns)[Len(ns)]
    PROVE  ~Carries(ns, k, Len(ns))
<1> DEFINE w == Products(ns)[Len(ns)]
           x == k + 1
<1>1. w \in Nat \ {0} /\ Len(ns) \in 0..Len(ns)
  BY NoneEmpty
<1>2. x \div w = (k \div w) + (IF Carries(ns, k, Len(ns)) THEN 1 ELSE 0)
  BY <1>1, CountDigits
<1>3. k \in 0..(w - 1) /\ x \in 0..(w - 1) /\ x \in Nat
  BY <1>1
<1> HIDE DEF w, x
<1>4. k = w * 0 + k /\ x = w * 0 + x
  BY <1>1, <1>3
<1>5. k \div w = 0 /\ x \div w = 0
  BY <1>1, <1>3, <1>4, Quotient
<1> QED
  BY <1>2, <1>5

-----------------------------------------------------------------------------
(* One round of the cluster bomb                                           *)

N == Len(plan.lens)
GoodLists == plan.lens \in Seq(Nat)
Accs == [at : [Lists -> Nat], msb : Nat, signal : BOOLEAN, again : BOOLEAN, value : Seq(Nat)]

LEMMA ListsOf ==
    ASSUME GoodLists
    PROVE  N \in Nat /\ Lists = 1..N /\ \A i \in Lists : plan.lens[i] \in Nat
BY DEF GoodLists, N, Lists

Here(acc, i) == acc.at[i] + (IF acc.signal THEN 1 ELSE 0)
AtEnd(acc, i) == Here(acc, i) >= plan.lens[i]
ValueAt(acc, i) == IF AtEnd(acc, i) THEN 0 ELSE Here(acc, i)
AnewAfter(at, i) ==
    [j \in Lists |-> IF j <= i THEN 0 ELSE IF j = i + 1 THEN at[j] + 1 ELSE at[j]]

LEMMA BombListOf ==
    ASSUME GoodLists, NEW acc \in Accs, NEW i \in Lists
    PROVE  /\ BombList(acc, i) \in Accs
           /\ acc.again => BombList(acc, i) = acc
           /\ ~acc.again /\ AtEnd(acc, i) /\ i = acc.msb =>
                /\ BombList(acc, i).again /\ BombList(acc, i).msb = acc.msb + 1
                /\ BombList(acc, i).at = AnewAfter(acc.at, i)
           /\ ~acc.again /\ ~(AtEnd(acc, i) /\ i = acc.msb) =>
                /\ ~BombList(acc, i).again /\ BombList(acc, i).msb = acc.msb
                /\ BombList(acc, i).signal \in BOOLEAN
                /\ BombList(acc, i).signal <=> AtEnd(acc, i)
                /\ BombList(acc, i).value = Append(acc.value, ValueAt(acc, i))
                /\ BombList(acc, i).at =
                       [acc.at EXCEPT ![i] = IF i = 1 THEN ValueAt(acc, i) + 1
                                             ELSE ValueAt(acc, i)]
<1> DEFINE here == Here(acc, i)
           over == AtEnd(acc, i)
           value == ValueAt(acc, i)
           anew == AnewAfter(acc.at, i)
           move == [acc EXCEPT !.again = TRUE, !.msb = acc.msb + 1, !.at = anew]
           last == IF i = 1 THEN value + 1 ELSE value
           go == [acc EXCEPT !.signal = over, !.value = Append(acc.value, value), !.at[i] = last]
<1>1. /\ acc.at \in [Lists -> Nat] /\ acc.msb \in Nat /\ acc.signal \in BOOLEAN
      /\ acc.again \in BOOLEAN /\ acc.value \in Seq(Nat) /\ i \in Nat /\ plan.lens[i] \in Nat
  BY ListsOf DEF Accs
<1>2. BombList(acc, i) = IF acc.again THEN acc ELSE IF over /\ i = acc.msb THEN move ELSE go
  BY DEF BombList, AtEnd, ValueAt, Here, AnewAfter
<1>3. here \in Nat /\ value \in Nat /\ over \in BOOLEAN /\ last \in Nat
  BY <1>1 DEF Here, ValueAt, AtEnd
<1>4. anew \in [Lists -> Nat]
  BY <1>1, ListsOf DEF AnewAfter
<1> HIDE DEF here, over, value, last, anew
<1>5. move \in Accs /\ move.again = TRUE /\ move.msb = acc.msb + 1 /\ move.at = anew
  <2>1. acc.msb + 1 \in Nat
    BY <1>1
  <2> QED
    BY <1>4, <2>1 DEF Accs
<1>6. /\ [acc.at EXCEPT ![i] = last] \in [Lists -> Nat] /\ Append(acc.value, value) \in Seq(Nat)
  BY <1>1, <1>3
<1>7. /\ go \in Accs /\ go.again = acc.again /\ go.msb = acc.msb /\ go.signal = over
      /\ go.value = Append(acc.value, value)
      /\ go.at = [acc.at EXCEPT ![i] = last]
  BY <1>3, <1>6 DEF Accs
<1> HIDE DEF move, go
<1> QED
  BY <1>2, <1>3, <1>5, <1>7 DEF over, value, last, anew

LEMMA RoundOf ==
    ASSUME GoodLists, NEW t, t.at \in [Lists -> Nat], t.msb \in Nat
    PROVE  \E f \in [0..N -> Accs] :
              /\ f[0] = RoundStart(t)
              /\ \A i \in 1..N : f[i] = BombList(f[i - 1], i)
              /\ BombRound(t) = f[N]
<1> DEFINE F == [i \in 1..N |-> [acc \in Accs |-> BombList(acc, i)]]
           Is(f) == f = [i \in 0..N |-> IF i = 0 THEN RoundStart(t) ELSE BombList(f[i - 1], i)]
           g == CHOOSE f : Is(f)
<1>1. N \in Nat /\ Lists = 1..N
  BY ListsOf
<1>2. RoundStart(t) \in Accs
  BY DEF RoundStart, Accs
<1>3. F \in [1..N -> [Accs -> Accs]] /\ \A i \in 1..N, acc \in Accs : F[i][acc] = BombList(acc, i)
  BY <1>1, BombListOf
<1> HIDE DEF F
<1>4. PICK f \in [0..N -> Accs] : f[0] = RoundStart(t) /\ \A i \in 1..N : f[i] = F[i][f[i - 1]]
  <2>1. Recurses(N, Accs, RoundStart(t), F)
    BY <1>1, <1>2, <1>3, Recursion, Zenon
  <2> QED
    BY <2>1, Zenon DEF Recurses
<1>5. ASSUME NEW i \in 1..N PROVE i - 1 \in 0..N /\ f[i] = BombList(f[i - 1], i)
  <2>1. i - 1 \in 0..N
    BY <1>1
  <2>2. f[i - 1] \in Accs /\ f[i] = F[i][f[i - 1]]
    BY <1>4, <2>1
  <2> QED
    BY <1>3, <2>1, <2>2
<1>6. Is(f)
  <2>1. ASSUME NEW i \in 0..N
        PROVE  f[i] = IF i = 0 THEN RoundStart(t) ELSE BombList(f[i - 1], i)
    <3>1. CASE i = 0
      BY <1>4, <3>1
    <3>2. CASE i # 0
      <4>1. i \in 1..N
        BY <1>1, <3>2
      <4> QED
        BY <1>5, <3>2, <4>1
    <3> QED
      BY <3>1, <3>2
  <2> QED
    BY <1>4, <2>1
<1>7. Is(g)
  BY <1>6, Zenon
<1>8. BombRound(t) = g[N]
  BY DEF BombRound, N
<1> DEFINE T == {i \in 0..N : g[i] = f[i]}
<1> HIDE DEF g
<1>9. 0 \in T
  BY <1>1, <1>4, <1>7
<1>10. ASSUME NEW i \in 0..(N - 1), i \in T PROVE i + 1 \in T
  <2> DEFINE x == i + 1
  <2>1. x \in 1..N /\ x \in 0..N /\ x # 0 /\ x - 1 = i
    BY <1>1
  <2> HIDE DEF x
  <2>2. f[x] = BombList(f[i], x)
    BY <1>5, <2>1
  <2>3. g[x] = BombList(g[i], x)
    BY <1>7, <2>1
  <2>4. x \in T
    BY <1>10, <2>1, <2>2, <2>3
  <2> QED
    BY <2>4 DEF x
<1> HIDE DEF T
<1>11. 0..N \subseteq T
  BY <1>1, <1>9, <1>10, UpTo
<1>12. BombRound(t) = f[N]
  BY <1>1, <1>8, <1>11 DEF T
<1> QED
  BY <1>4, <1>5, <1>12

\* A round in which over says which lists end: up to list msb, and beyond it
\* when that one does not end.
LEMMA OneRound ==
    ASSUME GoodLists, NEW t, t.at \in [Lists -> Nat], t.msb \in Lists,
           NEW over, over[0] = FALSE, \A i \in Lists : over[i] \in BOOLEAN,
           \A i \in Lists : i <= t.msb \/ ~over[t.msb] =>
               (over[i] <=> t.at[i] + (IF over[i - 1] THEN 1 ELSE 0) >= plan.lens[i])
    PROVE  /\ BombRound(t) \in Accs
           /\ over[t.msb] =>
                /\ BombRound(t).again /\ BombRound(t).msb = t.msb + 1
                /\ BombRound(t).at = [j \in Lists |-> IF j <= t.msb THEN 0
                                                      ELSE IF j = t.msb + 1 THEN t.at[j] + 1
                                                      ELSE t.at[j]]
           /\ ~over[t.msb] =>
                /\ ~BombRound(t).again /\ BombRound(t).msb = t.msb
                /\ Len(BombRound(t).value) = N
                /\ \A j \in Lists :
                      LET value == IF over[j] THEN 0
                                   ELSE t.at[j] + (IF over[j - 1] THEN 1 ELSE 0)
                      IN  /\ BombRound(t).value[j] = value
                          /\ BombRound(t).at[j] = IF j = 1 THEN value + 1 ELSE value
<1> DEFINE m == t.msb
           V(j) == IF over[j] THEN 0 ELSE t.at[j] + (IF over[j - 1] THEN 1 ELSE 0)
           A(j) == IF j = 1 THEN V(j) + 1 ELSE V(j)
           again == [j \in Lists |-> IF j <= m THEN 0 ELSE IF j = m + 1 THEN t.at[j] + 1
                                     ELSE t.at[j]]
<1>1. N \in Nat /\ Lists = 1..N /\ m \in 1..N /\ \A i \in 1..N : plan.lens[i] \in Nat
  BY ListsOf
<1>2. PICK f \in [0..N -> Accs] :
           /\ f[0] = RoundStart(t)
           /\ \A i \in 1..N : f[i] = BombList(f[i - 1], i)
           /\ BombRound(t) = f[N]
  <2>1. t.msb \in Nat
    BY <1>1
  <2> QED
    BY <2>1, RoundOf
<1>3. \A i \in 0..N : /\ f[i] \in Accs
                      /\ f[i].at \in [Lists -> Nat] /\ f[i].msb \in Nat
                      /\ f[i].signal \in BOOLEAN /\ f[i].again \in BOOLEAN
                      /\ f[i].value \in Seq(Nat)
  BY <1>2 DEF Accs
<1> DEFINE Goes(i) == /\ ~f[i].again /\ f[i].msb = m /\ f[i].signal = over[i]
                      /\ Len(f[i].value) = i
                      /\ \A j \in 1..i : f[i].value[j] = V(j) /\ f[i].at[j] = A(j)
                      /\ \A j \in (i + 1)..N : f[i].at[j] = t.at[j]
           Begins(i) == f[i].again /\ f[i].msb = m + 1 /\ f[i].at = again
           T == {i \in 0..N : IF over[m] /\ m <= i THEN Begins(i) ELSE Goes(i)}
<1>4. 0 \in T
  <2>1. /\ ~f[0].again /\ f[0].msb = m /\ f[0].signal = FALSE /\ f[0].value = <<>>
        /\ f[0].at = t.at
    BY <1>2 DEF RoundStart
  <2>2. Len(f[0].value) = 0 /\ (\A j \in 1..0 : FALSE) /\ f[0].signal = over[0]
    <3>1. Len(<<>>) = 0 /\ \A j \in 1..0 : FALSE
      OBVIOUS
    <3>2. f[0].signal = over[0]
      BY <2>1
    <3> QED
      BY <2>1, <3>1, <3>2
  <2>3. \A j \in (0 + 1)..N : f[0].at[j] = t.at[j]
    BY <2>1
  <2> HIDE DEF V, A
  <2>4. Goes(0)
    BY <2>1, <2>2, <2>3
  <2> HIDE DEF Goes, Begins
  <2> QED
    BY <1>1, <2>4
<1>5. ASSUME NEW i \in 0..(N - 1), i \in T PROVE i + 1 \in T
  <2> DEFINE k == i + 1
  <2>1. k \in 1..N /\ k \in 0..N /\ k \in Lists /\ k - 1 = i /\ i \in 0..N /\ k = i + 1
        /\ i \in Nat /\ k \in Nat
    BY <1>1
  <2>2. f[k] = BombList(f[i], k)
    BY <1>2, <2>1
  <2> HIDE DEF k
  <2>3. ASSUME over[m] /\ m <= i PROVE k \in T
    <3>1. Begins(i)
      BY <1>5, <2>3
    <3>2. f[i].again => BombList(f[i], k) = f[i]
      BY <1>3, <2>1, BombListOf
    <3>3. f[k] = f[i]
      BY <2>2, <3>1, <3>2
    <3>4. Begins(k)
      BY <3>1, <3>3
    <3>5. m <= k
      BY <1>1, <2>1, <2>3
    <3> HIDE DEF Begins, Goes
    <3> QED
      BY <2>1, <2>3, <3>4, <3>5
  <2>4. ASSUME ~(over[m] /\ m <= i) PROVE k \in T
    <3>1. Goes(i)
      BY <1>5, <2>4
    <3>2. f[i].at[k] = t.at[k]
      <4>1. k \in (i + 1)..N
        BY <1>1, <2>1
      <4> QED
        BY <3>1, <4>1
    <3>3. k <= m \/ ~over[m]
      BY <1>1, <2>1, <2>4
    <3>4. AtEnd(f[i], k) <=> over[k]
      BY <2>1, <3>1, <3>2, <3>3 DEF AtEnd, Here
    <3>5. ValueAt(f[i], k) = V(k)
      <4>1. over[k] \in BOOLEAN /\ over[i] \in BOOLEAN
        <5>1. i = 0 \/ i \in Lists
          BY <1>1, <2>1
        <5> QED
          BY <2>1, <5>1
      <4>2. Here(f[i], k) = t.at[k] + (IF over[k - 1] THEN 1 ELSE 0)
        BY <2>1, <3>1, <3>2 DEF Here
      <4> QED
        BY <3>4, <4>1, <4>2 DEF ValueAt
    <3>6. f[i].msb = m /\ ~f[i].again
      BY <3>1
    <3>7. m \in Nat
      BY <1>1
    <3> HIDE DEF V, A, Begins, Goes, m
    <3>8. CASE over[k] /\ k = m
      <4>1. f[k].again /\ f[k].msb = m + 1 /\ f[k].at = AnewAfter(f[i].at, k)
        <5>1. AtEnd(f[i], k) /\ k = f[i].msb
          BY <3>4, <3>6, <3>8
        <5>2. /\ BombList(f[i], k).again /\ BombList(f[i], k).msb = f[i].msb + 1
              /\ BombList(f[i], k).at = AnewAfter(f[i].at, k)
          BY <1>3, <2>1, <3>6, <5>1, BombListOf
        <5> QED
          BY <2>2, <3>6, <5>2
      <4>2. AnewAfter(f[i].at, k) = again
        <5>1. ASSUME NEW j \in Lists, j > m PROVE f[i].at[j] = t.at[j]
          <6>1. j \in (i + 1)..N
            BY <1>1, <2>1, <3>8, <5>1
          <6> QED
            BY <3>1, <6>1 DEF Goes
        <5>2. ASSUME NEW j \in Lists
              PROVE  (IF j <= k THEN 0 ELSE IF j = k + 1 THEN f[i].at[j] + 1 ELSE f[i].at[j])
                     = (IF j <= m THEN 0 ELSE IF j = m + 1 THEN t.at[j] + 1 ELSE t.at[j])
          <6>1. j \in Nat
            BY <1>1
          <6>2. j <= m \/ j > m
            BY <3>7, <6>1
          <6> QED
            BY <3>7, <3>8, <5>1, <6>1, <6>2
        <5> QED
          BY <5>2 DEF AnewAfter
      <4> HIDE DEF again
      <4>3. Begins(k)
        BY <4>1, <4>2 DEF Begins
      <4>4. m <= k
        BY <3>7, <3>8
      <4> QED
        BY <2>1, <3>8, <4>3, <4>4
    <3>9. CASE ~(over[k] /\ k = m)
      <4> DEFINE a == IF k = 1 THEN ValueAt(f[i], k) + 1 ELSE ValueAt(f[i], k)
      <4>1. ~(AtEnd(f[i], k) /\ k = f[i].msb)
        BY <3>4, <3>6, <3>9
      <4>2. /\ ~BombList(f[i], k).again /\ BombList(f[i], k).msb = f[i].msb
            /\ BombList(f[i], k).signal \in BOOLEAN
            /\ BombList(f[i], k).signal <=> AtEnd(f[i], k)
            /\ BombList(f[i], k).value = Append(f[i].value, ValueAt(f[i], k))
            /\ BombList(f[i], k).at = [f[i].at EXCEPT ![k] = a]
        BY <1>3, <2>1, <3>6, <4>1, BombListOf
      <4>3. a = A(k)
        BY <3>5 DEF A
      <4> HIDE DEF a
      <4>4. ~f[k].again /\ f[k].msb = m
        BY <2>2, <3>6, <4>2
      <4>5. f[k].signal = over[k]
        <5>1. over[k] \in BOOLEAN
          BY <2>1
        <5> QED
          BY <2>2, <3>4, <4>2, <5>1
      <4>6. f[k].value = Append(f[i].value, V(k)) /\ f[k].at = [f[i].at EXCEPT ![k] = A(k)]
        BY <2>2, <3>5, <4>2, <4>3
      <4>7. /\ Len(f[i].value) = i /\ f[i].value \in Seq(Nat) /\ f[i].at \in [Lists -> Nat]
            /\ \A j \in 1..i : f[i].value[j] = V(j) /\ f[i].at[j] = A(j)
            /\ \A j \in (i + 1)..N : f[i].at[j] = t.at[j]
        BY <1>3, <2>1, <3>1 DEF Goes
      <4>8. Len(f[k].value) = k
        BY <2>1, <4>6, <4>7
      <4>9. ASSUME NEW j \in 1..k PROVE f[k].value[j] = V(j) /\ f[k].at[j] = A(j)
        <5>1. CASE j = k
          BY <2>1, <4>6, <4>7, <5>1
        <5>2. CASE j # k
          <6>1. j \in 1..i /\ j \in Lists
            BY <1>1, <2>1, <5>2
          <6>2. f[k].value[j] = f[i].value[j] /\ f[k].at[j] = f[i].at[j]
            BY <4>6, <4>7, <5>2, <6>1
          <6> QED
            BY <4>7, <6>1, <6>2
        <5> QED
          BY <5>1, <5>2
      <4>10. ASSUME NEW j \in (k + 1)..N PROVE f[k].at[j] = t.at[j]
        <5>1. j \in (i + 1)..N /\ j \in Lists /\ j # k
          BY <1>1, <2>1
        <5>2. f[k].at[j] = f[i].at[j]
          BY <4>6, <4>7, <5>1
        <5> QED
          BY <4>7, <5>1, <5>2
      <4>11. Goes(k)
        BY <4>4, <4>5, <4>8, <4>9, <4>10 DEF Goes
      <4>12. ~(over[m] /\ m <= k)
        <5>1. m <= k => m = k \/ m <= i
          BY <2>1, <3>7
        <5> QED
          BY <2>4, <3>9, <5>1 DEF m
      <4> QED
        BY <2>1, <4>11, <4>12
    <3> QED
      BY <3>8, <3>9
  <2>5. k \in T
    <3> HIDE DEF T
    <3> QED
      BY <2>3, <2>4, Zenon
  <2> QED
    BY <2>5 DEF k
<1> HIDE DEF T
<1>6. 0..N \subseteq T
  BY <1>1, <1>4, <1>5, UpTo
<1>7. N \in T /\ m <= N /\ N \in 0..N
  BY <1>1, <1>6
<1>8. IF over[m] THEN Begins(N) ELSE Goes(N)
  <2> HIDE DEF Begins, Goes
  <2> QED
    BY <1>7 DEF T
<1>9. BombRound(t) \in Accs
  BY <1>2, <1>3, <1>7
<1>10. CASE over[m]
  BY <1>2, <1>8, <1>9, <1>10
<1>11. CASE ~over[m]
  BY <1>1, <1>2, <1>8, <1>9, <1>11
<1> QED
  BY <1>10, <1>11

-----------------------------------------------------------------------------
(* The cluster bomb counts through the combinations                        *)

D(k, i) == Digit(plan.lens, k, i)
IsPlace(t) == t.at \in [Lists -> Nat] /\ t.msb \in Lists

\* An iterator that gives combination k next.
Waits(t, k) ==
    /\ IsPlace(t)
    /\ IF k = 0 THEN \A i \in Lists : t.at[i] = 0
       ELSE /\ \A i \in Lists : t.at[i] = IF i = 1 THEN D(k - 1, i) + 1 ELSE D(k - 1, i)
            /\ \A i \in Lists : i > t.msb => D(k - 1, i) = 0

\* A round for combination k that is begun again, from list msb on.
Anew(t, k) ==
    /\ IsPlace(t) /\ k # 0
    /\ \A i \in Lists : /\ t.at[i] = IF i = t.msb THEN 1 ELSE 0
                        /\ i < t.msb => D(k - 1, i) = plan.lens[i] - 1
                        /\ i >= t.msb => D(k - 1, i) = 0

\* A round that gave combination k.
Gave(r, k) ==
    /\ IsPlace(r) /\ Len(r.value) = N
    /\ \A i \in Lists : /\ r.value[i] = D(k, i)
                        /\ r.at[i] = IF i = 1 THEN D(k, i) + 1 ELSE D(k, i)
                        /\ i > r.msb => D(k, i) = 0

Tried(r, k) == r \in Accs /\ (IF r.again THEN Anew(r, k) ELSE Gave(r, k))

LEMMA BombFacts ==
    ASSUME GoodLists, NEW k \in Nat, k < Products(plan.lens)[N]
    PROVE  /\ N \in Nat /\ Lists = 1..N
           /\ \A i \in Lists : /\ plan.lens[i] \in Nat \ {0}
                               /\ D(k, i) \in 0..(plan.lens[i] - 1)
                               /\ D(0, i) = 0
<1>1. N \in Nat /\ Lists = 1..N /\ plan.lens \in Seq(Nat) /\ Products(plan.lens)[N] # 0
  BY ListsOf DEF GoodLists
<1>2. \A i \in 1..N : plan.lens[i] \in Nat \ {0}
  BY <1>1, NoneEmpty DEF N
<1>3. \A i \in 1..N : D(k, i) \in 0..(plan.lens[i] - 1) /\ D(0, i) = 0
  BY <1>1, Digits DEF D, N
<1> QED
  BY <1>1, <1>2, <1>3

\* C(i): the combination before k has all digits up to i at their end.
C(k, i) == Carries(plan.lens, k - 1, i)

LEMMA BombCounts ==
    ASSUME GoodLists, NEW k \in Nat \ {0}, k < Products(plan.lens)[N]
    PROVE  /\ \A i \in Lists :
                /\ D(k - 1, i) \in 0..(plan.lens[i] - 1)
                /\ D(k, i) = IF ~C(k, i - 1) THEN D(k - 1, i)
                             ELSE IF D(k - 1, i) = plan.lens[i] - 1 THEN 0
                             ELSE D(k - 1, i) + 1
                /\ C(k, i) <=> C(k, i - 1) /\ D(k - 1, i) = plan.lens[i] - 1
                /\ \A j \in i..N : C(k, j) => C(k, i)
           /\ C(k, 0) /\ ~C(k, N)
<1> DEFINE j == k - 1
           ns == plan.lens
<1>1. N \in Nat /\ Lists = 1..N /\ ns \in Seq(Nat) /\ Products(ns)[N] \in Nat
  <2>1. N \in 0..N
    BY ListsOf
  <2> QED
    BY <2>1, ListsOf, ProductsOf DEF GoodLists, N
<1>2. j \in Nat /\ j + 1 = k /\ Products(ns)[N] # 0 /\ j < Products(ns)[N]
  BY <1>1
<1>3. k = j + 1
  BY <1>2
<1> HIDE DEF j
<1>4. \A i \in Lists : D(j, i) \in 0..(ns[i] - 1)
  BY <1>2, BombFacts
<1>5. \A i \in 1..N : Digit(ns, j + 1, i) = IF ~Carries(ns, j, i - 1) THEN Digit(ns, j, i)
                                            ELSE IF Digit(ns, j, i) = ns[i] - 1 THEN 0
                                            ELSE Digit(ns, j, i) + 1
  BY <1>1, <1>2, NextDigit DEF N
<1>6. \A i \in 1..N : Carries(ns, j, i) <=> Carries(ns, j, i - 1) /\ Digit(ns, j, i) = ns[i] - 1
  BY <1>1, <1>2, CarriesStep DEF N
<1>7. ~Carries(ns, j, N)
  BY <1>1, <1>2, NoOverflow DEF N
<1>8. \A i \in 1..N : \A x \in i..N : Carries(ns, j, x) => Carries(ns, j, i)
  <2> SUFFICES ASSUME NEW i \in 1..N, NEW x \in i..N, Carries(ns, j, x)
               PROVE  Carries(ns, j, i)
    OBVIOUS
  <2>1. \A y \in 1..i : y \in 1..x
    BY <1>1
  <2> QED
    BY <2>1 DEF Carries
<1>9. Carries(ns, j, 0)
  BY DEF Carries
<1>10. \A i : C(k, i) <=> Carries(ns, j, i)
  BY DEF C, j
<1>11. \A i : D(k, i) = Digit(ns, j + 1, i) /\ D(j, i) = Digit(ns, j, i)
  BY <1>3 DEF D
<1> HIDE DEF ns
<1>12. \A i \in 1..N : D(k, i) = IF ~C(k, i - 1) THEN D(j, i)
                                 ELSE IF D(j, i) = ns[i] - 1 THEN 0 ELSE D(j, i) + 1
  BY <1>5, <1>10, <1>11
<1>13. \A i \in 1..N : C(k, i) <=> C(k, i - 1) /\ D(j, i) = ns[i] - 1
  BY <1>6, <1>10, <1>11
<1> QED
  BY <1>1, <1>4, <1>7, <1>8, <1>9, <1>10, <1>12, <1>13 DEF ns, j

LEMMA FirstTry ==
    ASSUME GoodLists, 0 < Products(plan.lens)[N], NEW t, Waits(t, 0)
    PROVE  Tried(BombRound(t), 0) /\ ~BombRound(t).again
<1> DEFINE over == [i \in 0..N |-> FALSE]
           r == BombRound(t)
<1>1. /\ N \in Nat /\ Lists = 1..N
      /\ \A i \in Lists : plan.lens[i] \in Nat \ {0} /\ D(0, i) = 0
  BY BombFacts
<1>2. t.at \in [Lists -> Nat] /\ t.msb \in Lists /\ \A i \in Lists : t.at[i] = 0
  BY DEF Waits, IsPlace
<1>3. \A i \in 0..N : over[i] = FALSE
  OBVIOUS
<1> HIDE DEF over
<1>4. /\ over[0] = FALSE /\ ~over[t.msb]
      /\ \A i \in Lists : over[i] \in BOOLEAN /\ ~over[i] /\ ~over[i - 1]
  <2>1. 0 \in 0..N /\ t.msb \in 0..N
    BY <1>1, <1>2
  <2>2. over[0] = FALSE /\ ~over[t.msb]
    BY <1>3, <2>1
  <2>3. ASSUME NEW i \in Lists PROVE over[i] \in BOOLEAN /\ ~over[i] /\ ~over[i - 1]
    <3>1. i \in 0..N /\ i - 1 \in 0..N
      BY <1>1
    <3>2. over[i] = FALSE /\ over[i - 1] = FALSE
      BY <1>3, <3>1
    <3> QED
      BY <3>2
  <2> QED
    BY <2>2, <2>3
<1>5. ASSUME NEW i \in Lists
      PROVE  over[i] <=> t.at[i] + (IF over[i - 1] THEN 1 ELSE 0) >= plan.lens[i]
  <2>1. plan.lens[i] \in Nat \ {0} /\ t.at[i] = 0 /\ ~over[i] /\ ~over[i - 1]
    BY <1>1, <1>2, <1>4
  <2>2. ~(t.at[i] + 0 >= plan.lens[i])
    BY <2>1
  <2> QED
    BY <2>1, <2>2
<1>6. /\ r \in Accs /\ ~r.again /\ r.msb = t.msb /\ Len(r.value) = N
      /\ \A j \in Lists :
            LET value == IF over[j] THEN 0 ELSE t.at[j] + (IF over[j - 1] THEN 1 ELSE 0)
            IN  r.value[j] = value /\ r.at[j] = IF j = 1 THEN value + 1 ELSE value
  BY <1>2, <1>4, <1>5, OneRound
<1> HIDE DEF r
<1>7. ASSUME NEW j \in Lists PROVE r.value[j] = 0 /\ r.at[j] = IF j = 1 THEN 0 + 1 ELSE 0
  <2>1. t.at[j] = 0 /\ ~over[j] /\ ~over[j - 1]
    BY <1>2, <1>4
  <2>2. (IF over[j] THEN 0 ELSE t.at[j] + (IF over[j - 1] THEN 1 ELSE 0)) = 0
    BY <2>1
  <2> QED
    BY <1>6, <2>2
<1>8. IsPlace(r)
  BY <1>2, <1>6 DEF IsPlace, Accs
<1>9. Gave(r, 0)
  BY <1>1, <1>6, <1>7, <1>8 DEF Gave
<1> QED
  BY <1>6, <1>9 DEF Tried, r

LEMMA NextTry ==
    ASSUME GoodLists, NEW k \in Nat \ {0}, k < Products(plan.lens)[N], NEW t, Waits(t, k)
    PROVE  Tried(BombRound(t), k) /\ BombRound(t).msb > 0
<1> DEFINE over == [i \in 0..N |-> i # 0 /\ C(k, i)]
           r == BombRound(t)
           m == t.msb
<1>1. /\ N \in Nat /\ Lists = 1..N
      /\ \A i \in Lists : plan.lens[i] \in Nat \ {0}
  BY BombFacts
<1>2. /\ \A i \in Lists :
            /\ D(k - 1, i) \in 0..(plan.lens[i] - 1)
            /\ D(k, i) = IF ~C(k, i - 1) THEN D(k - 1, i)
                         ELSE IF D(k - 1, i) = plan.lens[i] - 1 THEN 0 ELSE D(k - 1, i) + 1
            /\ C(k, i) <=> C(k, i - 1) /\ D(k - 1, i) = plan.lens[i] - 1
            /\ \A j \in i..N : C(k, j) => C(k, i)
      /\ C(k, 0) /\ ~C(k, N)
  BY BombCounts
<1>3. /\ t.at \in [Lists -> Nat] /\ m \in Lists
      /\ \A i \in Lists : t.at[i] = IF i = 1 THEN D(k - 1, i) + 1 ELSE D(k - 1, i)
      /\ \A i \in Lists : i > m => D(k - 1, i) = 0
  BY DEF Waits, IsPlace
<1>4. \A i \in 0..N : over[i] = (i # 0 /\ C(k, i))
  OBVIOUS
<1>5. over[0] = FALSE /\ \A i \in Lists : over[i] \in BOOLEAN
  <2>1. 0 \in 0..N /\ \A i \in Lists : i \in 0..N
    BY <1>1
  <2> HIDE DEF over
  <2>2. over[0] = FALSE
    BY <1>4, <2>1
  <2>3. \A i \in Lists : over[i] \in BOOLEAN
    BY <1>4, <2>1
  <2> QED
    BY <2>2, <2>3
<1> HIDE DEF over, m
<1>6. ASSUME NEW i \in Lists
      PROVE  /\ over[i] <=> C(k, i)
             /\ over[i - 1] <=> i # 1 /\ C(k, i - 1)
             /\ i = 1 => C(k, i - 1)
  <2>1. i \in 0..N /\ i - 1 \in 0..N /\ i # 0 /\ (i - 1 = 0 <=> i = 1)
    BY <1>1
  <2>2. i = 1 => C(k, i - 1)
    <3>1. i = 1 => i - 1 = 0
      OBVIOUS
    <3> QED
      BY <1>2, <3>1
  <2> QED
    BY <1>4, <2>1, <2>2
<1>7. ASSUME NEW i \in Lists
      PROVE  over[i] <=> t.at[i] + (IF over[i - 1] THEN 1 ELSE 0) >= plan.lens[i]
  <2>1. D(k - 1, i) \in 0..(plan.lens[i] - 1) /\ plan.lens[i] \in Nat \ {0}
    BY <1>1, <1>2
  <2>2. t.at[i] = IF i = 1 THEN D(k - 1, i) + 1 ELSE D(k - 1, i)
    BY <1>3
  <2>3. C(k, i) <=> C(k, i - 1) /\ D(k - 1, i) = plan.lens[i] - 1
    BY <1>2
  <2> QED
    BY <1>6, <2>1, <2>2, <2>3
<1>8. r \in Accs
  BY <1>3, <1>5, <1>7, OneRound DEF m
<1>9. CASE over[m]
  <2>1. /\ r.again /\ r.msb = m + 1
        /\ r.at = [j \in Lists |-> IF j <= m THEN 0
                                   ELSE IF j = m + 1 THEN t.at[j] + 1 ELSE t.at[j]]
    BY <1>3, <1>5, <1>7, <1>9, OneRound DEF m
  <2> HIDE DEF r
  <2>2. C(k, m) /\ m # N
    BY <1>2, <1>3, <1>6, <1>9
  <2>3. m \in Nat /\ r.msb \in Lists
    BY <1>1, <1>3, <2>1, <2>2
  <2>4. IsPlace(r)
    BY <1>8, <2>3 DEF IsPlace, Accs
  <2>5. ASSUME NEW i \in Lists
        PROVE  /\ r.at[i] = IF i = r.msb THEN 1 ELSE 0
               /\ i < r.msb => D(k - 1, i) = plan.lens[i] - 1
               /\ i >= r.msb => D(k - 1, i) = 0
    <3>1. CASE i <= m
      <4>1. m \in i..N /\ i < r.msb /\ i # r.msb /\ ~(i >= r.msb)
        BY <1>1, <1>3, <2>1, <2>3, <3>1
      <4>2. C(k, i)
        BY <1>2, <2>2, <4>1
      <4>3. D(k - 1, i) = plan.lens[i] - 1
        BY <1>2, <4>2
      <4>4. r.at[i] = 0
        BY <2>1, <3>1
      <4> QED
        BY <4>1, <4>3, <4>4
    <3>2. CASE ~(i <= m)
      <4>1. i > m /\ i # 1 /\ ~(i < r.msb)
        BY <1>1, <1>3, <2>1, <2>3, <3>2
      <4>2. t.at[i] = D(k - 1, i) /\ D(k - 1, i) = 0
        BY <1>3, <4>1
      <4>3. r.at[i] = IF i = m + 1 THEN t.at[i] + 1 ELSE t.at[i]
        BY <2>1, <3>2
      <4> QED
        BY <2>1, <4>1, <4>2, <4>3
    <3> QED
      BY <3>1, <3>2
  <2>6. Anew(r, k)
    BY <2>4, <2>5 DEF Anew
  <2> QED
    BY <1>8, <2>1, <2>3, <2>6 DEF Tried, r
<1>10. CASE ~over[m]
  <2>1. /\ ~r.again /\ r.msb = m /\ Len(r.value) = N
        /\ \A j \in Lists :
              LET value == IF over[j] THEN 0 ELSE t.at[j] + (IF over[j - 1] THEN 1 ELSE 0)
              IN  r.value[j] = value /\ r.at[j] = IF j = 1 THEN value + 1 ELSE value
    BY <1>3, <1>5, <1>7, <1>10, OneRound DEF m
  <2> HIDE DEF r
  <2>2. IsPlace(r)
    BY <1>3, <1>8, <2>1 DEF IsPlace, Accs
  <2>3. ASSUME NEW i \in Lists
        PROVE  (IF over[i] THEN 0 ELSE t.at[i] + (IF over[i - 1] THEN 1 ELSE 0)) = D(k, i)
    <3>1. D(k - 1, i) \in Nat
      <4>1. D(k - 1, i) \in 0..(plan.lens[i] - 1)
        BY <1>2, Zenon
      <4> QED
        BY <4>1
    <3>2. t.at[i] = IF i = 1 THEN D(k - 1, i) + 1 ELSE D(k - 1, i)
      BY <1>3
    <3>3. /\ D(k, i) = IF ~C(k, i - 1) THEN D(k - 1, i)
                       ELSE IF D(k - 1, i) = plan.lens[i] - 1 THEN 0 ELSE D(k - 1, i) + 1
          /\ C(k, i) <=> C(k, i - 1) /\ D(k - 1, i) = plan.lens[i] - 1
      BY <1>2
    <3> QED
      BY <1>6, <3>1, <3>2, <3>3
  <2>4. ASSUME NEW i \in Lists, i > m PROVE D(k, i) = 0
    <3>1. ~C(k, m)
      BY <1>3, <1>6, <1>10
    <3>2. i - 1 \in m..N
      BY <1>1, <1>3, <2>4
    <3>3. ~C(k, i - 1)
      BY <1>2, <1>3, <3>1, <3>2
    <3>4. D(k, i) = D(k - 1, i)
      BY <1>2, <3>3
    <3> QED
      BY <1>3, <2>4, <3>4
  <2>5. \A i \in Lists : r.value[i] = D(k, i)
                         /\ r.at[i] = IF i = 1 THEN D(k, i) + 1 ELSE D(k, i)
    BY <2>1, <2>3
  <2>6. Gave(r, k)
    BY <2>1, <2>2, <2>4, <2>5 DEF Gave
  <2>7. m > 0
    BY <1>1, <1>3
  <2> QED
    BY <1>8, <2>1, <2>6, <2>7 DEF Tried, r
<1> QED
  BY <1>9, <1>10

LEMMA TryAnew ==
    ASSUME GoodLists, NEW k \in Nat \ {0}, k < Products(plan.lens)[N], NEW t, Anew(t, k)
    PROVE  Tried(BombRound(t), k) /\ (BombRound(t).again => BombRound(t).msb = t.msb + 1)
<1> DEFINE over == [i \in 0..N |-> i = t.msb /\ plan.lens[i] = 1]
           r == BombRound(t)
           m == t.msb
<1>1. /\ N \in Nat /\ Lists = 1..N
      /\ \A i \in Lists : plan.lens[i] \in Nat \ {0}
  BY BombFacts
<1>2. /\ \A i \in Lists :
            /\ D(k - 1, i) \in 0..(plan.lens[i] - 1)
            /\ D(k, i) = IF ~C(k, i - 1) THEN D(k - 1, i)
                         ELSE IF D(k - 1, i) = plan.lens[i] - 1 THEN 0 ELSE D(k - 1, i) + 1
            /\ C(k, i) <=> C(k, i - 1) /\ D(k - 1, i) = plan.lens[i] - 1
            /\ \A j \in i..N : C(k, j) => C(k, i)
      /\ C(k, 0) /\ ~C(k, N)
  BY BombCounts
<1>3. /\ t.at \in [Lists -> Nat] /\ m \in Lists
      /\ \A i \in Lists : /\ t.at[i] = IF i = m THEN 1 ELSE 0
                          /\ i < m => D(k - 1, i) = plan.lens[i] - 1
                          /\ i >= m => D(k - 1, i) = 0
  BY DEF Anew, IsPlace
<1>4. \A i \in 0..N : over[i] = (i = m /\ plan.lens[i] = 1)
  OBVIOUS
<1> HIDE DEF over, m
<1>5. over[0] = FALSE /\ \A i \in Lists : over[i] \in BOOLEAN
  <2>1. 0 \in 0..N /\ 0 # m /\ \A i \in Lists : i \in 0..N
    BY <1>1, <1>3
  <2>2. over[0] = FALSE
    BY <1>4, <2>1
  <2>3. \A i \in Lists : over[i] \in BOOLEAN
    BY <1>4, <2>1
  <2> QED
    BY <2>2, <2>3
<1>6. ASSUME NEW i \in Lists
      PROVE  /\ over[i] <=> i = m /\ plan.lens[m] = 1
             /\ over[i - 1] <=> i = m + 1 /\ plan.lens[m] = 1
  <2>1. i \in 0..N /\ i - 1 \in 0..N /\ (i - 1 = m <=> i = m + 1)
    BY <1>1, <1>3
  <2> QED
    BY <1>4, <2>1
<1>7. ASSUME NEW i \in Lists, i <= m \/ ~over[m]
      PROVE  over[i] <=> t.at[i] + (IF over[i - 1] THEN 1 ELSE 0) >= plan.lens[i]
  <2>1. ~over[i - 1]
    <3>1. i = m + 1 => ~(i <= m)
      BY <1>1, <1>3
    <3> QED
      BY <1>3, <1>6, <1>7, <3>1
  <2>2. t.at[i] = (IF i = m THEN 1 ELSE 0) /\ plan.lens[i] \in Nat \ {0}
    BY <1>1, <1>3
  <2>3. t.at[i] + 0 >= plan.lens[i] <=> i = m /\ plan.lens[m] = 1
    BY <2>2
  <2> QED
    BY <1>6, <2>1, <2>3
\* The digits below m are at their end, digit m begins.
<1>8. ASSUME NEW i \in Lists, i <= m PROVE C(k, i - 1)
  <2> DEFINE T == {x \in 0..N : x < m => C(k, x)}
  <2>1. 0 \in T
    BY <1>1, <1>2
  <2>2. ASSUME NEW x \in 0..(N - 1), x \in T PROVE x + 1 \in T
    <3> DEFINE y == x + 1
    <3>1. y \in Lists /\ y \in 0..N /\ y - 1 = x /\ (y < m => x < m)
      BY <1>1, <1>3
    <3> HIDE DEF y
    <3>2. y < m => C(k, y)
      <4>1. y < m => C(k, x) /\ D(k - 1, y) = plan.lens[y] - 1
        BY <1>3, <2>2, <3>1
      <4> QED
        BY <1>2, <3>1, <4>1
    <3>3. y \in T
      BY <3>1, <3>2
    <3> QED
      BY <3>3 DEF y
  <2> HIDE DEF T
  <2>3. 0..N \subseteq T
    BY <1>1, <2>1, <2>2, UpTo
  <2>4. i - 1 \in 0..N /\ i - 1 < m
    BY <1>1, <1>3, <1>8
  <2> QED
    BY <2>3, <2>4 DEF T
<1>9. C(k, m) <=> plan.lens[m] = 1
  <2>1. C(k, m - 1) /\ D(k - 1, m) = 0
    BY <1>1, <1>3, <1>8
  <2>2. plan.lens[m] \in Nat \ {0} /\ (0 = plan.lens[m] - 1 <=> plan.lens[m] = 1)
    BY <1>1, <1>3
  <2> QED
    BY <1>2, <1>3, <2>1, <2>2
<1>10. r \in Accs
  BY <1>3, <1>5, <1>7, OneRound DEF m
<1>11. CASE over[m]
  <2>1. /\ r.again /\ r.msb = m + 1
        /\ r.at = [j \in Lists |-> IF j <= m THEN 0
                                   ELSE IF j = m + 1 THEN t.at[j] + 1 ELSE t.at[j]]
    BY <1>3, <1>5, <1>7, <1>11, OneRound DEF m
  <2> HIDE DEF r
  <2>2. C(k, m) /\ plan.lens[m] = 1 /\ m # N
    BY <1>2, <1>3, <1>6, <1>9, <1>11
  <2>3. m \in Nat /\ r.msb \in Lists
    BY <1>1, <1>3, <2>1, <2>2
  <2>4. IsPlace(r)
    BY <1>10, <2>3 DEF IsPlace, Accs
  <2>5. ASSUME NEW i \in Lists
        PROVE  /\ r.at[i] = IF i = r.msb THEN 1 ELSE 0
               /\ i < r.msb => D(k - 1, i) = plan.lens[i] - 1
               /\ i >= r.msb => D(k - 1, i) = 0
    <3>1. i \in Nat /\ (i <= m \/ i > m)
      BY <1>1, <2>3
    <3>2. CASE i <= m
      <4>1. D(k - 1, i) = plan.lens[i] - 1
        <5>1. m \in i..N
          BY <1>1, <1>3, <3>2
        <5> QED
          BY <1>2, <2>2, <5>1
      <4>2. r.at[i] = 0 /\ i # r.msb /\ ~(i >= r.msb)
        BY <2>1, <2>3, <3>1, <3>2
      <4> QED
        BY <4>1, <4>2
    <3>3. CASE i > m
      <4>1. t.at[i] = 0 /\ D(k - 1, i) = 0
        BY <1>3, <2>3, <3>1, <3>3
      <4>2. ~(i <= m) /\ ~(i < r.msb)
        BY <2>1, <2>3, <3>1, <3>3
      <4>3. r.at[i] = IF i = m + 1 THEN t.at[i] + 1 ELSE t.at[i]
        BY <2>1, <4>2
      <4> QED
        BY <2>1, <4>1, <4>2, <4>3
    <3> QED
      BY <3>1, <3>2, <3>3
  <2>6. Anew(r, k)
    BY <2>4, <2>5 DEF Anew
  <2> QED
    BY <1>10, <2>1, <2>6 DEF Tried, r, m
<1>12. CASE ~over[m]
  <2>1. /\ ~r.again /\ r.msb = m /\ Len(r.value) = N
        /\ \A j \in Lists :
              LET value == IF over[j] THEN 0 ELSE t.at[j] + (IF over[j - 1] THEN 1 ELSE 0)
              IN  r.value[j] = value /\ r.at[j] = IF j = 1 THEN value + 1 ELSE value
    BY <1>3, <1>5, <1>7, <1>12, OneRound DEF m
  <2> HIDE DEF r
  <2>2. IsPlace(r)
    BY <1>3, <1>10, <2>1 DEF IsPlace, Accs
  <2>3. plan.lens[m] # 1 /\ ~C(k, m)
    BY <1>3, <1>6, <1>9, <1>12
  <2>4. ASSUME NEW i \in Lists
        PROVE  (IF over[i] THEN 0 ELSE t.at[i] + (IF over[i - 1] THEN 1 ELSE 0))
                   = IF i = m THEN 1 ELSE 0
    <3>1. ~over[i] /\ ~over[i - 1] /\ t.at[i] = IF i = m THEN 1 ELSE 0
      BY <1>3, <1>6, <2>3
    <3> QED
      BY <3>1
  <2>5. ASSUME NEW i \in Lists PROVE D(k, i) = IF i = m THEN 1 ELSE 0
    <3>1. i \in Nat /\ m \in Nat /\ (i < m \/ i = m \/ i > m)
      BY <1>1, <1>3
    <3>2. D(k, i) = IF ~C(k, i - 1) THEN D(k - 1, i)
                    ELSE IF D(k - 1, i) = plan.lens[i] - 1 THEN 0 ELSE D(k - 1, i) + 1
      BY <1>2
    <3>3. CASE i < m
      BY <1>3, <1>8, <3>1, <3>2, <3>3
    <3>4. CASE i = m
      <4>1. C(k, i - 1) /\ D(k - 1, i) = 0
        BY <1>3, <1>8, <3>1, <3>4
      <4>2. plan.lens[i] \in Nat /\ 0 # plan.lens[i] - 1
        BY <1>1, <2>3, <3>4
      <4> QED
        BY <3>2, <3>4, <4>1, <4>2
    <3>5. CASE i > m
      <4>1. i - 1 \in m..N
        BY <1>1, <3>1, <3>5
      <4>2. ~C(k, i - 1)
        BY <1>2, <1>3, <2>3, <4>1
      <4>3. D(k - 1, i) = 0
        BY <1>3, <3>1, <3>5
      <4> QED
        BY <3>1, <3>2, <3>5, <4>2, <4>3
    <3> QED
      BY <3>1, <3>3, <3>4, <3>5
  <2>6. \A i \in Lists : r.value[i] = D(k, i)
                         /\ r.at[i] = IF i = 1 THEN D(k, i) + 1 ELSE D(k, i)
    BY <2>1, <2>4, <2>5
  <2>7. \A i \in Lists : i > r.msb => D(k, i) = 0
    <3>1. \A i \in Lists : i > m => i # m
      BY <1>1, <1>3
    <3> QED
      BY <2>1, <2>5, <3>1
  <2>8. Gave(r, k)
    BY <2>1, <2>2, <2>6, <2>7 DEF Gave
  <2> QED
    BY <1>10, <2>1, <2>8 DEF Tried, r
<1> QED
  BY <1>11, <1>12

LEMMA GaveWaits ==
    ASSUME NEW r, NEW k \in Nat, Gave(r, k), NEW t, t.at = r.at, t.msb = r.msb
    PROVE  Waits(t, k + 1)
<1> DEFINE x == k + 1
<1>1. x # 0 /\ x - 1 = k
  OBVIOUS
<1> HIDE DEF x
<1>2. Waits(t, x)
  BY <1>1 DEF Gave, Waits, IsPlace
<1> QED
  BY <1>2 DEF x

LEMMA RoundTypes ==
    ASSUME GoodLists
    PROVE  \A acc \in Accs : BombRound(acc) \in Accs
<1> SUFFICES ASSUME NEW acc \in Accs PROVE BombRound(acc) \in Accs
  OBVIOUS
<1>1. acc.at \in [Lists -> Nat] /\ acc.msb \in Nat
  BY DEF Accs
<1>2. PICK f \in [0..N -> Accs] : BombRound(acc) = f[N]
  BY <1>1, RoundOf
<1>3. N \in 0..N
  BY ListsOf
<1> QED
  BY <1>2, <1>3

\* BombValue takes the last of as many rounds as there are lists.
TryOf(acc) == IF acc.again THEN BombRound(acc) ELSE acc
Gives(t, r) == Returned([position |-> t.position + 1, msb |-> r.msb, at |-> r.at], r.value)

LEMMA TriesOf ==
    ASSUME GoodLists, NEW t, BombRound(t) \in Accs, ~(t.position >= IteratorTotal)
    PROVE  \E f \in [0..N -> Accs] :
              /\ f[0] = BombRound(t)
              /\ \A n \in 1..N : f[n] = TryOf(f[n - 1])
              /\ BombValue(t) = Gives(t, f[N])
<1> DEFINE b == BombRound(t)
           F == [n \in 1..N |-> [acc \in Accs |-> TryOf(acc)]]
           Is(f) == f = [n \in 0..N |->
                            IF n = 0 THEN BombRound(t)
                            ELSE IF f[n - 1].again THEN BombRound(f[n - 1]) ELSE f[n - 1]]
           g == CHOOSE f : Is(f)
<1>1. N \in Nat
  BY ListsOf
<1>2. \A acc \in Accs : TryOf(acc) \in Accs
  BY RoundTypes DEF TryOf
<1>3. F \in [1..N -> [Accs -> Accs]] /\ \A n \in 1..N, acc \in Accs : F[n][acc] = TryOf(acc)
  BY <1>2
<1> HIDE DEF F, b
<1>4. PICK f \in [0..N -> Accs] : f[0] = b /\ \A n \in 1..N : f[n] = F[n][f[n - 1]]
  <2>1. b \in Accs
    BY DEF b
  <2>2. Recurses(N, Accs, b, F)
    BY <1>1, <1>3, <2>1, Recursion, Zenon
  <2> QED
    BY <2>2, Zenon DEF Recurses
<1>5. ASSUME NEW n \in 1..N PROVE n - 1 \in 0..N /\ f[n] = TryOf(f[n - 1])
  <2>1. n - 1 \in 0..N
    BY <1>1
  <2>2. f[n - 1] \in Accs /\ f[n] = F[n][f[n - 1]]
    BY <1>4, <2>1
  <2> QED
    BY <1>3, <2>1, <2>2
<1>6. Is(f)
  <2>1. ASSUME NEW n \in 0..N
        PROVE  f[n] = IF n = 0 THEN BombRound(t)
                      ELSE IF f[n - 1].again THEN BombRound(f[n - 1]) ELSE f[n - 1]
    <3>1. CASE n = 0
      BY <1>4, <3>1 DEF b
    <3>2. CASE n # 0
      <4>1. n \in 1..N
        BY <1>1, <3>2
      <4> QED
        BY <1>5, <3>2, <4>1 DEF TryOf
    <3> QED
      BY <3>1, <3>2
  <2> QED
    BY <1>4, <2>1
<1>7. Is(g)
  BY <1>6, Zenon
<1>8. BombValue(t) = Gives(t, g[N])
  BY DEF BombValue, N, Gives
<1> DEFINE T == {n \in 0..N : g[n] = f[n]}
<1> HIDE DEF g
<1>9. 0 \in T
  BY <1>1, <1>4, <1>7 DEF b
<1>10. ASSUME NEW n \in 0..(N - 1), n \in T PROVE n + 1 \in T
  <2> DEFINE x == n + 1
  <2>1. x \in 1..N /\ x \in 0..N /\ x # 0 /\ x - 1 = n
    BY <1>1
  <2> HIDE DEF x
  <2>2. f[x] = TryOf(f[n])
    BY <1>5, <2>1
  <2>3. g[x] = TryOf(g[n])
    BY <1>7, <2>1 DEF TryOf
  <2>4. x \in T
    BY <1>10, <2>1, <2>2, <2>3
  <2> QED
    BY <2>4 DEF x
<1> HIDE DEF T
<1>11. 0..N \subseteq T
  BY <1>1, <1>9, <1>10, UpTo
<1>12. BombValue(t) = Gives(t, f[N])
  BY <1>1, <1>8, <1>11 DEF T
<1> QED
  BY <1>4, <1>5, <1>12 DEF b

\* Every round that is begun again moves the place it begins from, and behind
\* the last list there is none: one of them gives the combination.
LEMMA BombGives ==
    ASSUME GoodLists, NEW k \in Nat, k < Products(plan.lens)[N], NEW t, Waits(t, k),
           ~(t.position >= IteratorTotal)
    PROVE  \E r \in Accs : Gave(r, k) /\ BombValue(t) = Gives(t, r)
<1>1. N \in Nat /\ Lists = 1..N
  BY ListsOf
<1>2. /\ Tried(BombRound(t), k) /\ BombRound(t) \in Accs
      /\ BombRound(t).again => k # 0 /\ BombRound(t).msb > 0
  <2>1. CASE k = 0
    BY <2>1, FirstTry DEF Tried
  <2>2. CASE k # 0
    BY <2>2, NextTry DEF Tried
  <2> QED
    BY <2>1, <2>2
<1>3. PICK f \in [0..N -> Accs] :
           /\ f[0] = BombRound(t)
           /\ \A n \in 1..N : f[n] = TryOf(f[n - 1])
           /\ BombValue(t) = Gives(t, f[N])
  BY <1>2, TriesOf
<1> DEFINE T == {n \in 0..N : Tried(f[n], k) /\ (f[n].again => k # 0 /\ f[n].msb > n)}
<1>4. 0 \in T
  BY <1>1, <1>2, <1>3
<1>5. ASSUME NEW n \in 0..(N - 1), n \in T PROVE n + 1 \in T
  <2> DEFINE x == n + 1
             acc == f[n]
  <2>1. x \in 1..N /\ x \in 0..N /\ x - 1 = n
    BY <1>1
  <2>2. n \in 0..N /\ n \in Nat /\ x = n + 1
    BY <1>1
  <2> HIDE DEF x
  <2>3. acc \in Accs /\ Tried(acc, k) /\ (acc.again => k # 0 /\ acc.msb > n)
    BY <1>5, <2>2
  <2>4. f[x] = TryOf(acc)
    BY <1>3, <2>1
  <2> HIDE DEF acc
  <2>5. Tried(f[x], k) /\ (f[x].again => k # 0 /\ f[x].msb > x)
    <3>1. CASE acc.again
      <4>1. Anew(acc, k) /\ k # 0 /\ acc.msb > n /\ acc.msb \in Nat
        BY <2>3, <3>1 DEF Tried, Accs
      <4>2. f[x] = BombRound(acc)
        BY <2>4, <3>1 DEF TryOf
      <4>3. Tried(f[x], k) /\ (f[x].again => f[x].msb = acc.msb + 1)
        BY <4>1, <4>2, TryAnew
      <4> QED
        BY <2>2, <4>1, <4>3
    <3>2. CASE ~acc.again
      <4>1. f[x] = acc
        BY <2>4, <3>2 DEF TryOf
      <4> QED
        BY <2>3, <3>2, <4>1
    <3> QED
      BY <3>1, <3>2
  <2>6. x \in T
    BY <2>1, <2>5
  <2> QED
    BY <2>6 DEF x
<1> HIDE DEF T
<1>6. 0..N \subseteq T
  BY <1>1, <1>4, <1>5, UpTo
<1>7. Tried(f[N], k) /\ (f[N].again => f[N].msb > N)
  BY <1>1, <1>6 DEF T
<1>8. ~f[N].again
  <2>1. ASSUME f[N].again PROVE FALSE
    <3>1. f[N].msb \in Lists
      BY <1>7, <2>1 DEF Tried, Anew, IsPlace
    <3> QED
      BY <1>1, <1>7, <2>1, <3>1
  <2> QED
    BY <2>1
<1>9. Gave(f[N], k) /\ f[N] \in Accs
  BY <1>7, <1>8 DEF Tried
<1> QED
  BY <1>3, <1>9

-----------------------------------------------------------------------------
(* The iterators: where they are, and what they give next                  *)

Iterators == [position : Nat, msb : Nat, at : [Lists -> Nat]]

LEMMA IteratorsOf ==
    \A p, b \in Nat : \A a \in [Lists -> Nat] :
        [position |-> p, msb |-> b, at |-> a] \in Iterators
BY DEF Iterators

\* Where the battering ram is: behind the lists before msb, and not yet in
\* those after it.
RamInv(t) ==
    /\ t.msb \in 1..(N + 1)
    /\ \A i \in Lists : /\ i < t.msb => t.at[i] = plan.lens[i]
                        /\ i = t.msb => t.at[i] <= plan.lens[i]
                        /\ i > t.msb => t.at[i] = 0
    /\ t.position = IF t.msb \in Lists THEN Sums(plan.lens)[t.msb - 1] + t.at[t.msb]
                    ELSE Sums(plan.lens)[N]

\* The lists of the pitchfork are at the same place until one of them ends.
ForkInv(t) ==
    IF t.position = IteratorTotal THEN \E i \in Lists : t.at[i] >= plan.lens[i]
    ELSE \A i \in Lists : t.at[i] = t.position

IteratorInv(t) ==
    /\ t \in Iterators /\ t.position <= IteratorTotal
    /\ plan.attack = "batteringram" => RamInv(t)
    /\ plan.attack = "pitchfork" => ForkInv(t)
    /\ plan.attack = "clusterbomb" /\ t.position # IteratorTotal => Waits(t, t.position)

LEMMA PlanFacts ==
    ASSUME plan \in Plans
    PROVE  /\ GoodLists /\ plan.once \in Seq(BOOLEAN) /\ NumRequests \in Nat \ {0}
           /\ HasPayloads => /\ plan.attack \in {"batteringram", "pitchfork", "clusterbomb"}
                             /\ N # 0 /\ Lists # {}
           /\ ~HasPayloads => plan.attack = "none"
<1>1. /\ plan.attack \in {"none", "batteringram", "pitchfork", "clusterbomb"}
      /\ plan.lens \in Seq(Nat)
      /\ plan.attack = "none" <=> plan.lens = <<>>
      /\ plan.once \in Seq(BOOLEAN) /\ plan.once # <<>>
  BY PlanAssumption
<1>2. GoodLists
  BY <1>1 DEF GoodLists
<1>3. NumRequests \in Nat \ {0}
  BY <1>1 DEF NumRequests
<1>4. HasPayloads => N # 0 /\ Lists # {}
  <2>1. plan.lens # <<>> => Len(plan.lens) \in Nat /\ Len(plan.lens) # 0
    BY <1>1
  <2>2. N # 0 => Lists # {}
    BY <1>2, ListsOf
  <2> QED
    BY <1>1, <2>1, <2>2 DEF HasPayloads, N
<1> QED
  BY <1>1, <1>2, <1>3, <1>4 DEF HasPayloads

LEMMA TotalOf ==
    ASSUME plan \in Plans, HasPayloads
    PROVE  /\ IteratorTotal \in Nat
           /\ plan.attack = "batteringram" => IteratorTotal = Sums(plan.lens)[N]
           /\ plan.attack = "pitchfork" => /\ \E i \in Lists : IteratorTotal = plan.lens[i]
                                           /\ \A i \in Lists : IteratorTotal <= plan.lens[i]
           /\ plan.attack = "clusterbomb" => IteratorTotal = Products(plan.lens)[N]
<1>1. /\ plan.attack \in {"batteringram", "pitchfork", "clusterbomb"} /\ Lists # {}
      /\ plan.lens \in Seq(Nat) /\ N \in Nat /\ N \in 0..N
      /\ \A i \in Lists : plan.lens[i] \in Nat
  BY PlanFacts, ListsOf DEF GoodLists
<1>2. CASE plan.attack = "batteringram"
  <2>1. IteratorTotal = Sums(plan.lens)[N]
    BY <1>2 DEF IteratorTotal, N
  <2>2. Sums(plan.lens)[N] \in Nat
    BY <1>1, SumsOf DEF N
  <2> QED
    BY <1>2, <2>1, <2>2
<1>3. CASE plan.attack = "pitchfork"
  <2> DEFINE T == {plan.lens[i] : i \in Lists}
  <2>1. IteratorTotal = Min(T)
    BY <1>3 DEF IteratorTotal
  <2>2. T \subseteq Nat /\ T # {}
    BY <1>1
  <2> HIDE DEF T
  <2>3. Min(T) \in T /\ Min(T) \in Nat /\ \A n \in T : Min(T) <= n
    BY <2>2, MinOf
  <2>4. (\A i \in Lists : plan.lens[i] \in T) /\ \A n \in T : \E i \in Lists : n = plan.lens[i]
    BY DEF T
  <2>5. \E i \in Lists : IteratorTotal = plan.lens[i]
    BY <2>1, <2>3, <2>4
  <2>6. \A i \in Lists : IteratorTotal <= plan.lens[i]
    BY <2>1, <2>3, <2>4
  <2> QED
    BY <1>3, <2>1, <2>3, <2>5, <2>6
<1>4. CASE plan.attack = "clusterbomb"
  <2>1. IteratorTotal = Products(plan.lens)[N]
    BY <1>4 DEF IteratorTotal, N
  <2>2. Products(plan.lens)[N] \in Nat
    BY <1>1, ProductsOf DEF N
  <2> QED
    BY <1>4, <2>1, <2>2
<1> QED
  BY <1>1, <1>2, <1>3, <1>4

\* What the next value of an iterator is: the combination its position names,
\* and none behind the last one.  Only the battering ram looks for a list that
\* is not there.
GivesNext(t) ==
    LET v == IteratorValue(t)
    IN  /\ IteratorInv(v.state) /\ v.panic \in BOOLEAN
        /\ v.panic => plan.attack = "batteringram" /\ t.msb \notin Lists
        /\ t.position < IteratorTotal =>
              /\ v.value = Combination(t.position) /\ v.value # <<>>
              /\ v.state.position = t.position + 1
              /\ plan.attack = "batteringram" => v.state.msb \in Lists
        /\ t.position = IteratorTotal => v.value = <<>> /\ v.state.position = IteratorTotal

LEMMA BombNext ==
    ASSUME plan \in Plans, plan.attack = "clusterbomb", NEW t, IteratorInv(t)
    PROVE  GivesNext(t)
<1> DEFINE v == IteratorValue(t)
           k == t.position
<1>1. /\ HasPayloads /\ GoodLists /\ N # 0 /\ N \in Nat /\ Lists = 1..N
      /\ IteratorTotal \in Nat /\ IteratorTotal = Products(plan.lens)[N]
  BY PlanFacts, TotalOf, ListsOf DEF HasPayloads
<1>2. t \in Iterators /\ k \in Nat /\ k <= IteratorTotal
  BY DEF IteratorInv, Iterators
<1>3. v = BombValue(t)
  BY DEF IteratorValue
<1>4. CASE k = IteratorTotal
  <2>1. k >= IteratorTotal
    BY <1>1, <1>4
  <2>2. v = Returned(t, <<>>)
    BY <1>3, <2>1 DEF BombValue
  <2> HIDE DEF v
  <2>3. v.state = t /\ v.value = <<>> /\ v.panic = FALSE
    BY <2>2 DEF Returned
  <2>4. ~(k < IteratorTotal)
    BY <1>1, <1>4
  <2> QED
    BY <1>4, <2>3, <2>4 DEF GivesNext, v
<1>5. CASE k # IteratorTotal
  <2>1. k < IteratorTotal /\ ~(k >= IteratorTotal) /\ k < Products(plan.lens)[N]
    BY <1>1, <1>2, <1>5
  <2>2. Waits(t, k)
    BY <1>5 DEF IteratorInv
  <2>3. PICK r \in Accs : Gave(r, k) /\ BombValue(t) = Gives(t, r)
    BY <1>1, <1>2, <2>1, <2>2, BombGives
  <2> DEFINE s == [position |-> k + 1, msb |-> r.msb, at |-> r.at]
  <2>4. v.state = s /\ v.value = r.value /\ v.panic = FALSE
    BY <1>3, <2>3 DEF Gives, Returned
  <2>5. s.position = k + 1 /\ s.msb = r.msb /\ s.at = r.at
    OBVIOUS
  <2>6. s \in Iterators
    <3>1. k + 1 \in Nat /\ r.msb \in Nat /\ r.at \in [Lists -> Nat]
      BY <1>2 DEF Accs
    <3> QED
      BY <3>1, IteratorsOf, Zenon
  <2> HIDE DEF v, s
  <2>7. Waits(s, k + 1)
    BY <1>2, <2>3, <2>5, GaveWaits
  <2>8. IteratorInv(s)
    <3>1. k + 1 <= IteratorTotal
      BY <1>1, <1>2, <2>1
    <3> QED
      BY <2>5, <2>6, <2>7, <3>1 DEF IteratorInv
  <2>9. r.value = Combination(k) /\ r.value # <<>>
    <3>1. r.value \in Seq(Nat) /\ Len(r.value) = N /\ \A i \in 1..N : r.value[i] = D(k, i)
      BY <1>1, <2>3 DEF Gave, Accs
    <3>2. Combination(k) = [i \in 1..N |-> D(k, i)]
      BY <1>1 DEF Combination, D, Digit
    <3>3. r.value = [i \in 1..N |-> r.value[i]]
      BY <3>1
    <3>4. r.value # <<>>
      BY <1>1, <3>1
    <3> QED
      BY <3>1, <3>2, <3>3, <3>4
  <2>10. k # IteratorTotal
    BY <1>5
  <2> QED
    BY <2>4, <2>5, <2>8, <2>9, <2>10 DEF GivesNext, v
<1> QED
  BY <1>4, <1>5

LEMMA ForkNext ==
    ASSUME plan \in Plans, plan.attack = "pitchfork", NEW t, IteratorInv(t)
    PROVE  GivesNext(t)
<1> DEFINE v == IteratorValue(t)
           k == t.position
           Moves(i) == \A j \in 1..i : t.at[j] < plan.lens[j]
           at == [i \in Lists |-> IF Moves(i) THEN t.at[i] + 1 ELSE t.at[i]]
           next == [t EXCEPT !.at = at]
<1>1. /\ HasPayloads /\ GoodLists /\ N # 0 /\ N \in Nat /\ Lists = 1..N
      /\ IteratorTotal \in Nat /\ \A i \in Lists : plan.lens[i] \in Nat
  BY PlanFacts, TotalOf, ListsOf DEF HasPayloads
<1>2. /\ t \in Iterators /\ k \in Nat /\ k <= IteratorTotal /\ t.at \in [Lists -> Nat]
      /\ t.msb \in Nat /\ ForkInv(t)
      /\ t = [position |-> k, msb |-> t.msb, at |-> t.at]
  BY DEF IteratorInv, Iterators
<1>3. v = IF \A i \in Lists : Moves(i)
          THEN Returned([next EXCEPT !.position = @ + 1], t.at)
          ELSE Returned(next, <<>>)
  BY DEF IteratorValue, ForkValue
<1>4. /\ at \in [Lists -> Nat]
      /\ \A i \in Lists : at[i] >= t.at[i] /\ (Moves(i) => at[i] = t.at[i] + 1)
  <2> HIDE DEF Moves
  <2> QED
    BY <1>1, <1>2
<1>5. (\A i \in Lists : Moves(i)) <=> \A i \in Lists : t.at[i] < plan.lens[i]
  <2>1. \A i \in Lists : 1..i \subseteq Lists /\ i \in 1..i
    BY <1>1
  <2> QED
    BY <2>1
<1> DEFINE here == [position |-> k, msb |-> t.msb, at |-> at]
           moved == [position |-> k + 1, msb |-> t.msb, at |-> at]
<1> HIDE DEF at, Moves
<1>6. next = here
  BY <1>2
<1>7. [here EXCEPT !.position = @ + 1] = moved
  OBVIOUS
<1>8. here.position = k /\ here.at = at /\ moved.position = k + 1 /\ moved.at = at
  OBVIOUS
<1>9. here \in Iterators /\ moved \in Iterators
  <2>1. k + 1 \in Nat
    BY <1>2
  <2> QED
    BY <1>2, <1>4, <2>1, IteratorsOf, Zenon
<1>10. v = IF \A i \in Lists : t.at[i] < plan.lens[i]
           THEN Returned(moved, t.at) ELSE Returned(here, <<>>)
  BY <1>3, <1>5, <1>6, <1>7
<1> HIDE DEF v, here, moved, next
<1>11. CASE k = IteratorTotal
  <2>1. PICK i \in Lists : t.at[i] >= plan.lens[i]
    BY <1>2, <1>11 DEF ForkInv
  <2>2. ~(t.at[i] < plan.lens[i])
    BY <1>1, <1>2, <2>1
  <2>3. v.state = here /\ v.value = <<>> /\ v.panic = FALSE
    BY <1>10, <2>2 DEF Returned
  <2>4. at[i] >= plan.lens[i]
    BY <1>1, <1>2, <1>4, <2>1
  <2>5. IteratorInv(here)
    BY <1>2, <1>8, <1>9, <1>11, <2>4 DEF IteratorInv, ForkInv
  <2>6. ~(k < IteratorTotal)
    BY <1>1, <1>11
  <2> QED
    BY <1>8, <1>11, <2>3, <2>5, <2>6 DEF GivesNext, v
<1>12. CASE k # IteratorTotal
  <2>1. \A i \in Lists : t.at[i] = k
    BY <1>2, <1>12 DEF ForkInv
  <2>2. k < IteratorTotal /\ \A i \in Lists : k < plan.lens[i]
    <3>1. k < IteratorTotal
      BY <1>1, <1>2, <1>12
    <3>2. \A i \in Lists : IteratorTotal <= plan.lens[i]
      BY <1>1, TotalOf
    <3> QED
      BY <1>1, <1>2, <3>1, <3>2
  <2>3. v.state = moved /\ v.value = t.at /\ v.panic = FALSE
    BY <1>10, <2>1, <2>2 DEF Returned
  <2>4. \A i \in Lists : at[i] = k + 1
    <3>1. \A i \in Lists : Moves(i)
      BY <1>5, <2>1, <2>2
    <3> QED
      BY <1>4, <2>1, <3>1
  <2>5. IteratorInv(moved)
    <3>1. k + 1 <= IteratorTotal
      BY <1>1, <1>2, <2>2
    <3>2. ForkInv(moved)
      <4>1. CASE k + 1 = IteratorTotal
        <5>1. PICK i \in Lists : IteratorTotal = plan.lens[i]
          BY <1>1, TotalOf
        <5>2. at[i] >= plan.lens[i]
          BY <1>1, <2>4, <4>1, <5>1
        <5> QED
          BY <1>8, <4>1, <5>2 DEF ForkInv
      <4>2. CASE k + 1 # IteratorTotal
        BY <1>8, <2>4, <4>2 DEF ForkInv
      <4> QED
        BY <4>1, <4>2
    <3> QED
      BY <1>8, <1>9, <3>1, <3>2 DEF IteratorInv
  <2>6. t.at = Combination(k) /\ t.at # <<>>
    <3>1. Combination(k) = [i \in Lists |-> k]
      BY DEF Combination
    <3>2. t.at = [i \in Lists |-> k]
      BY <1>2, <2>1
    <3>3. t.at # <<>>
      <4>1. t.at \in Seq(Nat) /\ Len(t.at) = N
        BY <1>1, <1>2
      <4> QED
        BY <1>1, <4>1
    <3> QED
      BY <3>1, <3>2, <3>3
  <2> QED
    BY <1>8, <1>12, <2>2, <2>3, <2>5, <2>6 DEF GivesNext, v
<1> QED
  BY <1>11, <1>12

\* The lists the battering ram finds at their end add nothing to its place.
LEMMA RamPlace ==
    ASSUME plan.lens \in Seq(Nat), NEW t, RamInv(t), t.at \in [Lists -> Nat], t.msb \in Lists,
           NEW i \in Lists, t.msb <= i,
           \A j \in Lists : t.msb <= j /\ j <= i => t.at[j] >= plan.lens[j]
    PROVE  /\ Sums(plan.lens)[i] = t.position
           /\ \A j \in Lists : j <= i => t.at[j] = plan.lens[j]
<1> DEFINE S == Sums(plan.lens)
           m == t.msb
           T == {j \in 0..N : m <= j /\ j <= i => S[j] = t.position}
<1>1. /\ N \in Nat /\ Lists = 1..N /\ \A j \in Lists : plan.lens[j] \in Nat
      /\ S \in [0..N -> Nat] /\ \A j \in 1..N : S[j] = S[j - 1] + plan.lens[j]
  BY ListsOf, SumsOf DEF GoodLists, N
<1>2. /\ m \in 1..N /\ t.position = S[m - 1] + t.at[m]
      /\ \A j \in Lists : /\ j < m => t.at[j] = plan.lens[j]
                          /\ j = m => t.at[j] <= plan.lens[j]
                          /\ j > m => t.at[j] = 0
  BY <1>1 DEF RamInv
<1>3. ASSUME NEW j \in Lists, j <= i PROVE t.at[j] = plan.lens[j]
  <2>1. /\ j \in Nat /\ m \in Nat /\ t.at[j] \in Nat /\ plan.lens[j] \in Nat
        /\ (j < m \/ j = m \/ j > m)
    <3>1. m \in 1..N
      BY <1>2
    <3>2. t.at[j] \in Nat /\ plan.lens[j] \in Nat
      BY <1>1
    <3> HIDE DEF m
    <3> QED
      BY <1>1, <3>1, <3>2
  <2>2. m <= j => t.at[j] >= plan.lens[j]
    BY <1>3
  <2>3. /\ j < m => t.at[j] = plan.lens[j]
        /\ j = m => t.at[j] <= plan.lens[j]
        /\ j > m => t.at[j] = 0
    BY <1>2
  <2> QED
    BY <2>1, <2>2, <2>3
<1> HIDE DEF S, m
<1>4. 0 \in T
  BY <1>1, <1>2
<1>5. ASSUME NEW j \in 0..(N - 1), j \in T PROVE j + 1 \in T
  <2> DEFINE x == j + 1
  <2>1. x \in 1..N /\ x \in 0..N /\ x - 1 = j
    BY <1>1
  <2>2. x = j + 1 /\ j \in Nat
    BY <1>1
  <2> HIDE DEF x
  <2>3. ASSUME m <= x, x <= i PROVE S[x] = t.position
    <3>1. t.at[x] = plan.lens[x] /\ S[x] = S[j] + plan.lens[x] /\ plan.lens[x] \in Nat
      BY <1>1, <1>3, <2>1, <2>3
    <3>2. CASE x = m
      BY <1>2, <2>1, <3>1, <3>2
    <3>3. CASE x # m
      <4>1. m <= j /\ j <= i /\ x > m
        BY <1>1, <1>2, <2>2, <2>3, <3>3
      <4>2. S[j] = t.position /\ t.at[x] = 0 /\ S[j] \in Nat
        BY <1>1, <1>2, <1>5, <2>1, <4>1
      <4> QED
        BY <3>1, <4>2
    <3> QED
      BY <3>2, <3>3
  <2>4. x \in T
    BY <2>1, <2>3
  <2> QED
    BY <2>4 DEF x
<1> HIDE DEF T
<1>6. 0..N \subseteq T
  BY <1>1, <1>4, <1>5, UpTo
<1>7. i \in T /\ m <= i /\ i <= i
  <2>1. i \in 0..N /\ i <= i
    BY <1>1
  <2> QED
    BY <1>6, <2>1 DEF m
<1>8. S[i] = t.position
  BY <1>7 DEF T
<1> QED
  BY <1>3, <1>8 DEF S

\* A place in a list says which list it is.
LEMMA RamCombination ==
    ASSUME plan.lens \in Seq(Nat), plan.attack = "batteringram", NEW k \in Nat, NEW i \in Lists,
           Sums(plan.lens)[i - 1] <= k, k < Sums(plan.lens)[i - 1] + plan.lens[i]
    PROVE  /\ Combination(k) = <<i, k - Sums(plan.lens)[i - 1]>>
           /\ k < Sums(plan.lens)[N]
<1> DEFINE S == Sums(plan.lens)
           In(j) == S[j - 1] <= k /\ k < S[j - 1] + plan.lens[j]
<1>1. /\ N \in Nat /\ Lists = 1..N /\ \A j \in Lists : plan.lens[j] \in Nat
      /\ S \in [0..N -> Nat] /\ \A j \in 1..N : S[j] = S[j - 1] + plan.lens[j]
  BY ListsOf, SumsOf DEF GoodLists, N
<1>2. \A x, y \in 0..N : x <= y => S[x] <= S[y]
  BY SumsGrow DEF N
<1>3. In(i)
  OBVIOUS
<1>4. Combination(k) = <<CHOOSE j \in Lists : In(j), k - S[(CHOOSE j \in Lists : In(j)) - 1]>>
  BY DEF Combination
<1> HIDE DEF S
<1>5. \A j \in Lists : In(j) => S[j - 1] <= k /\ k < S[j] /\ j - 1 \in 0..N /\ j \in 0..N
  BY <1>1
<1>6. ASSUME NEW j \in Lists, In(j) PROVE j = i
  <2>1. /\ S[j - 1] <= k /\ k < S[j] /\ j - 1 \in 0..N /\ j \in 0..N
        /\ S[i - 1] <= k /\ k < S[i] /\ i - 1 \in 0..N /\ i \in 0..N
    BY <1>3, <1>5, <1>6
  <2>2. S[j - 1] \in Nat /\ S[j] \in Nat /\ S[i - 1] \in Nat /\ S[i] \in Nat
    BY <1>1, <2>1
  <2>3. ~(j <= i - 1)
    <3>1. j <= i - 1 => S[j] <= S[i - 1]
      BY <1>2, <2>1
    <3> QED
      BY <2>1, <2>2, <3>1
  <2>4. ~(i <= j - 1)
    <3>1. i <= j - 1 => S[i] <= S[j - 1]
      BY <1>2, <2>1
    <3> QED
      BY <2>1, <2>2, <3>1
  <2> QED
    BY <1>1, <2>3, <2>4
<1>7. (CHOOSE j \in Lists : In(j)) = i
  <2> HIDE DEF In
  <2> QED
    BY <1>3, <1>6
<1>8. Combination(k) = <<i, k - S[i - 1]>>
  BY <1>4, <1>7
<1>9. k < S[N]
  <2>1. k < S[i] /\ i \in 0..N /\ N \in 0..N /\ i <= N
    BY <1>1, <1>3, <1>5
  <2>2. S[i] <= S[N] /\ S[i] \in Nat /\ S[N] \in Nat
    BY <1>1, <1>2, <2>1
  <2> QED
    BY <2>1, <2>2
<1> QED
  BY <1>8, <1>9 DEF S

LEMMA RamNext ==
    ASSUME plan \in Plans, plan.attack = "batteringram", NEW t, IteratorInv(t)
    PROVE  GivesNext(t)
<1> DEFINE v == IteratorValue(t)
           k == t.position
           m == t.msb
           S == Sums(plan.lens)
           open == {i \in Lists : i >= t.msb /\ t.at[i] < plan.lens[i]}
<1>1. /\ HasPayloads /\ plan.lens \in Seq(Nat) /\ N # 0 /\ N \in Nat /\ Lists = 1..N
      /\ \A i \in Lists : plan.lens[i] \in Nat
      /\ IteratorTotal = S[N] /\ IteratorTotal \in Nat
  BY PlanFacts, TotalOf, ListsOf DEF HasPayloads, GoodLists
<1>2. S \in [0..N -> Nat] /\ \A j \in 1..N : S[j] = S[j - 1] + plan.lens[j]
  BY <1>1, SumsOf DEF N
<1>3. /\ t \in Iterators /\ k \in Nat /\ k <= IteratorTotal /\ t.at \in [Lists -> Nat]
      /\ t = [position |-> k, msb |-> m, at |-> t.at] /\ RamInv(t)
  BY DEF IteratorInv, Iterators
<1>4. /\ m \in 1..(N + 1)
      /\ \A i \in Lists : /\ i < m => t.at[i] = plan.lens[i]
                          /\ i = m => t.at[i] <= plan.lens[i]
                          /\ i > m => t.at[i] = 0
      /\ k = IF m \in Lists THEN S[m - 1] + t.at[m] ELSE S[N]
  BY <1>3 DEF RamInv
<1>5. v = IF m \notin Lists THEN [Returned(t, <<>>) EXCEPT !.panic = TRUE]
          ELSE IF open = {} THEN Returned([t EXCEPT !.msb = Len(plan.lens) + 1], <<>>)
          ELSE Returned([position |-> t.position + 1, msb |-> Min(open),
                         at |-> [t.at EXCEPT ![Min(open)] = @ + 1]],
                        <<Min(open), t.at[Min(open)]>>)
  BY DEF IteratorValue, RamValue
<1> HIDE DEF v, S
\* Behind the end it looks for a list that is not there.
<1>6. CASE m \notin Lists
  <2>1. v.state = t /\ v.value = <<>> /\ v.panic = TRUE
    BY <1>5, <1>6 DEF Returned
  <2>2. k = IteratorTotal /\ ~(k < IteratorTotal)
    BY <1>1, <1>4, <1>6
  <2> QED
    BY <1>6, <2>1, <2>2 DEF GivesNext, v
\* The lists that are left are at their end.
<1>7. CASE m \in Lists /\ open = {}
  <2> DEFINE s == [position |-> k, msb |-> N + 1, at |-> t.at]
  <2>1. [t EXCEPT !.msb = Len(plan.lens) + 1] = s
    BY <1>3 DEF N
  <2>2. v.state = s /\ v.value = <<>> /\ v.panic = FALSE
    BY <1>5, <1>7, <2>1 DEF Returned
  <2>3. s.position = k /\ s.msb = N + 1 /\ s.at = t.at
    OBVIOUS
  <2>4. s \in Iterators
    <3>1. N + 1 \in Nat
      BY <1>1
    <3> QED
      BY <1>3, <3>1, IteratorsOf, Zenon
  <2> HIDE DEF s
  <2>5. \A j \in Lists : m <= j /\ j <= N => t.at[j] >= plan.lens[j]
    <3> SUFFICES ASSUME NEW j \in Lists, m <= j PROVE t.at[j] >= plan.lens[j]
      OBVIOUS
    <3>1. j >= m /\ t.at[j] \in Nat /\ plan.lens[j] \in Nat
      BY <1>1, <1>3, <1>4
    <3>2. ~(t.at[j] < plan.lens[j])
      BY <1>7, <3>1
    <3> QED
      BY <3>1, <3>2
  <2>6. S[N] = k /\ \A j \in Lists : t.at[j] = plan.lens[j]
    <3>1. N \in Lists /\ m <= N /\ \A j \in Lists : j <= N
      BY <1>1, <1>7
    <3>2. S[N] = k /\ \A j \in Lists : j <= N => t.at[j] = plan.lens[j]
      BY <1>1, <1>3, <1>7, <2>5, <3>1, RamPlace DEF S
    <3> QED
      BY <3>1, <3>2
  <2>7. RamInv(s)
    <3>1. N + 1 \in 1..(N + 1) /\ N + 1 \notin Lists
          /\ \A j \in Lists : ~(j = N + 1) /\ ~(j > N + 1)
      BY <1>1
    <3> QED
      BY <2>3, <2>6, <3>1 DEF RamInv, S
  <2>8. IteratorInv(s)
    BY <1>3, <2>3, <2>4, <2>7 DEF IteratorInv
  <2>9. k = IteratorTotal /\ ~(k < IteratorTotal)
    BY <1>1, <2>6
  <2> QED
    BY <2>2, <2>3, <2>8, <2>9 DEF GivesNext, v
<1>8. CASE m \in Lists /\ open # {}
  <2> DEFINE i == Min(open)
             at == [t.at EXCEPT ![i] = t.at[i] + 1]
             s == [position |-> k + 1, msb |-> i, at |-> at]
  <2>1. v.state = s /\ v.value = <<i, t.at[i]>> /\ v.panic = FALSE
    BY <1>5, <1>8 DEF Returned
  <2>2. i \in Lists /\ i >= m /\ t.at[i] < plan.lens[i] /\ \A n \in open : i <= n
    <3>1. open \subseteq Nat /\ open # {}
      BY <1>1, <1>8
    <3> HIDE DEF i
    <3>2. i \in open /\ \A n \in open : i <= n
      BY <3>1, MinOf DEF i
    <3> QED
      BY <3>2
  <2> HIDE DEF i
  <2>3. i \in Nat /\ m \in Nat /\ i \in 1..N /\ i - 1 \in 0..N /\ t.at[i] \in Nat
        /\ plan.lens[i] \in Nat
    <3>1. i \in 1..N /\ m \in 1..N
      BY <1>1, <1>8, <2>2
    <3>2. t.at[i] \in Nat /\ plan.lens[i] \in Nat
      BY <1>1, <1>3, <2>2
    <3> HIDE DEF m, open, at, s
    <3>3. i - 1 \in 0..N /\ i \in Nat /\ m \in Nat
      BY <1>1, <3>1
    <3> QED
      BY <3>1, <3>2, <3>3
  <2>4. \A j \in Lists : m <= j /\ j <= i - 1 => t.at[j] >= plan.lens[j]
    <3> SUFFICES ASSUME NEW j \in Lists, m <= j, j <= i - 1 PROVE t.at[j] >= plan.lens[j]
      OBVIOUS
    <3>1. j >= m /\ t.at[j] \in Nat /\ plan.lens[j] \in Nat /\ ~(i <= j)
      BY <1>1, <1>3, <2>3
    <3>2. j \notin open
      BY <2>2, <3>1
    <3>3. ~(t.at[j] < plan.lens[j])
      BY <3>1, <3>2
    <3> QED
      BY <3>1, <3>3
  <2> HIDE DEF open
  <2>5. /\ S[i - 1] + t.at[i] = k
        /\ \A j \in Lists : j < i => t.at[j] = plan.lens[j]
        /\ \A j \in Lists : j > i => t.at[j] = 0
    <3>1. CASE i = m
      BY <1>4, <1>8, <3>1
    <3>2. CASE i # m
      <4> DEFINE x == i - 1
      <4>1. x \in Lists /\ m <= x /\ i > m /\ \A j \in Lists : j < i => j <= x
        BY <1>1, <1>8, <2>2, <2>3, <3>2
      <4> HIDE DEF x
      <4>2. \A j \in Lists : m <= j /\ j <= x => t.at[j] >= plan.lens[j]
        BY <2>4 DEF x
      <4>3. S[x] = k /\ \A j \in Lists : j <= x => t.at[j] = plan.lens[j]
        BY <1>1, <1>3, <1>8, <4>1, <4>2, RamPlace DEF S
      <4>4. t.at[i] = 0 /\ S[x] + 0 = S[x]
        <5>1. S[x] \in Nat
          BY <2>3, <1>2 DEF x
        <5> QED
          BY <1>4, <2>2, <4>1, <5>1
      <4>5. \A j \in Lists : j > i => t.at[j] = 0
        <5>1. \A j \in Lists : j > i => j > m
          BY <1>1, <2>3, <4>1
        <5> QED
          BY <1>4, <5>1
      <4> QED
        BY <4>1, <4>3, <4>4, <4>5 DEF x
    <3> QED
      BY <3>1, <3>2
  <2>6. S[i - 1] \in Nat
    BY <1>2, <2>3
  <2>7. Combination(k) = <<i, t.at[i]>> /\ k < S[N]
    <3>1. S[i - 1] <= k /\ k < S[i - 1] + plan.lens[i] /\ k - S[i - 1] = t.at[i]
      BY <2>2, <2>3, <2>5, <2>6
    <3>2. Combination(k) = <<i, k - S[i - 1]>> /\ k < S[N]
      BY <1>1, <1>3, <2>2, <3>1, RamCombination DEF S
    <3> QED
      BY <3>1, <3>2
  <2>8. s.position = k + 1 /\ s.msb = i /\ s.at = at
    OBVIOUS
  <2>9. /\ at \in [Lists -> Nat] /\ at[i] = t.at[i] + 1
        /\ \A j \in Lists : j # i => at[j] = t.at[j]
    BY <1>3, <2>2, <2>3
  <2>10. s \in Iterators
    <3>1. k + 1 \in Nat
      BY <1>3
    <3> HIDE DEF at
    <3> QED
      BY <2>3, <2>9, <3>1, IteratorsOf, Zenon
  <2> HIDE DEF s, at
  <2>11. RamInv(s)
    <3>1. i \in 1..(N + 1)
      BY <1>1, <2>3
    <3>2. ASSUME NEW j \in Lists
          PROVE  /\ j < i => at[j] = plan.lens[j]
                 /\ j = i => at[j] <= plan.lens[j]
                 /\ j > i => at[j] = 0
      <4>1. (j < i => j # i) /\ (j > i => j # i)
        BY <1>1, <2>3
      <4>2. at[i] <= plan.lens[i]
        BY <2>2, <2>3, <2>9
      <4> QED
        BY <2>5, <2>9, <4>1, <4>2
    <3>3. k + 1 = S[i - 1] + at[i]
      BY <2>3, <2>5, <2>6, <2>9
    <3> QED
      BY <2>2, <2>8, <3>1, <3>2, <3>3 DEF RamInv, S
  <2>12. k < IteratorTotal /\ k + 1 <= IteratorTotal /\ k # IteratorTotal
    BY <1>1, <1>3, <2>7
  <2>13. IteratorInv(s)
    BY <2>8, <2>10, <2>11, <2>12 DEF IteratorInv
  <2>14. <<i, t.at[i]>> # <<>>
    OBVIOUS
  <2> QED
    BY <2>1, <2>2, <2>7, <2>8, <2>12, <2>13, <2>14 DEF GivesNext, v
<1> QED
  BY <1>6, <1>7, <1>8

LEMMA IteratorNext ==
    ASSUME plan \in Plans, HasPayloads, NEW t, IteratorInv(t)
    PROVE  GivesNext(t)
BY PlanFacts, RamNext, ForkNext, BombNext

LEMMA FreshIterator ==
    ASSUME plan \in Plans, HasPayloads
    PROVE  IteratorInv(Fresh) /\ Fresh.position = 0 /\ Fresh.msb \in Lists
<1>1. /\ GoodLists /\ plan.lens \in Seq(Nat) /\ N # 0 /\ N \in Nat /\ Lists = 1..N
      /\ \A i \in Lists : plan.lens[i] \in Nat
      /\ IteratorTotal \in Nat
  BY PlanFacts, TotalOf, ListsOf DEF GoodLists
<1>2. /\ Fresh.position = 0 /\ Fresh.msb = 1 /\ Fresh.at = [i \in Lists |-> 0]
      /\ Fresh \in Iterators
  BY DEF Fresh, Iterators
<1>3. 1 \in Lists /\ 1 \in 1..(N + 1) /\ 0 <= IteratorTotal
  BY <1>1
<1>4. Fresh.at \in [Lists -> Nat] /\ \A i \in Lists : Fresh.at[i] = 0
  BY <1>2
<1> HIDE DEF Fresh
<1>5. RamInv(Fresh)
  <2>1. Sums(plan.lens)[1 - 1] + Fresh.at[1] = 0
    <3>1. Sums(plan.lens)[0] = 0 /\ 1 - 1 = 0
      BY <1>1, SumsOf
    <3> QED
      BY <1>3, <1>4, <3>1
  <2>2. \A i \in Lists : ~(i < 1) /\ 0 <= plan.lens[i]
    BY <1>1
  <2> QED
    BY <1>2, <1>3, <1>4, <2>1, <2>2 DEF RamInv
<1>6. plan.attack = "pitchfork" => ForkInv(Fresh)
  <2> SUFFICES ASSUME plan.attack = "pitchfork" PROVE ForkInv(Fresh)
    OBVIOUS
  <2>1. CASE 0 = IteratorTotal
    <3>1. PICK i \in Lists : IteratorTotal = plan.lens[i]
      BY TotalOf
    <3>2. Fresh.at[i] >= plan.lens[i]
      BY <1>4, <2>1, <3>1
    <3> QED
      BY <1>2, <2>1, <3>2 DEF ForkInv
  <2>2. CASE 0 # IteratorTotal
    BY <1>2, <1>4, <2>2 DEF ForkInv
  <2> QED
    BY <2>1, <2>2
<1>7. Waits(Fresh, 0)
  BY <1>2, <1>3, <1>4 DEF Waits, IsPlace
<1> QED
  BY <1>2, <1>3, <1>5, <1>6, <1>7 DEF IteratorInv

-----------------------------------------------------------------------------
(* The generator: which of the requests due it has handed out              *)

Values == {<<>>} \cup {Combination(k) : k \in 0..(Rounds - 1)}
Items == (1..NumRequests) \X Values
Gens == [index : Nat, payloads : Values, ok : BOOLEAN, iterator : Iterators,
         done : SUBSET Nat, panic : BOOLEAN]
OnceUpTo(r) == {x \in 1..r : plan.once[x]}
AllOnce == \A r \in 1..NumRequests : plan.once[r]
Open(g, i) == {r \in i..NumRequests : r \notin g.done}

\* The payloads of combination c are the ones handed out.
Loaded(g, c) ==
    /\ g \in Gens /\ g.panic = FALSE /\ g.payloads = Combination(c)
    /\ HasPayloads => /\ g.ok = TRUE /\ g.payloads # <<>>
                      /\ IteratorInv(g.iterator) /\ g.iterator.position = c + 1
                      /\ plan.attack = "batteringram" => g.iterator.msb \in Lists

\* Everything due before combination c, and of that the requests before i, was
\* handed out.
Ready(g, h, c, i) ==
    /\ c \in 0..(Rounds - 1) /\ i \in 1..(NumRequests + 1)
    /\ Loaded(g, c)
    /\ g.done = OnceUpTo(IF c = 0 THEN i - 1 ELSE NumRequests)
    /\ c # 0 => ~AllOnce
    /\ h = DueBefore[c] \o Due(c)[i - 1]

Serving == \E c \in 0..(Rounds - 1) : gen.index # 1 /\ Ready(gen, handed, c, gen.index)

SentInv ==
    /\ plan \in Plans
    /\ phase \in {"next", "execute", "stopped", "exhausted", "panic"}
    /\ phase = "next" => (gen = NewGenerator /\ handed = <<>>) \/ Serving
    /\ phase \in {"execute", "stopped"} => Serving
    /\ phase \in {"exhausted", "panic"} => handed = Expected
    /\ phase = "panic" => plan.attack = "batteringram" /\ IteratorTotal = 1 /\ AllOnce

\* Every execution that is left was handed out and not yet counted.
CountInv ==
    /\ dynamic \in 0..2 /\ (~plan.iterate => dynamic = 1)
    /\ runs \in Nat /\ counted \in Nat
    /\ ~plan.iterate => /\ phase \in {"next", "exhausted"} => counted = Len(handed)
                        /\ phase = "execute" => counted + runs = Len(handed)

LEMMA RoundsOf ==
    ASSUME plan \in Plans
    PROVE  /\ Rounds \in Nat /\ NumRequests \in Nat \ {0} /\ plan.once \in Seq(BOOLEAN)
           /\ HasPayloads => Rounds = IteratorTotal
           /\ ~HasPayloads => Rounds = 1
BY PlanFacts, TotalOf DEF Rounds

LEMMA DueOf ==
    ASSUME plan \in Plans, NEW k \in 0..(Rounds - 1)
    PROVE  /\ Due(k) \in [0..NumRequests -> Seq(Items)]
           /\ Due(k)[0] = <<>>
           /\ \A r \in 1..NumRequests :
                 Due(k)[r] = IF k = 0 \/ ~plan.once[r]
                             THEN Append(Due(k)[r - 1], <<r, Combination(k)>>)
                             ELSE Due(k)[r - 1]
<1> DEFINE S == Seq(Items)
           R == NumRequests
           Takes(r) == k = 0 \/ ~plan.once[r]
           F == [r \in 1..R |-> [s \in S |->
                    IF Takes(r) THEN Append(s, <<r, Combination(k)>>) ELSE s]]
           Is(f) == f = [r \in 0..R |->
                    IF r = 0 THEN <<>>
                    ELSE IF k = 0 \/ ~plan.once[r] THEN Append(f[r - 1], <<r, Combination(k)>>)
                    ELSE f[r - 1]]
<1>1. R \in Nat /\ <<>> \in S
  BY RoundsOf
<1>2. \A r \in 1..R : <<r, Combination(k)>> \in Items
  BY DEF Items, Values
<1>3. /\ F \in [1..R -> [S -> S]]
      /\ \A r \in 1..R, s \in S :
            F[r][s] = IF Takes(r) THEN Append(s, <<r, Combination(k)>>) ELSE s
  <2>1. \A r \in 1..R, s \in S : Append(s, <<r, Combination(k)>>) \in S
    BY <1>2
  <2> HIDE DEF S, Takes
  <2> QED
    BY <2>1
<1> HIDE DEF F, S
<1>4. PICK f \in [0..R -> S] : f[0] = <<>> /\ \A r \in 1..R : f[r] = F[r][f[r - 1]]
  <2>1. Recurses(R, S, <<>>, F)
    BY <1>1, <1>3, Recursion, Zenon
  <2> QED
    BY <2>1, Zenon DEF Recurses
<1>5. ASSUME NEW r \in 1..R
      PROVE  /\ r - 1 \in 0..R
             /\ f[r] = IF Takes(r) THEN Append(f[r - 1], <<r, Combination(k)>>) ELSE f[r - 1]
  <2>1. r - 1 \in 0..R
    BY <1>1
  <2>2. f[r - 1] \in S /\ f[r] = F[r][f[r - 1]]
    BY <1>4, <2>1
  <2> HIDE DEF Takes, R
  <2> QED
    BY <1>3, <2>1, <2>2
<1>6. Is(f)
  <2> HIDE DEF R
  <2>1. ASSUME NEW r \in 0..R
        PROVE  f[r] = IF r = 0 THEN <<>>
                      ELSE IF Takes(r) THEN Append(f[r - 1], <<r, Combination(k)>>)
                      ELSE f[r - 1]
    <3>1. CASE r = 0
      BY <1>4, <3>1
    <3>2. CASE r # 0
      <4>1. r \in 1..R
        BY <1>1, <3>2
      <4> HIDE DEF Takes
      <4> QED
        BY <1>5, <3>2, <4>1
    <3> QED
      BY <3>1, <3>2
  <2> QED
    BY <1>4, <2>1
<1>7. Is(Due(k))
  BY <1>6, Zenon DEF Due
<1> DEFINE T == {r \in 0..R : Due(k)[r] = f[r]}
<1> HIDE DEF R
<1>8. 0 \in T
  BY <1>1, <1>4, <1>7
<1>9. ASSUME NEW r \in 0..(R - 1), r \in T PROVE r + 1 \in T
  <2> DEFINE x == r + 1
  <2>1. x \in 1..R /\ x \in 0..R /\ x # 0 /\ x - 1 = r
    BY <1>1
  <2> HIDE DEF x
  <2>2. f[x] = IF Takes(x) THEN Append(f[r], <<x, Combination(k)>>) ELSE f[r]
    BY <1>5, <2>1
  <2>3. Due(k)[x] = IF Takes(x) THEN Append(Due(k)[r], <<x, Combination(k)>>) ELSE Due(k)[r]
    BY <1>7, <2>1
  <2>4. Due(k)[x] = f[x]
    BY <1>9, <2>2, <2>3
  <2>5. x \in T
    BY <2>1, <2>4
  <2> QED
    BY <2>5 DEF x
<1> HIDE DEF T
<1>10. 0..R \subseteq T
  BY <1>1, <1>8, <1>9, UpTo
<1>11. \A r \in 0..R : Due(k)[r] = f[r]
  BY <1>10 DEF T
<1>12. Due(k) = f
  BY <1>4, <1>7, <1>11
<1> QED
  BY <1>4, <1>5, <1>12 DEF R, S

LEMMA DueBeforeOf ==
    ASSUME plan \in Plans
    PROVE  /\ DueBefore \in [0..Rounds -> Seq(Items)]
           /\ DueBefore[0] = <<>>
           /\ \A k \in 1..Rounds :
                 DueBefore[k] = DueBefore[k - 1] \o Due(k - 1)[NumRequests]
<1> DEFINE S == Seq(Items)
           all(k) == Due(k - 1)[NumRequests]
           F == [k \in 1..Rounds |-> [s \in S |-> s \o all(k)]]
           Is(f) == f = [k \in 0..Rounds |->
                            IF k = 0 THEN <<>> ELSE f[k - 1] \o Due(k - 1)[NumRequests]]
<1>1. Rounds \in Nat /\ <<>> \in S
  BY RoundsOf
<1>2. ASSUME NEW k \in 1..Rounds PROVE all(k) \in S
  <2>1. k - 1 \in 0..(Rounds - 1) /\ NumRequests \in 0..NumRequests
    BY <1>1, RoundsOf
  <2> QED
    BY <2>1, DueOf
<1>3. /\ F \in [1..Rounds -> [S -> S]]
      /\ \A k \in 1..Rounds, s \in S : F[k][s] = s \o all(k)
  <2>1. \A k \in 1..Rounds, s \in S : s \o all(k) \in S
    BY <1>2
  <2> HIDE DEF S, all
  <2> QED
    BY <2>1
<1> HIDE DEF F, S
<1>4. PICK f \in [0..Rounds -> S] :
           f[0] = <<>> /\ \A k \in 1..Rounds : f[k] = F[k][f[k - 1]]
  <2>1. Recurses(Rounds, S, <<>>, F)
    BY <1>1, <1>3, Recursion, Zenon
  <2> QED
    BY <2>1, Zenon DEF Recurses
<1>5. ASSUME NEW k \in 1..Rounds PROVE k - 1 \in 0..Rounds /\ f[k] = f[k - 1] \o all(k)
  <2>1. k - 1 \in 0..Rounds
    BY <1>1
  <2>2. f[k - 1] \in S /\ f[k] = F[k][f[k - 1]]
    BY <1>4, <2>1
  <2> HIDE DEF all
  <2> QED
    BY <1>3, <2>1, <2>2
<1>6. Is(f)
  <2>1. ASSUME NEW k \in 0..Rounds
        PROVE  f[k] = IF k = 0 THEN <<>> ELSE f[k - 1] \o all(k)
    <3>1. CASE k = 0
      BY <1>4, <3>1
    <3>2. CASE k # 0
      <4>1. k \in 1..Rounds
        BY <1>1, <3>2
      <4> HIDE DEF all
      <4> QED
        BY <1>5, <3>2, <4>1
    <3> QED
      BY <3>1, <3>2
  <2> QED
    BY <1>4, <2>1
<1>7. Is(DueBefore)
  BY <1>6, Zenon DEF DueBefore
<1> DEFINE T == {k \in 0..Rounds : DueBefore[k] = f[k]}
<1>8. 0 \in T
  BY <1>1, <1>4, <1>7
<1>9. ASSUME NEW k \in 0..(Rounds - 1), k \in T PROVE k + 1 \in T
  <2> DEFINE x == k + 1
  <2>1. x \in 1..Rounds /\ x \in 0..Rounds /\ x # 0 /\ x - 1 = k
    BY <1>1
  <2> HIDE DEF x
  <2>2. f[x] = f[k] \o all(x)
    BY <1>5, <2>1
  <2>3. DueBefore[x] = DueBefore[k] \o all(x)
    BY <1>7, <2>1
  <2>4. DueBefore[x] = f[x]
    BY <1>9, <2>2, <2>3
  <2>5. x \in T
    BY <2>1, <2>4
  <2> QED
    BY <2>5 DEF x
<1> HIDE DEF T
<1>10. 0..Rounds \subseteq T
  BY <1>1, <1>8, <1>9, UpTo
<1>11. \A k \in 0..Rounds : DueBefore[k] = f[k]
  BY <1>10 DEF T
<1>12. DueBefore = f
  BY <1>4, <1>7, <1>11
<1> QED
  BY <1>4, <1>5, <1>12 DEF S

-----------------------------------------------------------------------------
(* Prefixes                                                                 *)

Starts(s, t) == Len(s) <= Len(t) /\ \A x \in 1..Len(s) : s[x] = t[x]

LEMMA StartsTransitive ==
    \A S : \A r, s, t \in Seq(S) : Starts(r, s) /\ Starts(s, t) => Starts(r, t)
<1> SUFFICES ASSUME NEW S, NEW r \in Seq(S), NEW s \in Seq(S), NEW t \in Seq(S),
                    Starts(r, s), Starts(s, t)
             PROVE  Starts(r, t)
  OBVIOUS
<1>1. Len(r) \in Nat /\ Len(s) \in Nat /\ Len(t) \in Nat
  OBVIOUS
<1>2. Len(r) <= Len(s) /\ Len(s) <= Len(t)
  BY DEF Starts
<1>3. ASSUME NEW x \in 1..Len(r) PROVE r[x] = t[x]
  <2>1. x \in 1..Len(s)
    BY <1>1, <1>2
  <2> QED
    BY <2>1 DEF Starts
<1> QED
  BY <1>1, <1>2, <1>3 DEF Starts

LEMMA StartsAppended ==
    \A S : \A s, t \in Seq(S) : \A e \in S :
        Starts(s, s) /\ Starts(s, Append(s, e)) /\ Starts(s, s \o t)
<1> SUFFICES ASSUME NEW S, NEW s \in Seq(S), NEW t \in Seq(S), NEW e \in S
             PROVE  Starts(s, s) /\ Starts(s, Append(s, e)) /\ Starts(s, s \o t)
  OBVIOUS
<1>1. Len(s) \in Nat /\ Len(t) \in Nat
  OBVIOUS
<1>2. Len(Append(s, e)) = Len(s) + 1 /\ Len(s \o t) = Len(s) + Len(t)
  OBVIOUS
<1>3. \A x \in 1..Len(s) : Append(s, e)[x] = s[x]
  OBVIOUS
<1>4. \A x \in 1..Len(s) : (s \o t)[x] = s[x]
  OBVIOUS
<1> QED
  BY <1>1, <1>2, <1>3, <1>4 DEF Starts

LEMMA StartsJoined ==
    \A S : \A s, t, u \in Seq(S) : Starts(t, u) => Starts(s \o t, s \o u)
<1> SUFFICES ASSUME NEW S, NEW s \in Seq(S), NEW t \in Seq(S), NEW u \in Seq(S), Starts(t, u)
             PROVE  Starts(s \o t, s \o u)
  OBVIOUS
<1>1. Len(s) \in Nat /\ Len(t) \in Nat /\ Len(u) \in Nat /\ Len(t) <= Len(u)
  BY DEF Starts
<1>2. Len(s \o t) = Len(s) + Len(t) /\ Len(s \o u) = Len(s) + Len(u)
  OBVIOUS
<1>3. ASSUME NEW x \in 1..(Len(s) + Len(t)) PROVE (s \o t)[x] = (s \o u)[x]
  <2>1. CASE x <= Len(s)
    BY <1>1, <2>1
  <2>2. CASE ~(x <= Len(s))
    <3> DEFINE y == x - Len(s)
    <3>1. y \in 1..Len(t) /\ y \in 1..Len(u)
      BY <1>1, <2>2
    <3>2. (s \o t)[x] = t[y] /\ (s \o u)[x] = u[y]
      BY <1>1, <2>2
    <3> HIDE DEF y
    <3> QED
      BY <3>1, <3>2 DEF Starts
  <2> QED
    BY <2>1, <2>2
<1> QED
  BY <1>1, <1>2, <1>3 DEF Starts

LEMMA StartsIs ==
    \A S : \A s, t \in Seq(S) :
        Starts(s, t) => Len(s) <= Len(t) /\ s = SubSeq(t, 1, Len(s))
<1> SUFFICES ASSUME NEW S, NEW s \in Seq(S), NEW t \in Seq(S), Starts(s, t)
             PROVE  Len(s) <= Len(t) /\ s = SubSeq(t, 1, Len(s))
  OBVIOUS
<1>1. Len(s) \in Nat /\ Len(t) \in Nat /\ Len(s) <= Len(t)
  BY DEF Starts
<1>2. SubSeq(t, 1, Len(s)) \in Seq(S) /\ Len(SubSeq(t, 1, Len(s))) = Len(s)
  BY <1>1
<1>3. \A x \in 1..Len(s) : SubSeq(t, 1, Len(s))[x] = s[x]
  BY <1>1 DEF Starts
<1> QED
  BY <1>1, <1>2, <1>3

\* What grows step by step starts with all it was.
LEMMA Grows ==
    \A S : \A m \in Nat : \A f \in [0..m -> Seq(S)] :
        (\A i \in 1..m : Starts(f[i - 1], f[i])) => \A i \in 0..m : Starts(f[i], f[m])
<1> SUFFICES ASSUME NEW S, NEW m \in Nat, NEW f \in [0..m -> Seq(S)],
                    \A i \in 1..m : Starts(f[i - 1], f[i])
             PROVE  \A i \in 0..m : Starts(f[i], f[m])
  OBVIOUS
<1> DEFINE All(n) == \A i \in 0..n : Starts(f[i], f[n])
           T == {n \in 0..m : All(n)}
<1>1. 0 \in T
  <2>1. f[0] \in Seq(S)
    OBVIOUS
  <2>2. Starts(f[0], f[0])
    BY <2>1 DEF Starts
  <2>3. \A i \in 0..0 : i = 0
    OBVIOUS
  <2> QED
    BY <2>2, <2>3
<1>2. ASSUME NEW n \in 0..(m - 1), n \in T PROVE n + 1 \in T
  <2> DEFINE x == n + 1
  <2>1. x \in 1..m /\ x \in 0..m /\ x - 1 = n /\ n \in 0..m
    OBVIOUS
  <2>2. \A i \in 0..x : i = x \/ i \in 0..n
    OBVIOUS
  <2> HIDE DEF x
  <2>3. f[x] \in Seq(S) /\ f[n] \in Seq(S) /\ Starts(f[n], f[x]) /\ All(n)
    BY <1>2, <2>1
  <2>4. Starts(f[x], f[x])
    BY <2>3 DEF Starts
  <2>5. ASSUME NEW i \in 0..n PROVE Starts(f[i], f[x])
    <3>1. i \in 0..m
      BY <2>1
    <3>2. f[i] \in Seq(S) /\ Starts(f[i], f[n])
      BY <2>3, <3>1
    <3> QED
      BY <2>3, <3>2, StartsTransitive, Zenon
  <2>6. All(x)
    BY <2>2, <2>4, <2>5
  <2>7. x \in T
    BY <2>1, <2>6
  <2> QED
    BY <2>7 DEF x
<1> HIDE DEF T
<1>3. 0..m \subseteq T
  BY <1>1, <1>2, UpTo
<1>4. m \in T
  BY <1>3
<1> QED
  BY <1>4 DEF T

LEMMA DueStarts ==
    ASSUME plan \in Plans, NEW k \in 0..(Rounds - 1), NEW r \in 0..NumRequests
    PROVE  Starts(Due(k)[r], Due(k)[NumRequests])
<1> DEFINE f == Due(k)
<1>1. NumRequests \in Nat /\ f \in [0..NumRequests -> Seq(Items)]
  BY RoundsOf, DueOf
<1>2. ASSUME NEW i \in 1..NumRequests PROVE Starts(f[i - 1], f[i])
  <2> DEFINE s == f[i - 1]
             e == <<i, Combination(k)>>
  <2>1. i - 1 \in 0..NumRequests
    BY <1>1
  <2>2. s \in Seq(Items)
    BY <1>1, <2>1
  <2>3. e \in Items
    BY DEF Items, Values
  <2>4. f[i] = Append(s, e) \/ f[i] = s
    BY DueOf
  <2> HIDE DEF s, e, f
  <2>5. Starts(s, s) /\ Starts(s, Append(s, e))
    BY <2>2, <2>3, StartsAppended, Zenon
  <2>6. Starts(s, f[i])
    BY <2>4, <2>5
  <2> QED
    BY <2>6 DEF s
<1> HIDE DEF f
<1>3. \A i \in 0..NumRequests : Starts(f[i], f[NumRequests])
  BY <1>1, <1>2, Grows, Zenon
<1> QED
  BY <1>3 DEF f

LEMMA ExpectedStarts ==
    ASSUME plan \in Plans, NEW c \in 0..Rounds
    PROVE  Starts(DueBefore[c], Expected)
<1> DEFINE f == DueBefore
<1>1. Rounds \in Nat /\ f \in [0..Rounds -> Seq(Items)]
  BY RoundsOf, DueBeforeOf
<1>2. ASSUME NEW i \in 1..Rounds PROVE Starts(f[i - 1], f[i])
  <2> DEFINE s == f[i - 1]
             t == Due(i - 1)[NumRequests]
  <2>1. i - 1 \in 0..Rounds /\ i - 1 \in 0..(Rounds - 1) /\ NumRequests \in 0..NumRequests
    BY <1>1, RoundsOf
  <2>2. s \in Seq(Items) /\ t \in Seq(Items)
    BY <1>1, <2>1, DueOf
  <2>3. f[i] = s \o t
    BY DueBeforeOf
  <2>4. <<1, <<>>>> \in Items
    BY RoundsOf DEF Items, Values
  <2> HIDE DEF s, t, f
  <2>5. Starts(s, s \o t)
    BY <2>2, <2>4, StartsAppended, Zenon
  <2>6. Starts(s, f[i])
    BY <2>3, <2>5
  <2> QED
    BY <2>6 DEF s
<1> HIDE DEF f
<1>3. \A i \in 0..Rounds : Starts(f[i], f[Rounds])
  BY <1>1, <1>2, Grows, Zenon
<1> QED
  BY <1>3 DEF f, Expected

\* What was handed out so far starts what is expected.
LEMMA SoFar ==
    ASSUME plan \in Plans, NEW c \in 0..(Rounds - 1), NEW r \in 0..NumRequests
    PROVE  /\ DueBefore[c] \o Due(c)[r] \in Seq(Items)
           /\ Starts(DueBefore[c] \o Due(c)[r], Expected)
<1> DEFINE s == DueBefore[c]
           t == Due(c)[r]
           u == Due(c)[NumRequests]
           k == c + 1
<1>1. c \in 0..Rounds /\ k \in 1..Rounds /\ k \in 0..Rounds /\ k - 1 = c /\ Rounds \in 0..Rounds
      /\ NumRequests \in 0..NumRequests
  BY RoundsOf
<1> HIDE DEF k
<1>2. s \in Seq(Items) /\ t \in Seq(Items) /\ u \in Seq(Items) /\ DueBefore[k] \in Seq(Items)
      /\ Expected \in Seq(Items)
  BY <1>1, DueOf, DueBeforeOf DEF Expected
<1>3. Starts(t, u)
  BY DueStarts
<1>4. DueBefore[k] = s \o u
  BY <1>1, DueBeforeOf
<1>5. Starts(DueBefore[k], Expected)
  BY <1>1, ExpectedStarts
<1> HIDE DEF s, t, u
<1>6. s \o t \in Seq(Items) /\ s \o u \in Seq(Items)
  BY <1>2
<1>7. Starts(s \o t, s \o u)
  BY <1>2, <1>3, StartsJoined, Zenon
<1>8. Starts(s \o u, Expected)
  BY <1>4, <1>5
<1>9. Starts(s \o t, Expected)
  BY <1>2, <1>6, <1>7, <1>8, StartsTransitive, Zenon
<1> QED
  BY <1>6, <1>9 DEF s, t

-----------------------------------------------------------------------------
(* One request is handed out, or the round ends                            *)

\* After the first combination, requests that are @once add nothing.
LEMMA Skipped ==
    ASSUME plan \in Plans, NEW k \in 1..(Rounds - 1), NEW i \in 0..NumRequests,
           NEW j \in 0..NumRequests, i <= j, \A x \in (i + 1)..j : plan.once[x]
    PROVE  Due(k)[j] = Due(k)[i]
<1> DEFINE T == {n \in 0..NumRequests : n > j \/ n <= i \/ Due(k)[n] = Due(k)[i]}
<1>1. Rounds \in Nat /\ NumRequests \in Nat /\ k \in 0..(Rounds - 1) /\ k # 0
  BY RoundsOf
<1>2. 0 \in T
  BY <1>1
<1>3. ASSUME NEW n \in 0..(NumRequests - 1), n \in T PROVE n + 1 \in T
  <2> DEFINE x == n + 1
  <2>1. x \in 1..NumRequests /\ x \in 0..NumRequests /\ x - 1 = n
    BY <1>1
  <2>2. n \in Nat /\ x = n + 1
    BY <1>1
  <2> HIDE DEF x
  <2>3. ASSUME x > j \/ x <= i PROVE x \in T
    BY <2>1, <2>3
  <2>4. ASSUME ~(x > j) /\ ~(x <= i) PROVE x \in T
    <3>1. x \in (i + 1)..j /\ n <= j /\ n >= i
      BY <1>1, <2>1, <2>2, <2>4
    <3>2. plan.once[x]
      BY <3>1
    <3>3. Due(k)[x] = Due(k)[n]
      BY <1>1, <2>1, <3>2, DueOf
    <3>4. Due(k)[n] = Due(k)[i]
      <4>1. n = i \/ ~(n > j \/ n <= i)
        BY <2>2, <3>1
      <4> QED
        BY <1>3, <4>1
    <3> QED
      BY <2>1, <3>3, <3>4
  <2>5. x \in T
    <3>1. (x > j \/ x <= i) \/ (~(x > j) /\ ~(x <= i))
      OBVIOUS
    <3> HIDE DEF T
    <3> QED
      BY <2>3, <2>4, <3>1, Zenon
  <2> QED
    BY <2>5 DEF x
<1> HIDE DEF T
<1>4. j \in T
  BY <1>1, <1>2, <1>3, UpTo
<1>5. j > j \/ j <= i => j = i
  BY <1>1
<1> QED
  BY <1>4, <1>5 DEF T

\* When every request is @once, one combination is all there is.
LEMMA OnlyFirst ==
    ASSUME plan \in Plans, AllOnce, Rounds # 0
    PROVE  Expected = DueBefore[1]
<1> DEFINE T == {k \in 0..Rounds : k = 0 \/ DueBefore[k] = DueBefore[1]}
<1>1. Rounds \in Nat /\ NumRequests \in Nat /\ 0 \in 0..NumRequests
  BY RoundsOf
<1>2. 0 \in T
  BY <1>1
<1>3. ASSUME NEW k \in 0..(Rounds - 1), k \in T PROVE k + 1 \in T
  <2> DEFINE x == k + 1
  <2>1. x \in 1..Rounds /\ x \in 0..Rounds /\ x - 1 = k /\ k \in Nat
    BY <1>1
  <2>2. k = 0 => x = 1
    OBVIOUS
  <2> HIDE DEF x
  <2>3. DueBefore[x] = DueBefore[k] \o Due(k)[NumRequests]
    BY <2>1, DueBeforeOf
  <2>4. ASSUME k = 0 PROVE x \in T
    BY <2>1, <2>2, <2>4
  <2>5. ASSUME k # 0 PROVE x \in T
    <3>1. k \in 1..(Rounds - 1) /\ NumRequests \in 0..NumRequests
      BY <1>1, <2>5
    <3>2. \A y \in (0 + 1)..NumRequests : plan.once[y]
      BY DEF AllOnce
    <3>3. Due(k)[NumRequests] = Due(k)[0]
      BY <1>1, <3>1, <3>2, Skipped
    <3>4. Due(k)[0] = <<>>
      BY DueOf
    <3>5. DueBefore[k] \in Seq(Items)
      <4>1. k \in 0..Rounds
        BY <1>1
      <4> QED
        BY <4>1, DueBeforeOf
    <3>6. DueBefore[k] \o <<>> = DueBefore[k]
      BY <3>5
    <3>7. DueBefore[x] = DueBefore[k] /\ DueBefore[k] = DueBefore[1]
      BY <1>3, <2>3, <2>5, <3>3, <3>4, <3>6
    <3> QED
      BY <2>1, <3>7
  <2>6. x \in T
    BY <2>4, <2>5
  <2> QED
    BY <2>6 DEF x
<1> HIDE DEF T
<1>4. Rounds \in 0..Rounds
  BY <1>1
<1>5. Rounds \in T
  BY <1>1, <1>2, <1>3, <1>4, UpTo
<1> QED
  BY <1>5 DEF T, Expected

First(g, i) == Min(Open(g, i))
Given(g, i) == HandOut([gen |-> g, found |-> First(g, i)])

LEMMA HandsOut ==
    ASSUME plan \in Plans, NEW g, NEW h, NEW c, NEW i, Ready(g, h, c, i), Open(g, i) # {}
    PROVE  /\ First(g, i) \in i..NumRequests
           /\ Given(g, i).found = First(g, i)
           /\ Ready(Given(g, i).gen, Append(h, <<First(g, i), g.payloads>>), c, First(g, i) + 1)
           /\ Given(g, i).gen.index = First(g, i) + 1
           /\ Given(g, i).gen.payloads = g.payloads
           /\ Given(g, i).gen.panic = FALSE
<1>0. PICK f : f = First(g, i)
  OBVIOUS
<1>1. /\ c \in 0..(Rounds - 1) /\ i \in 1..(NumRequests + 1) /\ NumRequests \in Nat \ {0}
      /\ Rounds \in Nat /\ g \in Gens /\ g.payloads = Combination(c) /\ g.panic = FALSE
      /\ HasPayloads => g.ok = TRUE
      /\ plan.once \in Seq(BOOLEAN)
  BY RoundsOf DEF Ready, Loaded
<1>2. f \in Open(g, i) /\ \A r \in Open(g, i) : f <= r
  <2>1. Open(g, i) \subseteq Nat
    BY <1>1 DEF Open
  <2> QED
    BY <1>0, <2>1, MinOf DEF First
<1>3. f \in i..NumRequests /\ f \in 1..NumRequests /\ f \notin g.done
  <2>1. f \in i..NumRequests /\ f \notin g.done
    BY <1>2 DEF Open
  <2>2. i \in Nat /\ i >= 1
    BY <1>1
  <2> QED
    BY <1>1, <2>1, <2>2
<1>4. ASSUME NEW x \in i..NumRequests, x < f PROVE x \in g.done
  <2>1. ~(f <= x)
    BY <1>1, <1>3, <1>4
  <2> QED
    BY <1>2, <2>1 DEF Open
<1> DEFINE done == IF plan.once[f] THEN g.done \cup {f} ELSE g.done
           v == HandOut([gen |-> g, found |-> f])
           e == <<f, g.payloads>>
           b == DueBefore[c]
           s == Due(c)[i - 1]
<1>5. v.found = f /\ v.gen = [g EXCEPT !.index = f + 1, !.done = done]
  BY <1>1, <1>3 DEF HandOut
<1>6. done = OnceUpTo(IF c = 0 THEN f ELSE NumRequests) /\ Due(c)[f] = Append(s, e)
  <2>1. /\ Due(c)[f] = IF c = 0 \/ ~plan.once[f] THEN Append(Due(c)[f - 1], e) ELSE Due(c)[f - 1]
    BY <1>1, <1>3, DueOf
  <2>2. CASE c = 0
    <3>1. g.done = OnceUpTo(i - 1)
      BY <2>2 DEF Ready
    <3>2. i \notin OnceUpTo(i - 1) /\ i \in i..NumRequests
      BY <1>1, <1>3 DEF OnceUpTo
    <3>3. f = i
      BY <1>1, <1>3, <1>4, <3>1, <3>2
    <3>4. \A x : x \in 1..i <=> x \in 1..(i - 1) \/ x = i
      BY <1>1
    <3>5. OnceUpTo(i) = IF plan.once[i] THEN OnceUpTo(i - 1) \cup {i} ELSE OnceUpTo(i - 1)
      BY <3>4 DEF OnceUpTo
    <3> QED
      BY <2>1, <2>2, <3>1, <3>3, <3>5
  <2>3. CASE c # 0
    <3>1. g.done = OnceUpTo(NumRequests)
      BY <2>3 DEF Ready
    <3>2. ~plan.once[f]
      BY <1>3, <3>1 DEF OnceUpTo
    <3>3. \A x \in ((i - 1) + 1)..(f - 1) : plan.once[x]
      <4> SUFFICES ASSUME NEW x \in ((i - 1) + 1)..(f - 1) PROVE plan.once[x]
        OBVIOUS
      <4>1. x \in i..NumRequests /\ x < f
        BY <1>1, <1>3
      <4> QED
        BY <1>4, <3>1, <4>1 DEF OnceUpTo
    <3>4. /\ i - 1 \in 0..NumRequests /\ f - 1 \in 0..NumRequests /\ i - 1 <= f - 1
          /\ c \in 1..(Rounds - 1)
      BY <1>1, <1>3, <2>3
    <3>5. Due(c)[f - 1] = s
      BY <3>3, <3>4, Skipped
    <3> QED
      BY <2>1, <2>3, <3>1, <3>2, <3>5
  <2> QED
    BY <2>2, <2>3
<1>7. Append(h, e) = b \o Due(c)[f]
  <2>1. h = b \o s
    BY DEF Ready
  <2>2. c \in 0..Rounds /\ i - 1 \in 0..NumRequests
    BY <1>1
  <2>3. b \in Seq(Items) /\ s \in Seq(Items)
    BY <1>1, <2>2, DueOf, DueBeforeOf
  <2>4. e \in Items
    BY <1>1, <1>3 DEF Items, Gens
  <2> HIDE DEF b, s, e
  <2>5. Append(b \o s, e) = b \o Append(s, e)
    BY <2>3, <2>4
  <2> QED
    BY <1>6, <2>1, <2>5
<1> HIDE DEF done, e
<1>8. /\ v.gen.payloads = g.payloads /\ v.gen.ok = g.ok /\ v.gen.iterator = g.iterator
      /\ v.gen.panic = FALSE /\ v.gen.index = f + 1 /\ v.gen.done = done
  BY <1>1, <1>5 DEF Gens
<1>9. v.gen \in Gens
  <2>1. f + 1 \in Nat /\ done \in SUBSET Nat
    BY <1>1, <1>3 DEF done, Gens
  <2> QED
    BY <1>1, <1>5, <2>1 DEF Gens
<1> HIDE DEF v
<1>10. Loaded(v.gen, c)
  BY <1>8, <1>9 DEF Ready, Loaded
<1>11. f + 1 \in 1..(NumRequests + 1) /\ (f + 1) - 1 = f
  BY <1>1, <1>3
<1>12. Ready(v.gen, Append(h, e), c, f + 1)
  <2>1. c # 0 => ~AllOnce
    BY DEF Ready
  <2> QED
    BY <1>1, <1>6, <1>7, <1>8, <1>10, <1>11, <2>1 DEF Ready
<1> QED
  BY <1>0, <1>3, <1>5, <1>8, <1>12 DEF v, e, Given

\* When no request is open, all that is due with these payloads was handed out.
LEMMA RoundEnds ==
    ASSUME plan \in Plans, NEW g, NEW h, NEW c, NEW i, Ready(g, h, c, i), Open(g, i) = {}
    PROVE  h = DueBefore[c + 1] /\ g.done = OnceUpTo(NumRequests) /\ c + 1 \in 1..Rounds
<1>1. /\ c \in 0..(Rounds - 1) /\ i \in 1..(NumRequests + 1) /\ NumRequests \in Nat \ {0}
      /\ Rounds \in Nat
  BY RoundsOf DEF Ready
<1>2. \A x \in i..NumRequests : x \in g.done
  BY DEF Open
<1>3. g.done = OnceUpTo(NumRequests) /\ Due(c)[i - 1] = Due(c)[NumRequests]
  <2>1. CASE c = 0
    <3>1. g.done = OnceUpTo(i - 1)
      BY <2>1 DEF Ready
    <3>2. i \notin OnceUpTo(i - 1)
      BY <1>1 DEF OnceUpTo
    <3>3. i \notin i..NumRequests
      BY <1>2, <3>1, <3>2
    <3>4. i - 1 = NumRequests
      BY <1>1, <3>3
    <3> QED
      BY <3>1, <3>4
  <2>2. CASE c # 0
    <3>1. g.done = OnceUpTo(NumRequests)
      BY <2>2 DEF Ready
    <3>2. \A x \in ((i - 1) + 1)..NumRequests : plan.once[x]
      <4> SUFFICES ASSUME NEW x \in ((i - 1) + 1)..NumRequests PROVE plan.once[x]
        OBVIOUS
      <4>1. x \in i..NumRequests
        BY <1>1
      <4> QED
        BY <1>2, <3>1, <4>1 DEF OnceUpTo
    <3>3. /\ i - 1 \in 0..NumRequests /\ NumRequests \in 0..NumRequests
          /\ i - 1 <= NumRequests /\ c \in 1..(Rounds - 1)
      BY <1>1, <2>2
    <3>4. Due(c)[NumRequests] = Due(c)[i - 1]
      BY <3>2, <3>3, Skipped
    <3> QED
      BY <3>1, <3>4
  <2> QED
    BY <2>1, <2>2
<1>4. c + 1 \in 1..Rounds /\ (c + 1) - 1 = c
  BY <1>1
<1>5. DueBefore[c + 1] = DueBefore[c] \o Due(c)[NumRequests]
  BY <1>4, DueBeforeOf
<1>6. h = DueBefore[c] \o Due(c)[i - 1]
  BY DEF Ready
<1> QED
  BY <1>3, <1>4, <1>5, <1>6

-----------------------------------------------------------------------------
(* The next value of the generator                                         *)

\* The iterator gives the combinations in order, and behind the last one none.
LEMMA TakesNext ==
    ASSUME plan \in Plans, HasPayloads, NEW g, g \in Gens, g.panic = FALSE,
           IteratorInv(g.iterator), NEW k \in 0..Rounds, g.iterator.position = k,
           plan.attack = "batteringram" => g.iterator.msb \in Lists
    PROVE  /\ NextPayloads(g).panic = FALSE /\ NextPayloads(g).done = g.done
           /\ NextPayloads(g).index = g.index
           /\ k # Rounds => Loaded(NextPayloads(g), k)
           /\ k = Rounds => NextPayloads(g).ok = FALSE
<1> DEFINE t == g.iterator
           v == IteratorValue(t)
           n == NextPayloads(g)
<1>1. /\ Rounds \in Nat /\ Rounds = IteratorTotal /\ k \in Nat /\ k <= Rounds
      /\ k # Rounds => k \in 0..(Rounds - 1) /\ k < IteratorTotal
  BY RoundsOf
<1>2. GivesNext(t)
  BY IteratorNext
<1>3. /\ IteratorInv(v.state) /\ v.panic = FALSE
      /\ k # Rounds => /\ v.value = Combination(k) /\ v.value # <<>>
                       /\ v.state.position = k + 1
                       /\ plan.attack = "batteringram" => v.state.msb \in Lists
      /\ k = Rounds => v.value = <<>>
  BY <1>1, <1>2 DEF GivesNext
<1> HIDE DEF v, t
<1>4. n = [g EXCEPT !.iterator = v.state, !.payloads = v.value, !.ok = v.value # <<>>,
                    !.panic = g.panic \/ v.panic]
  BY DEF NextPayloads, TakeValues, v, t
<1> HIDE DEF n
<1>5. /\ n.iterator = v.state /\ n.payloads = v.value /\ n.ok = (v.value # <<>>)
      /\ n.panic = FALSE /\ n.done = g.done /\ n.index = g.index
  BY <1>3, <1>4 DEF Gens
<1>6. ASSUME k # Rounds PROVE Loaded(n, k)
  <2>1. v.value \in Values
    BY <1>1, <1>3, <1>6 DEF Values
  <2>2. v.state \in Iterators
    BY <1>3 DEF IteratorInv
  <2>3. n \in Gens
    BY <1>3, <1>4, <2>1, <2>2 DEF Gens
  <2>4. n.ok = TRUE
    BY <1>3, <1>5, <1>6
  <2> QED
    BY <1>3, <1>5, <1>6, <2>3, <2>4 DEF Loaded
<1>7. k = Rounds => n.ok = FALSE
  BY <1>3, <1>5
<1> QED
  BY <1>5, <1>6, <1>7 DEF n

\* With the payloads of the next combination the round begins anew.
LEMMA MovesOn ==
    ASSUME plan \in Plans, HasPayloads, NEW g, NEW c \in 0..(Rounds - 1), Loaded(g, c)
    PROVE  /\ NextPayloads(g).panic = FALSE /\ NextPayloads(g).done = g.done
           /\ NextPayloads(g).index = g.index
           /\ c + 1 # Rounds => Loaded(NextPayloads(g), c + 1)
           /\ c + 1 = Rounds => NextPayloads(g).ok = FALSE
<1> DEFINE k == c + 1
<1>1. k \in 0..Rounds
  BY RoundsOf
<1>2. /\ g \in Gens /\ g.panic = FALSE /\ IteratorInv(g.iterator) /\ g.iterator.position = k
      /\ plan.attack = "batteringram" => g.iterator.msb \in Lists
  BY DEF Loaded
<1> HIDE DEF k
<1>3. /\ NextPayloads(g).panic = FALSE /\ NextPayloads(g).done = g.done
      /\ NextPayloads(g).index = g.index
      /\ k # Rounds => Loaded(NextPayloads(g), k)
      /\ k = Rounds => NextPayloads(g).ok = FALSE
  BY <1>1, <1>2, TakesNext
<1> QED
  BY <1>3 DEF k

\* What the next value may be when h was handed out.
Advances(g, h) ==
    \/ /\ NextValue(g).gen.panic = TRUE
       /\ h = Expected /\ plan.attack = "batteringram" /\ IteratorTotal = 1 /\ AllOnce
    \/ /\ NextValue(g).gen.panic = FALSE
       /\ NextValue(g).found = 0 /\ h = Expected
    \/ /\ NextValue(g).gen.panic = FALSE
       /\ NextValue(g).found # 0
       /\ NextValue(g).gen.index # 1
       /\ \E c \in 0..(Rounds - 1) :
             Ready(NextValue(g).gen,
                   Append(h, <<NextValue(g).found, NextValue(g).gen.payloads>>),
                   c, NextValue(g).gen.index)

LEMMA AdvancesByHandingOut ==
    ASSUME plan \in Plans, NEW g, NEW h, NEW c, NEW i, Ready(g, h, c, i), Open(g, i) # {},
           NEW x, NextValue(x) = Given(g, i)
    PROVE  Advances(x, h)
<1>1. /\ First(g, i) \in i..NumRequests
      /\ Given(g, i).found = First(g, i)
      /\ Ready(Given(g, i).gen, Append(h, <<First(g, i), g.payloads>>), c, First(g, i) + 1)
      /\ Given(g, i).gen.index = First(g, i) + 1
      /\ Given(g, i).gen.payloads = g.payloads
      /\ Given(g, i).gen.panic = FALSE
  BY HandsOut
<1>2. i \in 1..(NumRequests + 1) /\ NumRequests \in Nat /\ c \in 0..(Rounds - 1)
  BY RoundsOf DEF Ready
<1>3. First(g, i) # 0 /\ First(g, i) + 1 # 1
  BY <1>1, <1>2
<1> QED
  BY <1>1, <1>2, <1>3 DEF Advances

LEMMA NextServed ==
    ASSUME plan \in Plans, NEW g, NEW h, NEW c, Ready(g, h, c, g.index)
    PROVE  Advances(g, h)
<1> DEFINE i == g.index
           open == Open(g, i)
           n == NextPayloads(g)
<1>1. /\ c \in 0..(Rounds - 1) /\ Loaded(g, c) /\ g \in Gens /\ g.panic = FALSE
      /\ HasPayloads => g.payloads # <<>>
      /\ Rounds \in Nat /\ NumRequests \in Nat \ {0}
  BY RoundsOf DEF Ready, Loaded
<1>2. FirstPayloads(g) = g
  BY <1>1 DEF FirstPayloads
<1>3. ThisRound(g) = IF open # {} THEN [gen |-> g, found |-> Min(open)]
                     ELSE [gen |-> IF HasPayloads THEN n ELSE g, found |-> 0]
  BY DEF ThisRound, FindNext, Open
<1>4. NextValue(g) = HandOut(NewRound(ThisRound(g)))
  BY <1>2 DEF NextValue
<1>5. CASE open # {}
  <2> DEFINE r == [gen |-> g, found |-> First(g, i)]
  <2>1. First(g, i) \in i..NumRequests
    BY <1>5, HandsOut
  <2>2. i \in 1..(NumRequests + 1)
    BY DEF Ready
  <2>3. First(g, i) # 0
    BY <1>1, <2>1, <2>2
  <2>4. NewRound(r) = r
    BY <2>3 DEF NewRound
  <2>5. ThisRound(g) = r
    BY <1>3, <1>5 DEF First
  <2>6. NextValue(g) = Given(g, i)
    BY <1>4, <2>4, <2>5 DEF Given
  <2> QED
    BY <1>5, <2>6, AdvancesByHandingOut
<1>6. CASE open = {}
  <2>1. h = DueBefore[c + 1] /\ g.done = OnceUpTo(NumRequests) /\ c + 1 \in 1..Rounds
    BY <1>6, RoundEnds
  <2>2. CASE ~HasPayloads
    <3>1. ThisRound(g) = [gen |-> g, found |-> 0]
      BY <1>3, <1>6, <2>2
    <3>2. NextValue(g) = [gen |-> g, found |-> 0]
      BY <1>4, <2>2, <3>1 DEF NewRound, HandOut
    <3>3. c + 1 = Rounds
      BY <1>1, <2>2, RoundsOf
    <3>4. h = Expected
      BY <2>1, <3>3 DEF Expected
    <3> QED
      BY <1>1, <3>2, <3>4 DEF Advances
  <2>3. CASE HasPayloads
    <3> DEFINE anew == Open(n, 1)
    <3>1. ThisRound(g) = [gen |-> n, found |-> 0]
      BY <1>3, <1>6, <2>3
    <3>2. /\ n.panic = FALSE /\ n.done = OnceUpTo(NumRequests)
          /\ c + 1 # Rounds => Loaded(n, c + 1)
          /\ c + 1 = Rounds => n.ok = FALSE
      BY <1>1, <2>1, <2>3, MovesOn
    <3> HIDE DEF n
    <3>3. NewRound([gen |-> n, found |-> 0]) =
              IF anew # {} THEN [gen |-> n, found |-> Min(anew)]
              ELSE [gen |-> NextPayloads(n), found |-> 0]
      BY <2>3 DEF NewRound, FindNext, Open
    <3>4. /\ anew \subseteq 1..NumRequests
          /\ AllOnce <=> anew = {}
      BY <3>2 DEF Open, OnceUpTo, AllOnce
    <3>5. CASE ~AllOnce
      <4> DEFINE f == Min(anew)
                 r == [gen |-> n, found |-> f]
      <4>1. f \in 1..NumRequests
        <5>1. anew \subseteq Nat /\ anew # {}
          BY <3>4, <3>5
        <5>2. f \in anew
          BY <5>1, MinOf
        <5> QED
          BY <3>4, <5>2
      <4>2. NextValue(g) = HandOut(r)
        BY <1>4, <3>1, <3>3, <3>4, <3>5
      <4>3. CASE c + 1 = Rounds
        <5> HIDE DEF f
        <5>1. f # 0
          BY <4>1
        <5>2. HandOut(r).found = 0 /\ HandOut(r).gen.panic = FALSE
          <6> DEFINE done == IF plan.once[f] THEN n.done \cup {f} ELSE n.done
          <6>1. HandOut(r) = [gen |-> [n EXCEPT !.index = f + 1, !.done = done], found |-> 0]
            BY <2>3, <3>2, <4>3, <5>1 DEF HandOut
          <6>2. [n EXCEPT !.index = f + 1, !.done = done].panic = n.panic
            <7>1. n = TakeValues(g, IteratorValue(g.iterator))
              BY DEF n, NextPayloads
            <7> HIDE DEF done, f
            <7> QED
              BY <1>1, <7>1 DEF TakeValues, Gens
          <6> DEFINE m == [n EXCEPT !.index = f + 1, !.done = done]
          <6>3. HandOut(r) = [gen |-> m, found |-> 0] /\ m.panic = FALSE
            BY <3>2, <6>1, <6>2
          <6> HIDE DEF m, r
          <6> QED
            BY <6>3
        <5>3. h = Expected
          BY <2>1, <4>3 DEF Expected
        <5> QED
          BY <4>2, <5>2, <5>3 DEF Advances
      <4>4. CASE c + 1 # Rounds
        <5> DEFINE k == c + 1
        <5>1. k \in 0..(Rounds - 1) /\ k # 0 /\ Loaded(n, k) /\ h = DueBefore[k]
          BY <1>1, <2>1, <3>2, <4>4
        <5> HIDE DEF k
        <5>2. Due(k)[0] = <<>> /\ DueBefore[k] \in Seq(Items)
          <6>1. k \in 0..Rounds
            BY <1>1, <5>1
          <6> QED
            BY <5>1, <6>1, DueOf, DueBeforeOf
        <5>3. h = DueBefore[k] \o Due(k)[1 - 1]
          <6>1. 1 - 1 = 0
            OBVIOUS
          <6>2. DueBefore[k] \o <<>> = DueBefore[k]
            BY <5>2
          <6> QED
            BY <5>1, <5>2, <6>1, <6>2
        <5>4. 1 \in 1..(NumRequests + 1)
          BY <1>1
        <5>5. Ready(n, h, k, 1)
          BY <3>2, <3>5, <5>1, <5>3, <5>4 DEF Ready
        <5>6. anew # {} /\ NextValue(g) = Given(n, 1)
          BY <3>4, <3>5, <4>2 DEF Given, First
        <5> QED
          BY <5>5, <5>6, AdvancesByHandingOut
      <4> QED
        BY <4>3, <4>4
    <3>6. CASE AllOnce
      <4>1. NewRound([gen |-> n, found |-> 0]) = [gen |-> NextPayloads(n), found |-> 0]
        BY <3>3, <3>4, <3>6
      <4>2. NextValue(g) = [gen |-> NextPayloads(n), found |-> 0]
        BY <1>4, <3>1, <4>1 DEF HandOut
      <4>3. c = 0
        BY <3>6 DEF Ready
      <4>4. h = Expected
        BY <1>1, <2>1, <3>6, <4>3, OnlyFirst
      <4>5. CASE c + 1 # Rounds
        <5> DEFINE k == c + 1
        <5>1. k \in 0..(Rounds - 1) /\ Loaded(n, k)
          BY <1>1, <3>2, <4>5
        <5> HIDE DEF k
        <5>2. NextPayloads(n).panic = FALSE
          BY <2>3, <5>1, MovesOn
        <5> QED
          BY <4>2, <4>4, <5>2 DEF Advances
      <4>6. CASE c + 1 = Rounds
        <5>1. IteratorTotal = 1
          BY <2>3, <4>3, <4>6, RoundsOf
        <5>2. /\ IteratorInv(g.iterator)
          BY <1>1, <2>3 DEF Loaded
        <5>3. GivesNext(g.iterator)
          BY <2>3, <5>2, IteratorNext
        <5>4. n.iterator = IteratorValue(g.iterator).state
          BY <1>1 DEF n, NextPayloads, TakeValues, Gens
        <5>5. GivesNext(n.iterator)
          <6>1. IteratorInv(n.iterator)
            BY <5>3, <5>4 DEF GivesNext
          <6> QED
            BY <2>3, <6>1, IteratorNext
        <5> DEFINE w == IteratorValue(n.iterator)
        <5>6. w.panic \in BOOLEAN /\ (w.panic => plan.attack = "batteringram")
          BY <5>5 DEF GivesNext
        <5>7. NextPayloads(n).panic = w.panic
          <6> HIDE DEF w
          <6>1. n.panic = FALSE
            BY <3>2
          <6>2. n = TakeValues(g, IteratorValue(g.iterator))
            BY DEF n, NextPayloads
          <6>3. NextPayloads(n) = TakeValues(n, w)
            BY DEF NextPayloads, w
          <6> QED
            BY <1>1, <5>6, <6>1, <6>2, <6>3 DEF TakeValues, Gens
        <5> QED
          BY <3>6, <4>2, <4>4, <5>1, <5>6, <5>7 DEF Advances
      <4> QED
        BY <4>5, <4>6
    <3> QED
      BY <3>5, <3>6
  <2> QED
    BY <2>2, <2>3
<1> QED
  BY <1>5, <1>6

LEMMA NextFirst ==
    ASSUME plan \in Plans
    PROVE  Advances(NewGenerator, <<>>)
<1> DEFINE g == NewGenerator
<1>1. Rounds \in Nat /\ NumRequests \in Nat \ {0}
  BY RoundsOf
<1>2. /\ g.index = 1 /\ g.payloads = <<>> /\ g.iterator = Fresh /\ g.done = {} /\ g.panic = FALSE
      /\ g \in Gens
  <2>1. Fresh \in Iterators
    BY DEF Fresh, Iterators
  <2>2. <<>> \in Values
    BY DEF Values
  <2> QED
    BY <2>1, <2>2 DEF NewGenerator, Gens
<1> HIDE DEF g
\* Where nothing was handed out yet.
<1>3. ASSUME NEW n, Loaded(n, 0), n.done = {}, 0 \in 0..(Rounds - 1)
      PROVE  Ready(n, <<>>, 0, 1)
  <2>1. Due(0)[0] = <<>> /\ DueBefore[0] = <<>>
    BY <1>3, DueOf, DueBeforeOf
  <2>2. <<>> \o <<>> = <<>> /\ 1 - 1 = 0
    OBVIOUS
  <2>3. OnceUpTo(0) = {}
    BY DEF OnceUpTo
  <2>4. 1 \in 1..(NumRequests + 1)
    BY <1>1
  <2> QED
    BY <1>3, <2>1, <2>2, <2>3, <2>4 DEF Ready
<1>4. CASE ~HasPayloads
  <2>1. Combination(0) = <<>> /\ 0 \in 0..(Rounds - 1)
    BY <1>4, PlanFacts, RoundsOf DEF Combination
  <2>2. Loaded(g, 0)
    BY <1>2, <1>4, <2>1 DEF Loaded
  <2>3. Ready(g, <<>>, 0, g.index)
    BY <1>2, <1>3, <2>1, <2>2
  <2> QED
    BY <2>3, NextServed DEF g
<1>5. CASE HasPayloads
  <2> DEFINE n == NextPayloads(g)
  <2>1. FirstPayloads(g) = n
    BY <1>2, <1>5 DEF FirstPayloads
  <2>2. NextValue(g) = HandOut(NewRound(ThisRound(n)))
    BY <2>1 DEF NextValue
  <2>3. /\ n.panic = FALSE /\ n.done = {} /\ n.index = 1
        /\ 0 # Rounds => Loaded(n, 0)
        /\ 0 = Rounds => n.ok = FALSE
    <3>1. IteratorInv(g.iterator) /\ g.iterator.position = 0 /\ g.iterator.msb \in Lists
      BY <1>2, <1>5, FreshIterator
    <3>2. 0 \in 0..Rounds
      BY <1>1
    <3> QED
      BY <1>2, <1>5, <3>1, <3>2, TakesNext
  <2>4. CASE 0 # Rounds
    <3>1. 0 \in 0..(Rounds - 1)
      BY <1>1, <2>4
    <3>2. Ready(n, <<>>, 0, n.index)
      BY <1>3, <2>3, <2>4, <3>1
    <3>3. Advances(n, <<>>)
      BY <3>2, NextServed
    <3>4. n.payloads # <<>>
      BY <1>5, <2>3, <2>4 DEF Loaded
    <3>5. NextValue(g) = NextValue(n)
      BY <2>2, <3>4 DEF NextValue, FirstPayloads
    <3> QED
      BY <3>3, <3>5 DEF Advances, g
  <2>5. CASE 0 = Rounds
    <3> DEFINE open == Open(n, 1)
               f == Min(open)
               r == [gen |-> n, found |-> f]
               done == IF plan.once[f] THEN n.done \cup {f} ELSE n.done
               m == [n EXCEPT !.index = f + 1, !.done = done]
    <3>1. open = 1..NumRequests
      BY <2>3 DEF Open
    <3>2. f \in 1..NumRequests
      <4>1. open \subseteq Nat /\ open # {}
        BY <1>1, <3>1
      <4>2. f \in open
        BY <4>1, MinOf
      <4> QED
        BY <3>1, <4>2
    <3>3. f # 0
      BY <3>2
    <3>4. ThisRound(n) = r
      BY <1>1, <2>3, <3>1 DEF ThisRound, FindNext, Open
    <3>5. NewRound(r) = r
      BY <3>3 DEF NewRound
    <3>6. HandOut(r) = [gen |-> m, found |-> 0]
      BY <1>5, <2>3, <2>5, <3>3 DEF HandOut
    <3>7. m.panic = n.panic
      <4>1. n = TakeValues(g, IteratorValue(g.iterator))
        BY DEF NextPayloads
      <4> HIDE DEF done, f, n
      <4> QED
        BY <1>2, <4>1 DEF TakeValues, Gens
    <3> HIDE DEF m, r
    <3>8. NextValue(g).found = 0 /\ NextValue(g).gen.panic = FALSE
      BY <2>2, <2>3, <3>4, <3>5, <3>6, <3>7
    <3>9. Expected = <<>>
      BY <2>5, DueBeforeOf DEF Expected
    <3> QED
      BY <3>8, <3>9 DEF Advances, g
  <2> QED
    BY <2>4, <2>5
<1> QED
  BY <1>4, <1>5

-----------------------------------------------------------------------------
(* The loop                                                                *)

\* No step changes the plan.
LEMMA PlanStays ==
    ASSUME plan' = plan
    PROVE  /\ HasPayloads' = HasPayloads /\ Lists' = Lists /\ N' = N
           /\ NumRequests' = NumRequests /\ Fresh' = Fresh /\ Iterators' = Iterators
           /\ NewGenerator' = NewGenerator
           /\ \A r : OnceUpTo(r)' = OnceUpTo(r)
           /\ AllOnce' = AllOnce
BY DEF HasPayloads, Lists, N, NumRequests, Fresh, Iterators, NewGenerator, OnceUpTo, AllOnce

LEMMA TotalStays ==
    ASSUME plan' = plan
    PROVE  /\ IteratorTotal' = IteratorTotal /\ Rounds' = Rounds
           /\ \A k : Combination(k)' = Combination(k)
<1>1. Lists' = Lists /\ HasPayloads' = HasPayloads
  BY PlanStays
<1>2. IteratorTotal' = IteratorTotal
  BY <1>1, Zenon DEF IteratorTotal
<1>3. Rounds' = Rounds
  BY <1>1, <1>2 DEF Rounds
<1>4. \A k : Combination(k)' = Combination(k)
  BY <1>1 DEF Combination
<1> QED
  BY <1>2, <1>3, <1>4

LEMMA DueStays ==
    ASSUME plan' = plan
    PROVE  /\ \A k : Due(k)' = Due(k)
           /\ DueBefore' = DueBefore /\ Expected' = Expected
<1>1. /\ \A k : Combination(k)' = Combination(k)
      /\ Rounds' = Rounds /\ NumRequests' = NumRequests
  BY PlanStays, TotalStays
<1>2. \A k : Due(k)' = Due(k)
  BY <1>1 DEF Due
<1>3. DueBefore' = DueBefore
  BY <1>1, <1>2 DEF DueBefore
<1> QED
  BY <1>1, <1>2, <1>3 DEF Expected

LEMMA IteratorStays ==
    ASSUME plan' = plan
    PROVE  \A t : IteratorInv(t)' = IteratorInv(t)
<1>1. /\ Lists' = Lists /\ N' = N /\ Iterators' = Iterators /\ IteratorTotal' = IteratorTotal
  BY PlanStays, TotalStays
<1>2. \A t : RamInv(t)' = RamInv(t)
  BY <1>1 DEF RamInv
<1>3. \A t : ForkInv(t)' = ForkInv(t)
  BY <1>1 DEF ForkInv
<1>4. \A t, k : Waits(t, k)' = Waits(t, k)
  <2>1. \A k, i : D(k, i)' = D(k, i)
    BY DEF D
  <2>2. \A t : IsPlace(t)' = IsPlace(t)
    BY <1>1 DEF IsPlace
  <2> QED
    BY <1>1, <2>1, <2>2 DEF Waits
<1> QED
  BY <1>1, <1>2, <1>3, <1>4 DEF IteratorInv

LEMMA ReadyStays ==
    ASSUME plan' = plan
    PROVE  \A g, h, c, i : Ready(g, h, c, i)' = Ready(g, h, c, i)
<1>1. /\ Rounds' = Rounds /\ NumRequests' = NumRequests /\ Iterators' = Iterators
      /\ AllOnce' = AllOnce /\ DueBefore' = DueBefore /\ HasPayloads' = HasPayloads
      /\ Lists' = Lists
  BY PlanStays, TotalStays, DueStays
<1>2. \A k : Combination(k)' = Combination(k) /\ Due(k)' = Due(k) /\ OnceUpTo(k)' = OnceUpTo(k)
  BY PlanStays, TotalStays, DueStays
<1>3. Gens' = Gens
  BY <1>1, <1>2 DEF Gens, Values
<1>4. \A g, c : Loaded(g, c)' = Loaded(g, c)
  BY <1>1, <1>2, <1>3, IteratorStays DEF Loaded
<1> SUFFICES ASSUME NEW g, NEW h, NEW c, NEW i
             PROVE  Ready(g, h, c, i)' = Ready(g, h, c, i)
  OBVIOUS
<1>5. /\ Loaded(g, c)' = Loaded(g, c) /\ AllOnce' = AllOnce
      /\ (c \in 0..(Rounds - 1))' = (c \in 0..(Rounds - 1))
      /\ (i \in 1..(NumRequests + 1))' = (i \in 1..(NumRequests + 1))
  BY <1>1, <1>4
<1>6. (OnceUpTo(IF c = 0 THEN i - 1 ELSE NumRequests))'
          = OnceUpTo(IF c = 0 THEN i - 1 ELSE NumRequests)
  BY <1>1, <1>2
<1>7. (DueBefore[c] \o Due(c)[i - 1])' = DueBefore[c] \o Due(c)[i - 1]
  BY <1>1, <1>2
<1> QED
  BY <1>5, <1>6, <1>7, Zenon DEF Ready

\* Where the generator is ready, what it handed out starts what is expected.
LEMMA ReadyStarts ==
    ASSUME plan \in Plans, NEW g, NEW h, NEW c, NEW i, Ready(g, h, c, i)
    PROVE  h \in Seq(Items) /\ Len(h) <= Len(Expected) /\ h = SubSeq(Expected, 1, Len(h))
<1>1. c \in 0..(Rounds - 1) /\ i - 1 \in 0..NumRequests /\ h = DueBefore[c] \o Due(c)[i - 1]
  BY RoundsOf DEF Ready
<1>2. h \in Seq(Items) /\ Starts(h, Expected)
  BY <1>1, SoFar
<1>3. Expected \in Seq(Items)
  <2>1. Rounds \in 0..Rounds
    BY RoundsOf
  <2> QED
    BY <2>1, DueBeforeOf DEF Expected
<1> QED
  BY <1>2, <1>3, StartsIs, Zenon

LEMMA SentInit ==
    ASSUME GenInit
    PROVE  SentInv
BY DEF GenInit, SentInv

LEMMA SentNext ==
    ASSUME SentInv, [GenNext]_genVars
    PROVE  SentInv'
<1>1. plan' = plan /\ plan \in Plans
  BY DEF SentInv, GenNext, NextRequest, RequestDone, MakeFails, SkipFurther, ExecuteRequest,
         genVars
<1>2. /\ NewGenerator' = NewGenerator /\ Expected' = Expected /\ Rounds' = Rounds
      /\ IteratorTotal' = IteratorTotal /\ AllOnce' = AllOnce
  BY <1>1, PlanStays, TotalStays, DueStays
<1>3. \A g, h, c, i : Ready(g, h, c, i)' = Ready(g, h, c, i)
  BY <1>1, ReadyStays
<1>4. CASE NextRequest
  <2> DEFINE v == NextValue(gen)
  <2>1. Advances(gen, handed)
    <3>1. CASE gen = NewGenerator /\ handed = <<>>
      BY <1>1, <3>1, NextFirst
    <3>2. CASE Serving
      BY <1>1, <3>2, NextServed DEF Serving
    <3> QED
      BY <1>4, <3>1, <3>2 DEF SentInv, NextRequest
  <2>2. /\ gen' = v.gen
        /\ \/ /\ v.gen.panic
              /\ phase' = "panic"
              /\ handed' = handed
           \/ /\ ~v.gen.panic /\ v.found = 0
              /\ phase' = "exhausted"
              /\ handed' = handed
           \/ /\ ~v.gen.panic /\ v.found # 0
              /\ phase' \in {"execute", "stopped"}
              /\ handed' = Append(handed, <<v.found, v.gen.payloads>>)
    BY <1>4 DEF NextRequest
  <2> HIDE DEF v
  <2>3. CASE /\ v.gen.panic = TRUE
             /\ handed = Expected /\ plan.attack = "batteringram" /\ IteratorTotal = 1 /\ AllOnce
    BY <1>1, <1>2, <2>2, <2>3 DEF SentInv
  <2>4. CASE v.gen.panic = FALSE /\ v.found = 0 /\ handed = Expected
    BY <1>1, <1>2, <2>2, <2>4 DEF SentInv
  <2>5. CASE /\ v.gen.panic = FALSE /\ v.found # 0 /\ v.gen.index # 1
             /\ \E c \in 0..(Rounds - 1) :
                   Ready(v.gen, Append(handed, <<v.found, v.gen.payloads>>), c, v.gen.index)
    <3>1. /\ gen' = v.gen /\ handed' = Append(handed, <<v.found, v.gen.payloads>>)
          /\ phase' \in {"execute", "stopped"}
      BY <2>2, <2>5
    <3>2. PICK c \in 0..(Rounds - 1) : Ready(gen', handed', c, gen'.index)
      BY <2>5, <3>1
    <3>3. Serving'
      BY <1>2, <1>3, <2>5, <3>1, <3>2 DEF Serving
    <3> QED
      BY <1>1, <3>1, <3>3 DEF SentInv
  <2> QED
    BY <2>1, <2>3, <2>4, <2>5 DEF Advances, v
<1>5. CASE UNCHANGED <<gen, handed>>
  <2>1. Serving => Serving'
    BY <1>2, <1>3, <1>5 DEF Serving
  <2>2. CASE RequestDone
    BY <1>1, <2>1, <2>2 DEF SentInv, RequestDone
  <2>3. CASE MakeFails \/ SkipFurther
    BY <1>1, <2>1, <2>3 DEF SentInv, MakeFails, SkipFurther
  <2>4. CASE ExecuteRequest
    <3>1. phase = "execute" /\ phase' \in {"execute", "stopped"}
      BY <2>4 DEF ExecuteRequest
    <3> QED
      BY <1>1, <2>1, <3>1 DEF SentInv
  <2>5. CASE UNCHANGED genVars
    BY <1>1, <1>2, <1>5, <2>1, <2>5 DEF SentInv, genVars
  <2>6. CASE NextRequest
    BY <1>4, <2>6
  <2> QED
    BY <2>2, <2>3, <2>4, <2>5, <2>6 DEF GenNext
<1> QED
  BY <1>4, <1>5 DEF GenNext, RequestDone, MakeFails, SkipFurther, ExecuteRequest, genVars

\* The progress is told of every request that was handed out.
LEMMA CountInit ==
    ASSUME GenInit
    PROVE  CountInv
BY DEF GenInit, CountInv

LEMMA CountNext ==
    ASSUME SentInv, CountInv, [GenNext]_genVars
    PROVE  CountInv'
<1>1. plan' = plan /\ plan \in Plans
  BY DEF SentInv, GenNext, NextRequest, RequestDone, MakeFails, SkipFurther, ExecuteRequest,
         genVars
<1>2. /\ dynamic \in 0..2 /\ (~plan.iterate => dynamic = 1)
      /\ runs \in Nat /\ counted \in Nat
      /\ ~plan.iterate => /\ phase \in {"next", "exhausted"} => counted = Len(handed)
                          /\ phase = "execute" => counted + runs = Len(handed)
  BY DEF CountInv
<1>3. CASE NextRequest
  <2> DEFINE v == NextValue(gen)
             e == <<v.found, v.gen.payloads>>
  <2>1. phase = "next" /\ dynamic' = dynamic /\ counted' = counted
    BY <1>3 DEF NextRequest
  <2>2. \/ /\ phase' \in {"panic", "exhausted"}
           /\ runs' = runs /\ handed' = handed
        \/ /\ phase' \in {"execute", "stopped"}
           /\ runs' = dynamic /\ handed' = Append(handed, e)
    BY <1>3 DEF NextRequest
  <2> HIDE DEF e
  <2>3. CASE phase' \in {"panic", "exhausted"} /\ runs' = runs /\ handed' = handed
    BY <1>1, <1>2, <2>1, <2>3 DEF CountInv
  <2>4. CASE phase' \in {"execute", "stopped"} /\ runs' = dynamic /\ handed' = Append(handed, e)
    <3>1. \E S : handed \in Seq(S)
      <4>1. CASE handed = <<>>
        <5>1. handed \in Seq({})
          BY <4>1
        <5> QED
          BY <5>1
      <4>2. CASE Serving
        BY <1>1, <4>2, ReadyStarts DEF Serving
      <4> QED
        BY <2>1, <4>1, <4>2 DEF SentInv
    <3>2. Len(handed') = Len(handed) + 1 /\ Len(handed) \in Nat
      <4>1. PICK S : handed \in Seq(S)
        BY <3>1
      <4> QED
        BY <2>4, <4>1
    <3>3. phase' \notin {"next", "exhausted"}
      BY <2>4
    <3>4. ~plan.iterate => counted' + runs' = Len(handed')
      BY <1>2, <2>1, <2>4, <3>2
    <3>5. runs' \in Nat
      BY <1>2, <2>4
    <3> QED
      BY <1>1, <1>2, <2>1, <3>3, <3>4, <3>5 DEF CountInv
  <2> QED
    BY <2>2, <2>3, <2>4
<1>4. CASE RequestDone
  <2>1. /\ phase = "execute" /\ runs = 0 /\ phase' = "next"
        /\ UNCHANGED <<plan, runs, dynamic, handed, counted>>
    BY <1>4 DEF RequestDone
  <2>2. ~plan.iterate => counted = Len(handed)
    BY <1>2, <2>1
  <2> QED
    BY <1>2, <2>1, <2>2 DEF CountInv
<1>5. CASE MakeFails
  <2>1. /\ phase = "execute" /\ phase' = "stopped" /\ counted' = counted + GeneratorTotal
        /\ UNCHANGED <<plan, runs, dynamic, handed>>
    BY <1>5 DEF MakeFails
  <2>2. Rounds \in Nat /\ NumRequests \in Nat /\ (HasPayloads => Rounds = IteratorTotal)
    BY <1>1, RoundsOf
  <2>3. HasPayloads => IteratorTotal - gen.iterator.position \in Nat
    <3>1. PICK c \in 0..(Rounds - 1) : Loaded(gen, c)
      BY <2>1 DEF SentInv, Serving, Ready
    <3>2. HasPayloads => gen.iterator.position = c + 1
      BY <3>1 DEF Loaded
    <3> QED
      BY <2>2, <3>2
  <2>4. GeneratorTotal \in Nat
    <3>1. \A m, n \in Nat : m * n \in Nat
      OBVIOUS
    <3>2. (IF plan.raw THEN NumRequests ELSE 0) \in Nat
      BY <2>2
    <3> QED
      BY <2>2, <2>3, <3>1, <3>2 DEF GeneratorTotal
  <2> QED
    BY <1>2, <2>1, <2>4 DEF CountInv
<1>6. CASE SkipFurther
  BY <1>1, <1>2, <1>6 DEF CountInv, SkipFurther
<1>7. CASE ExecuteRequest
  <2>1. /\ phase = "execute" /\ runs > 0 /\ runs' = runs - 1 /\ counted' = counted + 1
        /\ phase' \in {"execute", "stopped"}
        /\ dynamic' \in 0..2 /\ (~plan.iterate => dynamic' = dynamic)
        /\ handed' = handed
    BY <1>2, <1>7 DEF ExecuteRequest
  <2>2. runs' \in Nat /\ counted' \in Nat /\ counted' + runs' = counted + runs
    BY <1>2, <2>1
  <2> QED
    BY <1>1, <1>2, <2>1, <2>2 DEF CountInv
<1>8. CASE UNCHANGED genVars
  BY <1>1, <1>2, <1>8 DEF CountInv, genVars
<1> QED
  BY <1>3, <1>4, <1>5, <1>6, <1>7, <1>8 DEF GenNext

\* Without @once requests every combination comes with every request.
LEMMA AllRounds ==
    ASSUME plan \in Plans, \A r \in 1..NumRequests : ~plan.once[r]
    PROVE  Len(Expected) = NumRequests * Rounds
<1>1. Rounds \in Nat /\ NumRequests \in Nat
  BY RoundsOf
<1>2. ASSUME NEW k \in 0..(Rounds - 1) PROVE Len(Due(k)[NumRequests]) = NumRequests
  <2> DEFINE T == {r \in 0..NumRequests : Len(Due(k)[r]) = r}
  <2>1. 0 \in T
    <3>1. Due(k)[0] = <<>>
      BY DueOf
    <3> QED
      BY <1>1, <3>1
  <2>2. ASSUME NEW r \in 0..(NumRequests - 1), r \in T PROVE r + 1 \in T
    <3> DEFINE x == r + 1
               s == Due(k)[r]
               e == <<x, Combination(k)>>
    <3>1. x \in 1..NumRequests /\ x \in 0..NumRequests /\ x - 1 = r /\ r \in 0..NumRequests
      BY <1>1
    <3> HIDE DEF x
    <3>2. Due(k)[x] = Append(s, e) /\ s \in Seq(Items)
      <4>1. ~plan.once[x]
        BY <3>1
      <4>2. Due(k)[x] = Append(Due(k)[x - 1], e)
        BY <3>1, <4>1, DueOf
      <4>3. s \in Seq(Items)
        <5>1. Due(k) \in [0..NumRequests -> Seq(Items)]
          BY DueOf
        <5> QED
          BY <3>1, <5>1
      <4> QED
        BY <3>1, <4>2, <4>3
    <3> HIDE DEF s, e
    <3>3. Len(Append(s, e)) = Len(s) + 1
      BY <3>2
    <3>4. Len(s) = r
      BY <2>2 DEF s
    <3>5. x \in T
      BY <3>1, <3>2, <3>3, <3>4 DEF x
    <3> QED
      BY <3>5 DEF x
  <2> HIDE DEF T
  <2>3. NumRequests \in T
    BY <1>1, <2>1, <2>2, UpTo
  <2> QED
    BY <2>3 DEF T
<1> DEFINE T == {k \in 0..Rounds : Len(DueBefore[k]) = NumRequests * k}
<1>3. 0 \in T
  <2>1. DueBefore[0] = <<>> /\ NumRequests * 0 = 0
    BY <1>1, DueBeforeOf
  <2> QED
    BY <1>1, <2>1
<1>4. ASSUME NEW k \in 0..(Rounds - 1), k \in T PROVE k + 1 \in T
  <2> DEFINE x == k + 1
             s == DueBefore[k]
             t == Due(k)[NumRequests]
  <2>1. x \in 1..Rounds /\ x \in 0..Rounds /\ x - 1 = k /\ k \in 0..Rounds
        /\ NumRequests \in 0..NumRequests
    BY <1>1
  <2>2. NumRequests * (k + 1) = NumRequests * k + NumRequests
    BY <1>1
  <2> HIDE DEF x
  <2>3. DueBefore[x] = s \o t /\ s \in Seq(Items) /\ t \in Seq(Items)
    <3>1. DueBefore[x] = DueBefore[x - 1] \o Due(x - 1)[NumRequests]
      BY <2>1, DueBeforeOf
    <3>2. s \in Seq(Items)
      BY <2>1, DueBeforeOf
    <3>3. t \in Seq(Items)
      BY <2>1, DueOf
    <3> QED
      BY <2>1, <3>1, <3>2, <3>3
  <2>4. Len(s) = NumRequests * k /\ Len(t) = NumRequests
    BY <1>2, <1>4
  <2> HIDE DEF s, t
  <2>5. Len(s \o t) = Len(s) + Len(t)
    BY <2>3
  <2>6. Len(DueBefore[x]) = NumRequests * x
    BY <2>2, <2>3, <2>4, <2>5 DEF x
  <2>7. x \in T
    BY <2>1, <2>6
  <2> QED
    BY <2>7 DEF x
<1> HIDE DEF T
<1>5. 0..Rounds \subseteq T
  BY <1>1, <1>3, <1>4, UpTo
<1>6. Rounds \in T
  BY <1>1, <1>5
<1> QED
  BY <1>6 DEF T, Expected

\* What ExecuteWithResults takes from the generator, in any run of it: every
\* request with every combination of the payloads, in order, @once requests
\* with the first one only, and the iterator is asked behind its end in one
\* case alone.
THEOREM AllSentAsPlanned == GenSpec => []SentAsPlanned
<1>1. GenInit => SentInv
  BY SentInit
<1>2. SentInv /\ [GenNext]_genVars => SentInv'
  BY SentNext
<1>3. SentInv => SentAsPlanned
  <2> SUFFICES ASSUME SentInv PROVE SentAsPlanned
    OBVIOUS
  <2>1. plan \in Plans
    BY DEF SentInv
  <2>2. Expected \in Seq(Items) /\ Len(Expected) \in Nat
    <3>1. Rounds \in 0..Rounds
      BY <2>1, RoundsOf
    <3>2. Expected \in Seq(Items)
      BY <2>1, <3>1, DueBeforeOf DEF Expected
    <3> QED
      BY <3>2
  <2>3. Len(handed) <= Len(Expected) /\ handed = SubSeq(Expected, 1, Len(handed))
    <3>1. CASE handed = <<>>
      BY <2>2, <3>1
    <3>2. CASE Serving
      BY <2>1, <3>2, ReadyStarts DEF Serving
    <3>3. CASE handed = Expected
      <4>1. SubSeq(Expected, 1, Len(Expected)) = Expected
        BY <2>2
      <4> QED
        BY <2>2, <3>3, <4>1
    <3> QED
      BY <3>1, <3>2, <3>3 DEF SentInv
  <2> QED
    BY <2>3 DEF SentInv, SentAsPlanned, AllOnce
<1> QED
  BY <1>1, <1>2, <1>3, PTL DEF GenSpec

\* A template that ran through all its requests was counted as often as
\* Request.Requests announced to the progress.
THEOREM AllRequestsCounted == GenSpec => []ProgressAccounted
<1>1. GenInit => SentInv /\ CountInv
  BY SentInit, CountInit
<1>2. SentInv /\ CountInv /\ [GenNext]_genVars => SentInv' /\ CountInv'
  BY SentNext, CountNext
<1>3. SentInv /\ CountInv => ProgressAccounted
  <2> SUFFICES ASSUME SentInv, CountInv, phase = "exhausted", ~plan.iterate,
                      \A r \in 1..NumRequests : ~plan.once[r]
               PROVE  counted = RequestsTotal
    BY DEF ProgressAccounted
  <2>1. plan \in Plans /\ handed = Expected /\ counted = Len(handed)
    BY DEF SentInv, CountInv
  <2>2. Len(Expected) = NumRequests * Rounds
    BY <2>1, AllRounds
  <2> QED
    BY <2>1, <2>2 DEF RequestsTotal, Rounds
<1> QED
  BY <1>1, <1>2, <1>3, PTL DEF GenSpec
=============================================================================
