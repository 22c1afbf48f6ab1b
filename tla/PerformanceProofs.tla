-------------------------- MODULE PerformanceProofs --------------------------
(***************************************************************************)
(* Theorems about PerformanceAnalytics, for every sequence of equities:    *)
(* what update keeps in a handful of numbers is what the whole history     *)
(* says.                                                                   *)
(***************************************************************************)
EXTENDS PerformanceAnalytics, FiniteSetTheorems, TLAPS

-----------------------------------------------------------------------------
(* The greatest common divisor.                                            *)

(* Induction on the naturals: a set that holds 0 and, with a number, the   *)
(* next one holds them all.                                                *)
LEMMA CountingUp ==
    ASSUME NEW T, 0 \in T, \A n \in Nat : n \in T => n + 1 \in T
    PROVE  Nat \subseteq T
  <1> DEFINE Missing == Nat \ T
             R == OpToRel(<, Nat)
  <1> SUFFICES ASSUME Missing # {} PROVE FALSE
    OBVIOUS
  <1>1. IsWellFoundedOn(R, Nat)
    BY NatLessThanWellFounded
  <1> HIDE DEF R
  <1>2. PICK n \in Missing : \A m \in Missing : ~ (<<m, n>> \in R)
    BY <1>1, WFMin
  <1>3. n - 1 \in Nat /\ n - 1 + 1 = n
    BY <1>2
  <1>4. <<n - 1, n>> \in R
    BY <1>2, <1>3 DEF R, OpToRel
  <1> QED
    BY <1>2, <1>3, <1>4

(* g does Euclid's steps on the pairs whose second number is at most n. *)
Euclid(g, n) ==
    g = [p \in Nat \X (0 .. n) |-> IF p[2] = 0 THEN p[1] ELSE g[<<p[2], p[1] % p[2]>>]]

(* A step goes to a pair with a smaller second number. *)
LEMMA StepDown ==
    ASSUME NEW n \in Nat, NEW p \in Nat \X (0 .. n + 1), p[2] # 0
    PROVE  <<p[2], p[1] % p[2]>> \in Nat \X (0 .. n)
  <1>1. p[1] \in Nat /\ p[2] \in 0 .. n + 1
    OBVIOUS
  <1>2. p[1] % p[2] \in 0 .. p[2] - 1
    BY <1>1
  <1> QED
    BY <1>1, <1>2

(* Such a function exists for every n. *)
LEMMA EuclidUpTo ==
    ASSUME NEW n \in Nat
    PROVE  \E g : Euclid(g, n)
  <1> DEFINE T == {k \in Nat : \E g : Euclid(g, k)}
  <1>1. 0 \in T
    <2> DEFINE g == [p \in Nat \X (0 .. 0) |-> p[1]]
    <2>1. Euclid(g, 0)
      BY DEF Euclid
    <2> QED
      BY <2>1
  <1>2. ASSUME NEW k \in Nat, k \in T
        PROVE  k + 1 \in T
    <2>1. PICK g : Euclid(g, k)
      BY <1>2
    <2> DEFINE h == [p \in Nat \X (0 .. k + 1) |->
                        IF p[2] = 0 THEN p[1] ELSE g[<<p[2], p[1] % p[2]>>]]
    <2>2. \A p \in Nat \X (0 .. k) : h[p] = g[p]
      BY <2>1 DEF Euclid
    <2>3. \A p \in Nat \X (0 .. k + 1) :
              p[2] # 0 => h[<<p[2], p[1] % p[2]>>] = g[<<p[2], p[1] % p[2]>>]
      BY <2>2, StepDown
    <2>4. h = [p \in Nat \X (0 .. k + 1) |->
                        IF p[2] = 0 THEN p[1] ELSE h[<<p[2], p[1] % p[2]>>]]
      BY <2>3
    <2>5. Euclid(h, k + 1)
      BY <2>4 DEF Euclid
    <2> QED
      BY <2>5
  <1> HIDE DEF T
  <1>3. n \in T
    BY <1>1, <1>2, CountingUp
  <1> QED
    BY <1>3 DEF T

(* Two of them agree where both are defined. *)
LEMMA EuclidsAgree ==
    ASSUME NEW m \in Nat, NEW n \in Nat, NEW g, NEW h, Euclid(g, m), Euclid(h, n),
           NEW p \in Nat \X (0 .. m), p[2] <= n
    PROVE  g[p] = h[p]
  <1> DEFINE T == {k \in Nat : k <= m /\ k <= n =>
                      \A q \in Nat \X (0 .. k) : g[q] = h[q]}
  <1>1. 0 \in T
    BY DEF Euclid
  <1>2. ASSUME NEW k \in Nat, k \in T
        PROVE  k + 1 \in T
    <2> SUFFICES ASSUME k + 1 <= m, k + 1 <= n, NEW q \in Nat \X (0 .. k + 1)
                 PROVE  g[q] = h[q]
      OBVIOUS
    <2>1. q \in Nat \X (0 .. m) /\ q \in Nat \X (0 .. n)
      OBVIOUS
    <2>2. CASE q[2] = 0
      BY <2>1, <2>2 DEF Euclid
    <2>3. CASE q[2] # 0
      <3> DEFINE r == <<q[2], q[1] % q[2]>>
      <3>1. g[q] = g[r] /\ h[q] = h[r]
        BY <2>1, <2>3 DEF Euclid
      <3>2. r \in Nat \X (0 .. k)
        BY <2>3, StepDown
      <3>3. \A s \in Nat \X (0 .. k) : g[s] = h[s]
        BY <1>2
      <3> HIDE DEF r
      <3> QED
        BY <3>1, <3>2, <3>3
    <2> QED
      BY <2>2, <2>3
  <1>3. p[2] \in Nat /\ p[2] <= m /\ p \in Nat \X (0 .. p[2])
    OBVIOUS
  <1> HIDE DEF T
  <1>4. p[2] \in T
    BY <1>1, <1>2, <1>3, CountingUp
  <1> QED
    BY <1>3, <1>4 DEF T

(* gcd does Euclid's steps on all pairs. *)
LEMMA GcdUnfolds ==
    gcd = [p \in Nat \X Nat |-> IF p[2] = 0 THEN p[1] ELSE gcd[<<p[2], p[1] % p[2]>>]]
  <1> DEFINE Unfolds(g) ==
                g = [p \in Nat \X Nat |-> IF p[2] = 0 THEN p[1] ELSE g[<<p[2], p[1] % p[2]>>]]
             At(n) == CHOOSE g : Euclid(g, n)
             G == [p \in Nat \X Nat |-> At(p[2])[p]]
  <1>1. \A n \in Nat : Euclid(At(n), n)
    BY EuclidUpTo
  <1> HIDE DEF At
  <1>2. ASSUME NEW p \in Nat \X Nat
        PROVE  G[p] = IF p[2] = 0 THEN p[1] ELSE G[<<p[2], p[1] % p[2]>>]
    <2>1. p[1] \in Nat /\ p[2] \in Nat /\ p \in Nat \X (0 .. p[2])
      OBVIOUS
    <2>2. Euclid(At(p[2]), p[2])
      BY <1>1, <2>1
    <2>3. G[p] = At(p[2])[p]
      OBVIOUS
    <2>4. CASE p[2] = 0
      BY <2>1, <2>2, <2>3, <2>4 DEF Euclid
    <2>5. CASE p[2] # 0
      <3> DEFINE r == <<p[2], p[1] % p[2]>>
      <3>1. p[1] % p[2] \in Nat /\ p[1] % p[2] <= p[2]
        BY <2>1, <2>5
      <3>2. r \in Nat \X Nat /\ r \in Nat \X (0 .. p[2]) /\ r \in Nat \X (0 .. r[2])
            /\ r[2] \in Nat /\ r[2] <= p[2]
        BY <2>1, <3>1
      <3>3. At(p[2])[p] = At(p[2])[r]
        BY <2>1, <2>2, <2>5 DEF Euclid
      <3>4. G[r] = At(r[2])[r]
        BY <3>2
      <3> HIDE DEF r, G
      <3>5. Euclid(At(r[2]), r[2])
        BY <1>1, <3>2
      <3>6. At(p[2])[r] = At(r[2])[r]
        BY <2>1, <2>2, <3>2, <3>5, EuclidsAgree
      <3>7. G[p] = G[r]
        BY <2>3, <3>3, <3>4, <3>6
      <3> QED
        BY <2>5, <3>7 DEF r
    <2> QED
      BY <2>4, <2>5
  <1>3. Unfolds(G)
    BY <1>2
  <1>4. gcd = CHOOSE g : Unfolds(g)
    BY DEF gcd
  <1> HIDE DEF Unfolds, G
  <1>5. Unfolds(gcd)
    BY <1>3, <1>4
  <1> QED
    BY <1>5 DEF Unfolds

(* What is equal k times, k not 0, is equal. *)
LEMMA Cancel ==
    ASSUME NEW a \in Int, NEW b \in Int, NEW k \in Int, k # 0, a * k = b * k
    PROVE  a = b
  <1>1. (a - b) * k = 0
    OBVIOUS
  <1> QED
    BY <1>1

(* A multiple of g, divided by g. *)
LEMMA DivExact ==
    ASSUME NEW x \in Int, NEW g \in Nat \ {0}
    PROVE  (g * x) \div g = x
  <1> DEFINE d == (g * x) \div g
  <1>1. g * x \in Int
    OBVIOUS
  <1>2. d \in Int /\ g * d <= g * x /\ g * x < g * d + g
    <2> DEFINE p == g * x
    <2> HIDE DEF p
    <2>1. \A n \in Int : /\ n \div g \in Int
                         /\ g * (n \div g) <= n
                         /\ n < g * (n \div g) + g
      OBVIOUS
    <2> QED
      BY <1>1, <2>1
  <1> HIDE DEF d
  <1>3. g * (x - d) >= 0 /\ g * (x - d) < g
    <2>1. g * (x - d) = g * x - g * d
      BY <1>2
    <2>2. g * x \in Int /\ g * d \in Int
      BY <1>2
    <2> QED
      BY <1>2, <2>1, <2>2
  <1> DEFINE e == x - d
  <1>4. e \in Int /\ g * e >= 0 /\ g * e < g
    BY <1>2, <1>3
  <1> HIDE DEF e
  <1>5. e = 0
    <2>1. ASSUME e >= 1 PROVE FALSE
      <3>1. g * (e - 1) >= 0
        BY <1>4, <2>1
      <3>2. g * (e - 1) = g * e - g
        BY <1>4
      <3> QED
        BY <1>4, <3>1, <3>2
    <2>2. ASSUME e <= -1 PROVE FALSE
      <3>1. g * (-e - 1) >= 0
        BY <1>4, <2>2
      <3>2. g * (-e - 1) = -(g * e) - g
        BY <1>4
      <3> QED
        BY <1>4, <3>1, <3>2
    <2> QED
      BY <1>4, <2>1, <2>2
  <1> QED
    BY <1>2, <1>5 DEF e, d

(* g divides a and b and is a combination of the two. *)
Common(a, b, g) ==
    /\ g \in Nat
    /\ \E x, y \in Nat : a = g * x /\ b = g * y
    /\ \E u, v \in Int : g = u * a + v * b

(* Euclid's step keeps that. *)
LEMMA CommonStep ==
    ASSUME NEW a \in Nat, NEW b \in Nat \ {0}, NEW g, Common(b, a % b, g)
    PROVE  Common(a, b, g)
  <1> DEFINE q == a \div b
             r == a % b
  <1>1. q \in Nat /\ r \in Nat /\ a = b * q + r
    OBVIOUS
  <1>2. PICK x \in Nat, y \in Nat : b = g * x /\ r = g * y
    BY DEF Common
  <1>3. PICK u \in Int, v \in Int : g = u * b + v * r
    BY DEF Common
  <1>4. g \in Nat
    BY DEF Common
  <1> HIDE DEF q, r
  <1>5. x * q + y \in Nat /\ a = g * (x * q + y)
    <2>1. x * q \in Nat
      BY <1>1
    <2>2. b * q = g * (x * q)
      BY <1>1, <1>2, <1>4
    <2>3. g * (x * q + y) = g * (x * q) + g * y
      BY <1>1, <1>4, <2>1
    <2> QED
      BY <1>1, <1>2, <2>1, <2>2, <2>3
  <1>6. u - v * q \in Int /\ g = v * a + (u - v * q) * b
    <2>1. v * q \in Int
      BY <1>1
    <2>2. v * (b * q + r) + (u - v * q) * b = u * b + v * r
      BY <1>1
    <2> QED
      BY <1>1, <1>3, <2>1, <2>2
  <1> QED
    BY <1>2, <1>4, <1>5, <1>6 DEF Common

(* So gcd divides both its arguments and is a combination of them. *)
LEMMA GcdCommon ==
    ASSUME NEW a \in Nat, NEW b \in Nat
    PROVE  Common(a, b, gcd[<<a, b>>])
  <1> DEFINE T == {k \in Nat : \A m \in Nat, n \in 0 .. k : Common(m, n, gcd[<<m, n>>])}
  <1>1. ASSUME NEW m \in Nat PROVE Common(m, 0, gcd[<<m, 0>>])
    <2>1. gcd[<<m, 0>>] = m
      BY GcdUnfolds
    <2>2. m = m * 1 /\ 0 = m * 0 /\ m = 1 * m + 0 * 0
      OBVIOUS
    <2> QED
      BY <2>1, <2>2 DEF Common
  <1>2. 0 \in T
    BY <1>1
  <1>3. ASSUME NEW k \in Nat, k \in T
        PROVE  k + 1 \in T
    <2> SUFFICES ASSUME NEW m \in Nat, NEW n \in 0 .. k + 1
                 PROVE  Common(m, n, gcd[<<m, n>>])
      OBVIOUS
    <2>1. CASE n = 0
      BY <1>1, <2>1
    <2>2. CASE n # 0
      <3>1. m % n \in 0 .. k /\ n \in Nat \ {0}
        BY <2>2
      <3>2. gcd[<<m, n>>] = gcd[<<n, m % n>>]
        BY <2>2, GcdUnfolds
      <3>3. Common(n, m % n, gcd[<<n, m % n>>])
        BY <1>3, <3>1
      <3> QED
        BY <3>1, <3>2, <3>3, CommonStep
    <2> QED
      BY <2>1, <2>2
  <1> HIDE DEF T
  <1>4. b \in T
    BY <1>2, <1>3, CountingUp
  <1> QED
    BY <1>4 DEF T

-----------------------------------------------------------------------------
(* Fractions.                                                              *)

(* A fraction in lowest terms: 1 is a combination of its two numbers. *)
Lowest(x) == x \in Rational /\ \E u, v \in Int : u * x.num + v * x.den = 1

(* The fraction x has the value p / q. *)
Is(x, p, q) == x.num * q = p * x.den

(* A quotient of integers is in lowest terms and has the value it should. *)
LEMMA RatioLowest ==
    ASSUME NEW n \in Int, NEW d \in Int, d # 0
    PROVE  Lowest(Ratio(n, d)) /\ Is(Ratio(n, d), n, d)
  <1> DEFINE g == gcd[<<AbsOf(n), AbsOf(d)>>]
             sign == IF d < 0 THEN -1 ELSE 1
             r == Ratio(n, d)
  <1>1. AbsOf(n) \in Nat /\ AbsOf(d) \in Nat /\ AbsOf(d) = sign * d /\ sign * sign = 1
        /\ sign \in Int /\ AbsOf(d) # 0
    BY DEF AbsOf
  <1>2. Common(AbsOf(n), AbsOf(d), g)
    BY <1>1, GcdCommon
  <1>3. r = IF g = 0 THEN [num |-> 0, den |-> 0]
            ELSE [num |-> sign * (n \div g), den |-> AbsOf(d) \div g]
    BY DEF Ratio
  <1>4. PICK x0 \in Nat, y \in Nat : AbsOf(n) = g * x0 /\ AbsOf(d) = g * y
    BY <1>2 DEF Common
  <1>5. PICK u0 \in Int, v \in Int : g = u0 * AbsOf(n) + v * AbsOf(d)
    BY <1>2 DEF Common
  <1>6. g \in Nat
    BY <1>2 DEF Common
  <1> HIDE DEF g, sign, r
  <1>7. g # 0 /\ y # 0
    BY <1>1, <1>4, <1>6
  <1> DEFINE s == IF n < 0 THEN -1 ELSE 1
  <1>8. s \in Int /\ s * s = 1 /\ AbsOf(n) = s * n /\ n = s * AbsOf(n)
    BY DEF AbsOf
  <1> HIDE DEF s
  <1> DEFINE x == s * x0
             u == u0 * s
  <1>9. x \in Int /\ u \in Int /\ n = g * x
    <2>1. s * (g * x0) = g * (s * x0)
      BY <1>6, <1>8
    <2> QED
      BY <1>4, <1>8, <2>1
  <1>10. u * n = u0 * AbsOf(n)
    BY <1>8
  <1> HIDE DEF x, u
  <1>11. n \div g = x /\ AbsOf(d) \div g = y
    BY <1>4, <1>6, <1>7, <1>9, DivExact
  <1>12. r = [num |-> sign * x, den |-> y]
    BY <1>3, <1>7, <1>11
  <1>13. sign * x \in Int /\ r.num = sign * x /\ r.den = y /\ r \in Rational
    <2>1. sign * x \in Int
      BY <1>1, <1>9
    <2> QED
      BY <1>7, <1>12, <2>1 DEF Rational
  <1>14. Is(r, n, d)
    <2>1. (sign * x) * d = x * (sign * d)
      BY <1>1, <1>9
    <2>2. x * (g * y) = (g * x) * y
      BY <1>6, <1>9
    <2> QED
      BY <1>1, <1>4, <1>9, <1>13, <2>1, <2>2 DEF Is
  <1>15. (u * sign) * (sign * x) + v * y = 1
    <2>1. (u * sign) * (sign * x) = (sign * sign) * (u * x)
      BY <1>1, <1>9
    <2>2. u * x \in Int /\ v * y \in Int
      BY <1>9
    <2>3. (u * sign) * (sign * x) = u * x
      BY <1>1, <2>1, <2>2
    <2>4. (u * x + v * y) * g = u * (g * x) + v * (g * y)
      BY <1>6, <1>9
    <2>5. (u * x + v * y) * g = 1 * g
      BY <1>4, <1>5, <1>6, <1>9, <1>10, <2>4
    <2>6. u * x + v * y = 1
      BY <1>6, <1>7, <2>2, <2>5, Cancel
    <2> QED
      BY <2>3, <2>6
  <1>16. u * sign \in Int
    BY <1>1, <1>9
  <1>17. Lowest(r)
    BY <1>13, <1>15, <1>16 DEF Lowest
  <1> QED
    BY <1>14, <1>17 DEF r


(* x's denominator divides that of every fraction with the same value. *)
LEMMA LowestDivides ==
    ASSUME NEW x, Lowest(x), NEW y \in Rational, x.num * y.den = y.num * x.den
    PROVE  \E k \in Nat : y.den = x.den * k
  <1>1. PICK u \in Int, v \in Int : u * x.num + v * x.den = 1
    BY DEF Lowest
  <1> DEFINE xn == x.num
             xd == x.den
             yn == y.num
             yd == y.den
             k == u * yn + v * yd
  <1>2. xn \in Int /\ xd \in Nat \ {0} /\ yn \in Int /\ yd \in Nat \ {0}
        /\ xn * yd = yn * xd /\ u * xn + v * xd = 1
    BY <1>1 DEF Lowest, Rational
  <1> HIDE DEF xn, xd, yn, yd
  <1>3. k \in Int
    BY <1>2
  <1>4. yd = xd * k
    <2>1. yd = (u * xn + v * xd) * yd
      BY <1>2
    <2>2. (u * xn + v * xd) * yd = u * (xn * yd) + v * (xd * yd)
      BY <1>2
    <2>3. u * (yn * xd) + v * (xd * yd) = xd * k
      BY <1>2
    <2> QED
      BY <1>2, <2>1, <2>2, <2>3
  <1> HIDE DEF k
  <1>5. k >= 0
    BY <1>2, <1>3, <1>4
  <1> QED
    BY <1>3, <1>4, <1>5 DEF xd, yd

(* Fractions in lowest terms with the same value are the same. *)
LEMMA LowestUnique ==
    ASSUME NEW x, NEW y, Lowest(x), Lowest(y), x.num * y.den = y.num * x.den
    PROVE  x = y
  <1> DEFINE xn == x.num
             xd == x.den
             yn == y.num
             yd == y.den
  <1>1. xn \in Int /\ xd \in Nat \ {0} /\ yn \in Int /\ yd \in Nat \ {0} /\ xn * yd = yn * xd
        /\ x \in Rational /\ y \in Rational
    BY DEF Lowest, Rational
  <1>2. PICK k \in Nat : yd = xd * k
    BY <1>1, LowestDivides
  <1>3. PICK l \in Nat : xd = yd * l
    BY <1>1, LowestDivides
  <1>4. xd = yd
    <2> HIDE DEF xn, xd, yn, yd
    <2>1. k > 0 /\ l > 0
      BY <1>1, <1>2, <1>3
    <2>2. yd >= xd
      <3>1. xd * (k - 1) >= 0 /\ xd * (k - 1) = xd * k - xd
        BY <1>1, <2>1
      <3> QED
        BY <1>1, <1>2, <3>1
    <2>3. xd >= yd
      <3>1. yd * (l - 1) >= 0 /\ yd * (l - 1) = yd * l - yd
        BY <1>1, <2>1
      <3> QED
        BY <1>1, <1>3, <3>1
    <2> QED
      BY <1>1, <2>2, <2>3
  <1>5. xn = yn
    <2> HIDE DEF xn, xd, yn, yd
    <2> QED
      BY <1>1, <1>4, Cancel
  <1> QED
    BY <1>1, <1>4, <1>5 DEF Rational

(* The value of a fraction can be written in many ways. *)
LEMMA Rewritten ==
    ASSUME NEW x \in Rational, NEW n \in Int, NEW d \in Int, d # 0, Is(x, n, d),
           NEW p \in Int, NEW q \in Int, n * q = p * d
    PROVE  Is(x, p, q)
  <1> DEFINE xn == x.num
             xd == x.den
  <1>1. xn \in Int /\ xd \in Int /\ xn * d = n * xd
    BY DEF Is, Rational
  <1> HIDE DEF xn, xd
  <1>2. (xn * q) * d = (p * xd) * d
    <2>1. (xn * q) * d = (xn * d) * q
      BY <1>1
    <2>2. (n * xd) * q = (n * q) * xd
      BY <1>1
    <2>3. (p * d) * xd = (p * xd) * d
      BY <1>1
    <2> QED
      BY <1>1, <2>1, <2>2, <2>3
  <1>3. xn * q \in Int /\ p * xd \in Int
    BY <1>1
  <1>4. xn * q = p * xd
    BY <1>2, <1>3, Cancel
  <1> QED
    BY <1>4 DEF Is, xn, xd

(* Two fractions in lowest terms that have the same value are the same. *)
LEMMA SameValue ==
    ASSUME NEW x, NEW y, Lowest(x), Lowest(y),
           NEW p \in Int, NEW q \in Int, q # 0, Is(x, p, q), Is(y, p, q)
    PROVE  x = y
  <1>1. y.num \in Int /\ y.den \in Int /\ x \in Rational
    BY DEF Lowest, Rational
  <1>2. p * y.den = y.num * q
    BY DEF Is
  <1>3. Is(x, y.num, y.den)
    BY <1>1, <1>2, Rewritten
  <1> QED
    BY <1>3, LowestUnique DEF Is

(* A sum and a difference of fractions over the same q. *)
LEMMA PlusIs ==
    ASSUME NEW x \in Rational, NEW y \in Rational, NEW a \in Int, NEW b \in Int,
           NEW q \in Nat \ {0}, Is(x, a, q), Is(y, b, q)
    PROVE  /\ Lowest(Plus(x, y)) /\ Is(Plus(x, y), a + b, q)
           /\ Lowest(Minus(x, y)) /\ Is(Minus(x, y), a - b, q)
  <1> DEFINE xn == x.num
             xd == x.den
             yn == y.num
             yd == y.den
             s == xn * yd + yn * xd
             t == xn * yd - yn * xd
             d == xd * yd
  <1>1. xn \in Int /\ xd \in Nat \ {0} /\ yn \in Int /\ yd \in Nat \ {0}
        /\ xn * q = a * xd /\ yn * q = b * yd
    BY DEF Rational, Is
  <1>2. Plus(x, y) = Ratio(s, d) /\ Minus(x, y) = Ratio(t, d)
    BY DEF Plus, Minus
  <1> HIDE DEF xn, xd, yn, yd
  <1>3. s \in Int /\ t \in Int /\ d \in Nat /\ d # 0
    BY <1>1
  <1>4. s * q = (a + b) * d /\ t * q = (a - b) * d
    <2>1. s * q = (xn * q) * yd + (yn * q) * xd /\ t * q = (xn * q) * yd - (yn * q) * xd
      BY <1>1
    <2>2. (a + b) * d = (a * xd) * yd + (b * yd) * xd
          /\ (a - b) * d = (a * xd) * yd - (b * yd) * xd
      BY <1>1
    <2> QED
      BY <1>1, <2>1, <2>2
  <1> HIDE DEF s, t, d
  <1>5. Lowest(Ratio(s, d)) /\ Is(Ratio(s, d), s, d) /\ Lowest(Ratio(t, d)) /\ Is(Ratio(t, d), t, d)
    BY <1>3, RatioLowest
  <1>6. Ratio(s, d) \in Rational /\ Ratio(t, d) \in Rational
    BY <1>5 DEF Lowest
  <1>7. a + b \in Int /\ a - b \in Int /\ q \in Int
    OBVIOUS
  <1>8. Is(Ratio(s, d), a + b, q) /\ Is(Ratio(t, d), a - b, q)
    BY <1>3, <1>4, <1>5, <1>6, <1>7, Rewritten
  <1> QED
    BY <1>2, <1>5, <1>8

(* A product of fractions. *)
LEMMA TimesIs ==
    ASSUME NEW x \in Rational, NEW y \in Rational, NEW a \in Int, NEW b \in Int,
           NEW q \in Nat \ {0}, NEW r \in Nat \ {0}, Is(x, a, q), Is(y, b, r)
    PROVE  Lowest(Times(x, y)) /\ Is(Times(x, y), a * b, q * r)
  <1> DEFINE xn == x.num
             xd == x.den
             yn == y.num
             yd == y.den
             p == xn * yn
             d == xd * yd
  <1>1. xn \in Int /\ xd \in Nat \ {0} /\ yn \in Int /\ yd \in Nat \ {0}
        /\ xn * q = a * xd /\ yn * r = b * yd
    BY DEF Rational, Is
  <1>2. Times(x, y) = Ratio(p, d)
    BY DEF Times
  <1> HIDE DEF xn, xd, yn, yd
  <1>3. p \in Int /\ d \in Nat /\ d # 0 /\ a * b \in Int /\ q * r \in Int
    BY <1>1
  <1>4. p * (q * r) = (a * b) * d
    <2>1. p * (q * r) = (xn * q) * (yn * r)
      BY <1>1
    <2>2. (a * b) * d = (a * xd) * (b * yd)
      BY <1>1
    <2> QED
      BY <1>1, <2>1, <2>2
  <1> HIDE DEF p, d
  <1>5. Lowest(Ratio(p, d)) /\ Is(Ratio(p, d), p, d)
    BY <1>3, RatioLowest
  <1>6. Ratio(p, d) \in Rational
    BY <1>5 DEF Lowest
  <1>7. Is(Ratio(p, d), a * b, q * r)
    BY <1>3, <1>4, <1>5, <1>6, Rewritten
  <1> QED
    BY <1>2, <1>5, <1>7

(* A whole number as a fraction. *)
Whole(n) == [num |-> n, den |-> 1]

(* Division of a fraction by a whole number. *)
LEMMA OverIs ==
    ASSUME NEW x \in Rational, NEW a \in Int, NEW q \in Nat \ {0}, Is(x, a, q),
           NEW k \in Nat \ {0}
    PROVE  /\ Lowest(Over(x, Whole(k)))
           /\ Is(Over(x, Whole(k)), a, q * k)
           /\ \A b \in Int : a = b * k => Is(Over(x, Whole(k)), b, q)
  <1> DEFINE xn == x.num
             xd == x.den
             d == xd * k
  <1>1. xn \in Int /\ xd \in Nat \ {0} /\ xn * q = a * xd
    BY DEF Rational, Is
  <1>2. Over(x, Whole(k)) = Ratio(xn, d)
    BY <1>1 DEF Over, Whole
  <1> HIDE DEF xn, xd
  <1>3. d \in Nat /\ d # 0 /\ q * k \in Int
    BY <1>1
  <1>4. xn * (q * k) = a * d
    <2>1. xn * (q * k) = (xn * q) * k
      BY <1>1
    <2>2. a * d = (a * xd) * k
      BY <1>1
    <2> QED
      BY <1>1, <2>1, <2>2
  <1>5. ASSUME NEW b \in Int, a = b * k PROVE xn * q = b * d
    <2>1. (b * k) * xd = b * d
      BY <1>1
    <2> QED
      BY <1>1, <1>5, <2>1
  <1> HIDE DEF d
  <1>6. Lowest(Ratio(xn, d)) /\ Is(Ratio(xn, d), xn, d)
    BY <1>1, <1>3, RatioLowest
  <1>7. Ratio(xn, d) \in Rational
    BY <1>6 DEF Lowest
  <1>8. Is(Ratio(xn, d), a, q * k)
    BY <1>1, <1>3, <1>4, <1>6, <1>7, Rewritten
  <1>9. ASSUME NEW b \in Int, a = b * k PROVE Is(Ratio(xn, d), b, q)
    <2>1. q \in Int
      OBVIOUS
    <2> QED
      BY <1>1, <1>3, <1>5, <1>6, <1>7, <1>9, <2>1, Rewritten
  <1> QED
    BY <1>2, <1>6, <1>8, <1>9


(* A fraction over a multiple of its denominator. *)
LEMMA OnMultiple ==
    ASSUME NEW x \in Rational, NEW k \in Int, NEW q \in Int, q = x.den * k
    PROVE  x.num * k \in Int /\ Is(x, x.num * k, q)
  <1> DEFINE xn == x.num
             xd == x.den
  <1>1. xn \in Int /\ xd \in Int
    BY DEF Rational
  <1> HIDE DEF xn, xd
  <1>2. xn * (xd * k) = (xn * k) * xd /\ xn * k \in Int
    BY <1>1
  <1> QED
    BY <1>2 DEF Is, xn, xd

(* Three fractions can be written over q, and a fourth over its square.    *)
(* The difference of the first two is a multiple of k.                     *)
WrittenOver(q, x, y, z, w, k) ==
    \E a, b, c, e, f \in Int :
        /\ Is(x, a, q) /\ Is(y, b, q) /\ Is(z, c, q) /\ Is(w, f, q * q)
        /\ b - a = e * k

(* There is such a q for all fractions. *)
LEMMA CommonDenominator ==
    ASSUME NEW x \in Rational, NEW y \in Rational, NEW z \in Rational, NEW w \in Rational,
           NEW k \in Nat \ {0}
    PROVE  \E q \in Nat \ {0} : WrittenOver(q, x, y, z, w, k)
  <1> DEFINE xd == x.den
             yd == y.den
             zd == z.den
             wd == w.den
             kx == yd * zd * wd
             ky == xd * zd * wd
             q == xd * kx * k
             kw == xd * yd * zd * k * q
  <1>1. xd \in Nat \ {0} /\ yd \in Nat \ {0} /\ zd \in Nat \ {0} /\ wd \in Nat \ {0}
        /\ x.num \in Int /\ y.num \in Int
    BY DEF Rational
  <1> HIDE DEF xd, yd, zd, wd
  <1>2. kx \in Nat \ {0}
    <2>1. yd * zd \in Nat \ {0}
      BY <1>1
    <2> QED
      BY <1>1, <2>1
  <1>3. ky \in Int
    BY <1>1
  <1>4. q \in Nat \ {0}
    <2> HIDE DEF kx
    <2>1. xd * kx \in Nat \ {0}
      BY <1>1, <1>2
    <2> QED
      BY <2>1
  <1>5. q = xd * (kx * k) /\ q = yd * (ky * k) /\ q = zd * (xd * yd * wd * k)
    BY <1>1
  <1>6. q * q = wd * kw
    <2>1. q = wd * (xd * yd * zd * k)
      BY <1>1
    <2>2. xd * yd * zd * k \in Int
      BY <1>1
    <2> DEFINE l == xd * yd * zd * k
    <2> HIDE DEF l, q
    <2>3. (wd * l) * q = wd * (l * q)
      BY <1>1, <1>4, <2>2 DEF l
    <2> QED
      BY <2>1, <2>3 DEF l
  <1>7. kw \in Int
    <2> HIDE DEF q
    <2>1. xd * yd * zd * k \in Int
      BY <1>1
    <2> QED
      BY <1>4, <2>1
  <1>8. xd * yd * wd * k \in Int /\ kx * k \in Int /\ ky * k \in Int /\ q * q \in Int
    BY <1>1, <1>2, <1>3, <1>4
  <1> DEFINE e == y.num * ky - x.num * kx
  <1>9. e \in Int /\ y.num * (ky * k) - x.num * (kx * k) = e * k
    <2> HIDE DEF kx, ky
    <2>1. \A m, n, i, j \in Int : m * (i * k) - n * (j * k) = (m * i - n * j) * k
                                  /\ m * i - n * j \in Int
      OBVIOUS
    <2> QED
      BY <1>1, <1>2, <1>3, <2>1
  <1> HIDE DEF kx, ky, q, kw, e
  <1>10. x.num * (kx * k) \in Int /\ Is(x, x.num * (kx * k), q)
    BY <1>4, <1>5, <1>8, OnMultiple DEF xd
  <1>11. y.num * (ky * k) \in Int /\ Is(y, y.num * (ky * k), q)
    BY <1>4, <1>5, <1>8, OnMultiple DEF yd
  <1>12. z.num * (xd * yd * wd * k) \in Int /\ Is(z, z.num * (xd * yd * wd * k), q)
    BY <1>4, <1>5, <1>8, OnMultiple DEF zd
  <1>13. w.num * kw \in Int /\ Is(w, w.num * kw, q * q)
    BY <1>6, <1>7, <1>8, OnMultiple DEF wd
  <1> QED
    BY <1>4, <1>9, <1>10, <1>11, <1>12, <1>13 DEF WrittenOver

(* What a whole number is a fraction of. *)
LEMMA WholeIs ==
    ASSUME NEW n \in Int
    PROVE  Whole(n) \in Rational /\ Lowest(Whole(n)) /\ Is(Whole(n), n, 1)
  <1>1. Whole(n) \in Rational /\ Whole(n).num = n /\ Whole(n).den = 1
    BY DEF Whole, Rational
  <1>2. 0 * n + 1 * 1 = 1
    OBVIOUS
  <1> QED
    BY <1>1, <1>2 DEF Lowest, Is

(* Welford's step: with the mean m of n returns and their squared          *)
(* deviations w, what the new return r makes of the two describes the sum  *)
(* of the squares from any c as before.                                    *)
LEMMA WelfordStep ==
    ASSUME NEW m \in Rational, NEW w \in Rational, NEW r \in Rational, NEW c \in Rational,
           NEW n \in Nat,
           NEW m1, m1 = Plus(m, Over(Minus(r, m), Whole(n + 1))),
           NEW w1, w1 = Plus(w, Times(Minus(r, m), Minus(r, m1)))
    PROVE  /\ Lowest(m1) /\ Lowest(w1)
           /\ Plus(Times(Whole(n), m), r) = Times(Whole(n + 1), m1)
           /\ Plus(Plus(w, Times(Whole(n), Square(Minus(m, c)))), Square(Minus(r, c)))
                = Plus(w1, Times(Whole(n + 1), Square(Minus(m1, c))))
  <1> DEFINE k == n + 1
  <1>0. k \in Nat \ {0} /\ n \in Int /\ k \in Int /\ k = n + 1
    OBVIOUS
  <1> HIDE DEF k
  <1>q. PICK q \in Nat \ {0} : WrittenOver(q, m, r, c, w, k)
    BY <1>0, CommonDenominator
  <1>1. PICK a \in Int, b \in Int, cc \in Int, e \in Int, f \in Int :
              /\ Is(m, a, q) /\ Is(r, b, q) /\ Is(c, cc, q) /\ Is(w, f, q * q)
              /\ b - a = e * k
    BY <1>q, Zenon DEF WrittenOver
  <1> DEFINE delta == Minus(r, m)
             mc == Minus(m, c)
             rc == Minus(r, c)
  <1>2. Lowest(delta) /\ Is(delta, b - a, q)
    BY <1>1, PlusIs
  <1>3. Lowest(mc) /\ Is(mc, a - cc, q)
    BY <1>1, PlusIs
  <1>4. Lowest(rc) /\ Is(rc, b - cc, q)
    BY <1>1, PlusIs
  <1> HIDE DEF delta, mc, rc
  <1>5. delta \in Rational /\ mc \in Rational /\ rc \in Rational
    BY <1>2, <1>3, <1>4 DEF Lowest
  <1> DEFINE step == Over(delta, Whole(k))
  <1>6. Lowest(step) /\ Is(step, e, q)
    <2>1. b - a \in Int
      OBVIOUS
    <2> QED
      BY <1>0, <1>1, <1>2, <1>5, <2>1, OverIs
  <1> HIDE DEF step
  <1>7. step \in Rational
    BY <1>6 DEF Lowest
  <1>8. Lowest(m1) /\ Is(m1, a + e, q)
    <2>1. m1 = Plus(m, step)
      BY DEF step, delta, k
    <2> QED
      BY <1>1, <1>6, <1>7, <2>1, PlusIs
  <1>9. m1 \in Rational /\ a + e \in Int /\ a - cc \in Int /\ b - cc \in Int /\ b - a \in Int
        /\ q * q \in Nat \ {0} /\ b - (a + e) \in Int
    BY <1>8 DEF Lowest
  <1> DEFINE rest == Minus(r, m1)
             m1c == Minus(m1, c)
  <1>10. Lowest(rest) /\ Is(rest, b - (a + e), q)
    BY <1>1, <1>8, <1>9, PlusIs
  <1>11. Lowest(m1c) /\ Is(m1c, (a + e) - cc, q)
    BY <1>1, <1>8, <1>9, PlusIs
  <1> HIDE DEF rest, m1c
  <1>12. rest \in Rational /\ m1c \in Rational /\ (a + e) - cc \in Int
    BY <1>10, <1>11 DEF Lowest
  <1> DEFINE prod == Times(delta, rest)
             pp == (b - a) * (b - (a + e))
  <1>13. Lowest(prod) /\ Is(prod, pp, q * q) /\ pp \in Int
    BY <1>2, <1>5, <1>9, <1>10, <1>12, TimesIs
  <1> HIDE DEF prod, pp
  <1>14. Lowest(w1) /\ Is(w1, f + pp, q * q)
    <2>1. w1 = Plus(w, prod)
      BY DEF prod, delta, rest
    <2>2. prod \in Rational
      BY <1>13 DEF Lowest
    <2> QED
      BY <1>1, <1>9, <1>13, <2>1, <2>2, PlusIs
  <1>15. Plus(Times(Whole(n), m), r) = Times(Whole(k), m1)
    <2> DEFINE nm == Times(Whole(n), m)
               km == Times(Whole(k), m1)
    <2>0. Whole(n) \in Rational /\ Is(Whole(n), n, 1) /\ Whole(k) \in Rational /\ Is(Whole(k), k, 1)
          /\ 1 \in Nat \ {0}
      BY <1>0, WholeIs
    <2>1. Lowest(nm) /\ Is(nm, n * a, 1 * q)
      BY <1>0, <1>1, <2>0, TimesIs
    <2>2. Lowest(km) /\ Is(km, k * (a + e), 1 * q)
      BY <1>0, <1>8, <1>9, <2>0, TimesIs
    <2> HIDE DEF nm, km
    <2>3. 1 * q = q /\ n * a \in Int /\ k * (a + e) \in Int
      BY <1>0
    <2>4. nm \in Rational
      BY <2>1 DEF Lowest
    <2>5. Lowest(Plus(nm, r)) /\ Is(Plus(nm, r), n * a + b, q)
      BY <1>1, <2>1, <2>3, <2>4, PlusIs
    <2>6. n * a + b = k * (a + e)
      <3>1. k * (a + e) = n * a + a + e * k
        BY <1>0
      <3>2. e * k \in Int /\ n * a \in Int
        BY <1>0
      <3> QED
        BY <1>1, <3>1, <3>2
    <2>7. Plus(nm, r) = km
      BY <2>2, <2>3, <2>5, <2>6, SameValue
    <2> QED
      BY <2>7 DEF nm, km
  <1>16. Plus(Plus(w, Times(Whole(n), Square(mc))), Square(rc))
            = Plus(w1, Times(Whole(k), Square(m1c)))
    <2> DEFINE s == Square(mc)
               t == Square(rc)
               z == Square(m1c)
               ss == (a - cc) * (a - cc)
               tt == (b - cc) * (b - cc)
               zz == ((a + e) - cc) * ((a + e) - cc)
               qq == q * q
    <2>1. Lowest(s) /\ Is(s, ss, qq) /\ ss \in Int
      BY <1>3, <1>5, <1>9, TimesIs DEF Square
    <2>2. Lowest(t) /\ Is(t, tt, qq) /\ tt \in Int
      BY <1>4, <1>5, <1>9, TimesIs DEF Square
    <2>3. Lowest(z) /\ Is(z, zz, qq) /\ zz \in Int
      BY <1>11, <1>12, TimesIs DEF Square
    <2>4. qq \in Nat \ {0} /\ Is(w, f, qq) /\ Is(w1, f + pp, qq)
      BY <1>1, <1>9, <1>14
    <2>5. (f + n * ss) + tt = (f + pp) + k * zz
      <3>1. \A i, j, l \in Int :
              n * ((i - j) * (i - j)) + ((i + l * (n + 1)) - j) * ((i + l * (n + 1)) - j)
                = (l * (n + 1)) * (l * (n + 1) - l)
                    + (n + 1) * (((i + l) - j) * ((i + l) - j))
        OBVIOUS
      <3>2. b = a + e * (n + 1) /\ b - a = e * (n + 1) /\ b - (a + e) = e * (n + 1) - e
        <4>1. e * (n + 1) \in Int /\ b - a = e * (n + 1)
          BY <1>0, <1>1
        <4> HIDE DEF k
        <4> QED
          BY <4>1
      <3>3. n * ss + tt = pp + k * zz
        BY <1>0, <3>1, <3>2 DEF pp
      <3>4. n * ss \in Int /\ k * zz \in Int
        BY <1>0, <2>1, <2>3
      <3> HIDE DEF ss, tt, zz
      <3> QED
        BY <1>13, <2>2, <3>3, <3>4
    <2> HIDE DEF s, t, z, ss, tt, zz, qq
    <2>6. s \in Rational /\ t \in Rational /\ z \in Rational /\ w1 \in Rational
      BY <1>14, <2>1, <2>2, <2>3 DEF Lowest
    <2> DEFINE ns == Times(Whole(n), s)
               kz == Times(Whole(k), z)
    <2>7. Whole(n) \in Rational /\ Is(Whole(n), n, 1) /\ Whole(k) \in Rational /\ Is(Whole(k), k, 1)
          /\ 1 \in Nat \ {0} /\ 1 * qq = qq
      BY <1>0, <2>4, WholeIs
    <2>8. Lowest(ns) /\ Is(ns, n * ss, qq) /\ n * ss \in Int
      <3>1. Lowest(ns) /\ Is(ns, n * ss, 1 * qq)
        BY <1>0, <2>1, <2>4, <2>6, <2>7, TimesIs
      <3> QED
        BY <1>0, <2>1, <2>7, <3>1
    <2>9. Lowest(kz) /\ Is(kz, k * zz, qq) /\ k * zz \in Int
      <3>1. Lowest(kz) /\ Is(kz, k * zz, 1 * qq)
        BY <1>0, <2>3, <2>4, <2>6, <2>7, TimesIs
      <3> QED
        BY <1>0, <2>3, <2>7, <3>1
    <2> HIDE DEF ns, kz
    <2>10. ns \in Rational /\ kz \in Rational
      BY <2>8, <2>9 DEF Lowest
    <2>11. Lowest(Plus(w, ns)) /\ Is(Plus(w, ns), f + n * ss, qq) /\ f + n * ss \in Int
      BY <1>1, <2>4, <2>8, <2>10, PlusIs
    <2>12. Plus(w, ns) \in Rational
      BY <2>11 DEF Lowest
    <2>13. Lowest(Plus(Plus(w, ns), t)) /\ Is(Plus(Plus(w, ns), t), (f + n * ss) + tt, qq)
           /\ (f + n * ss) + tt \in Int
      BY <2>2, <2>4, <2>6, <2>11, <2>12, PlusIs
    <2>14. Lowest(Plus(w1, kz)) /\ Is(Plus(w1, kz), (f + pp) + k * zz, qq)
      <3>1. f + pp \in Int
        BY <1>13
      <3> QED
        BY <2>4, <2>6, <2>9, <2>10, <3>1, PlusIs
    <2>15. Plus(Plus(w, ns), t) = Plus(w1, kz)
      BY <2>4, <2>5, <2>13, <2>14, SameValue
    <2> QED
      BY <2>15 DEF ns, kz, s, t, z
  <1> QED
    BY <1>8, <1>14, <1>15, <1>16 DEF mc, rc, m1c, k


(* A quotient of naturals consists of naturals, even over 0. *)
LEMMA RatioNat ==
    ASSUME NEW n \in Nat, NEW d \in Nat
    PROVE  /\ Ratio(n, d) \in [num : Nat, den : Nat]
           /\ d = 0 => Ratio(n, d).den = 0
           /\ n = 0 => Ratio(n, d).num = 0
           /\ d # 0 => Ratio(n, d).den # 0 /\ Is(Ratio(n, d), n, d)
  <1> DEFINE r == Ratio(n, d)
  <1>1. CASE d # 0
    <2>1. Lowest(r) /\ Is(r, n, d)
      BY <1>1, RatioLowest
    <2> DEFINE rn == r.num
               rd == r.den
    <2>2. r \in Rational /\ rn \in Int /\ rd \in Nat \ {0} /\ rn * d = n * rd
      BY <2>1 DEF Lowest, Rational, Is
    <2>3. rn \in Nat /\ (n = 0 => rn = 0)
      <3> HIDE DEF rn, rd
      <3>1. n * rd >= 0
        BY <2>2
      <3>2. rn >= 0
        BY <1>1, <2>2, <3>1
      <3>3. n = 0 => rn = 0
        BY <1>1, <2>2
      <3> QED
        BY <2>2, <3>2, <3>3
    <2>4. r \in [num : Nat, den : Nat]
      BY <2>2, <2>3 DEF Rational
    <2> QED
      BY <1>1, <2>1, <2>2, <2>3, <2>4
  <1>2. CASE d = 0
    <2>1. AbsOf(n) = n /\ AbsOf(d) = 0 /\ ~ (d < 0)
      BY <1>2 DEF AbsOf
    <2>2. gcd[<<n, 0>>] = n
      BY GcdUnfolds
    <2>3. r = IF n = 0 THEN [num |-> 0, den |-> 0]
              ELSE [num |-> 1 * (n \div n), den |-> 0 \div n]
      BY <2>1, <2>2 DEF Ratio
    <2>4. n # 0 => n \div n = 1 /\ 0 \div n = 0
      <3>1. n # 0 => (n * 1) \div n = 1 /\ (n * 0) \div n = 0
        BY DivExact
      <3>2. n * 1 = n /\ n * 0 = 0
        OBVIOUS
      <3> QED
        BY <3>1, <3>2
    <2>5. r = [num |-> IF n = 0 THEN 0 ELSE 1, den |-> 0]
      BY <2>3, <2>4
    <2> QED
      BY <1>2, <2>5
  <1> QED
    BY <1>1, <1>2

-----------------------------------------------------------------------------
(* Sums.                                                                   *)

(* g adds the f[i] up to n one after the other: the equation SumOf chooses *)
(* its function by.                                                        *)
Adds(g, f, n) ==
    g = [i \in 0 .. n |-> IF i = 0 THEN Zero
                          ELSE IF i \in DOMAIN f THEN Plus(g[i - 1], f[i]) ELSE g[i - 1]]

(* The equation has a solution for every n. *)
LEMMA AddsExists ==
    ASSUME NEW f, NEW n \in Nat
    PROVE  \E g : Adds(g, f, n)
  <1> DEFINE T == {k \in Nat : \E g : Adds(g, f, k)}
  <1>1. 0 \in T
    <2> DEFINE g == [i \in 0 .. 0 |-> Zero]
    <2>1. Adds(g, f, 0)
      BY DEF Adds
    <2> QED
      BY <2>1
  <1>2. ASSUME NEW k \in Nat, k \in T
        PROVE  k + 1 \in T
    <2>1. PICK g : Adds(g, f, k)
      BY <1>2
    <2> DEFINE h == [i \in 0 .. k + 1 |->
                        IF i = 0 THEN Zero
                        ELSE IF i \in DOMAIN f THEN Plus(g[i - 1], f[i]) ELSE g[i - 1]]
    <2>2. \A i \in 0 .. k : h[i] = g[i]
      BY <2>1 DEF Adds
    <2>3. \A i \in 0 .. k + 1 : i # 0 => h[i - 1] = g[i - 1]
      BY <2>2
    <2>4. h = [i \in 0 .. k + 1 |->
                  IF i = 0 THEN Zero
                  ELSE IF i \in DOMAIN f THEN Plus(h[i - 1], f[i]) ELSE h[i - 1]]
      BY <2>3
    <2>5. Adds(h, f, k + 1)
      BY <2>4 DEF Adds
    <2> QED
      BY <2>5
  <1> HIDE DEF T
  <1>3. n \in T
    BY <1>1, <1>2, CountingUp
  <1> QED
    BY <1>3 DEF T

(* SumOf is the value at n of a solution. *)
LEMMA SumUnfolds ==
    ASSUME NEW f, NEW n \in Nat
    PROVE  \E g : Adds(g, f, n) /\ SumOf(f, n) = g[n]
  <1> DEFINE g == CHOOSE g : Adds(g, f, n)
  <1>1. Adds(g, f, n)
    BY AddsExists
  <1>2. SumOf(f, n) = g[n]
    BY DEF SumOf, Adds
  <1> HIDE DEF g
  <1> QED
    BY <1>1, <1>2

(* f and e have the same summands up to n. *)
AgreeUpTo(f, e, n) ==
    \A i \in 1 .. n : /\ i \in DOMAIN f <=> i \in DOMAIN e
                      /\ i \in DOMAIN f => f[i] = e[i]

(* Then their solutions agree there. *)
LEMMA AddsAgree ==
    ASSUME NEW f, NEW e, NEW n \in Nat, NEW m \in Nat, n <= m, NEW g, NEW h,
           AgreeUpTo(f, e, n), Adds(g, f, m), Adds(h, e, n)
    PROVE  g[n] = h[n]
  <1> DEFINE T == {k \in Nat : k <= n => g[k] = h[k]}
  <1>1. 0 \in T
    BY DEF Adds
  <1>2. ASSUME NEW k \in Nat, k \in T
        PROVE  k + 1 \in T
    <2> SUFFICES ASSUME k + 1 <= n PROVE g[k + 1] = h[k + 1]
      OBVIOUS
    <2>1. g[k] = h[k] /\ k + 1 \in 1 .. n /\ k + 1 \in 0 .. m /\ k + 1 \in 0 .. n
          /\ k + 1 - 1 = k /\ k + 1 # 0
      BY <1>2
    <2>2. g[k + 1] = IF k + 1 \in DOMAIN f THEN Plus(g[k], f[k + 1]) ELSE g[k]
      BY <2>1 DEF Adds
    <2>3. h[k + 1] = IF k + 1 \in DOMAIN e THEN Plus(h[k], e[k + 1]) ELSE h[k]
      BY <2>1 DEF Adds
    <2>4. /\ k + 1 \in DOMAIN f <=> k + 1 \in DOMAIN e
          /\ k + 1 \in DOMAIN f => f[k + 1] = e[k + 1]
      BY <2>1 DEF AgreeUpTo
    <2> QED
      BY <2>1, <2>2, <2>3, <2>4
  <1> HIDE DEF T
  <1>3. n \in T
    BY <1>1, <1>2, CountingUp
  <1> QED
    BY <1>3 DEF T

(* Nothing adds up to zero. *)
LEMMA SumOfNothing ==
    ASSUME NEW f
    PROVE  SumOf(f, 0) = Zero
  <1>1. PICK g : Adds(g, f, 0) /\ SumOf(f, 0) = g[0]
    BY SumUnfolds
  <1> QED
    BY <1>1 DEF Adds

(* One more summand, or none, adds to the sum of the others. *)
LEMMA SumOfNext ==
    ASSUME NEW f, NEW e, NEW n \in Nat, AgreeUpTo(f, e, n)
    PROVE  SumOf(f, n + 1) =
               IF n + 1 \in DOMAIN f THEN Plus(SumOf(e, n), f[n + 1]) ELSE SumOf(e, n)
  <1>1. PICK g : Adds(g, f, n + 1) /\ SumOf(f, n + 1) = g[n + 1]
    BY SumUnfolds
  <1>2. PICK h : Adds(h, e, n) /\ SumOf(e, n) = h[n]
    BY SumUnfolds
  <1>3. g[n] = h[n]
    BY <1>1, <1>2, AddsAgree
  <1>4. n + 1 \in 0 .. n + 1 /\ n + 1 # 0 /\ n + 1 - 1 = n
    OBVIOUS
  <1>5. g[n + 1] = IF n + 1 \in DOMAIN f THEN Plus(g[n], f[n + 1]) ELSE g[n]
    BY <1>1, <1>4 DEF Adds
  <1> QED
    BY <1>1, <1>2, <1>3, <1>5


-----------------------------------------------------------------------------
(* The inductive invariant.                                                *)

(* Until the statistics have started, nothing measured was seen. *)
NotStarted ==
    ~ Started =>
        /\ \A i \in 1 .. Len(seen) : seen[i] < 0
        /\ max_dd = 0 /\ max_dd_pct = Zero
        /\ count = 0 /\ mean_return = Zero /\ m2 = Zero

(* Then the equities that are kept are those of the history. *)
InHistory ==
    Started =>
        /\ Len(seen) > 0 /\ Measured(Len(seen))
        /\ last_equity = seen[Len(seen)]
        /\ IsPeak(peak_equity, Len(seen))
        /\ initial_equity <= peak_equity

(* The largest percentage is never NaN: it may be infinite. *)
NeverNaN == max_dd_pct.num > 0 \/ max_dd_pct.den > 0

(* The returns so far have the mean and the squared deviations that are    *)
(* kept.  Squares from every c, not only from the mean: the mean changes   *)
(* with every return.                                                      *)
ReturnsKept ==
    /\ Lowest(mean_return) /\ Lowest(m2)
    /\ count = Cardinality(ReturnTimes)
    /\ SumOf(AllReturns, Len(seen)) = Times(Whole(count), mean_return)
    /\ \A c \in Rational :
        SumOf(SquaresFrom(c), Len(seen)) =
            Plus(m2, Times(Whole(count), Square(Minus(mean_return, c))))

PerformanceInv ==
    TypeOK /\ NotStarted /\ InHistory /\ NeverNaN /\ DrawdownIsMaximal /\ ReturnsKept

(* What a further equity leaves of the history, and adds to it. *)
LEMMA HistoryGrows ==
    ASSUME NEW equity \in Equities, seen \in Seq(Equities), seen' = Append(seen, equity),
           NEW n, n = Len(seen), NEW k, k = Len(seen')
    PROVE  /\ n \in Nat /\ k = n + 1 /\ k \in 1 .. k
           /\ seen'[k] = equity
           /\ \A i \in 1 .. n : seen'[i] = seen[i] /\ seen[i] \in Int
           /\ \A i \in 1 .. n : Measured(i)' <=> Measured(i)
           /\ Measured(k)' <=> equity >= 0 \/ \E j \in 1 .. n : seen[j] >= 0
           /\ \A i \in 1 .. n : \A p \in Equities : IsPeak(p, i)' <=> IsPeak(p, i)
           /\ \A i \in 1 .. k : i = k \/ i \in 1 .. n
  <1>1. n \in Nat /\ k = n + 1 /\ seen'[k] = equity
    OBVIOUS
  <1>2. \A i \in 1 .. n : seen'[i] = seen[i] /\ seen[i] \in Int
    <2> TAKE i \in 1 .. n
    <2>1. seen[i] \in Equities /\ seen'[i] = seen[i]
      BY <1>1
    <2> QED
      BY <2>1, PerformanceAssumption
  <1>3. ASSUME NEW i \in 1 .. n PROVE Measured(i)' <=> Measured(i)
    <2>1. \A j \in 1 .. i : seen'[j] = seen[j]
      BY <1>1, <1>2
    <2>2. i \in 1 .. Len(seen') /\ i \in 1 .. Len(seen)
      BY <1>1
    <2> QED
      BY <2>1, <2>2 DEF Measured
  <1>4. Measured(k)' <=> equity >= 0 \/ \E j \in 1 .. n : seen[j] >= 0
    <2>1. k \in 1 .. Len(seen')
      BY <1>1
    <2>2. Measured(k)' <=> \E j \in 1 .. k : seen'[j] >= 0
      BY <2>1 DEF Measured
    <2>3. \A j \in 1 .. k : j = k \/ j \in 1 .. n
      BY <1>1
    <2>4. \A j \in 1 .. n : j \in 1 .. k
      BY <1>1
    <2>5. k \in 1 .. k
      BY <1>1
    <2> QED
      BY <1>1, <1>2, <2>2, <2>3, <2>4, <2>5
  <1>5. ASSUME NEW i \in 1 .. n, NEW p \in Equities PROVE IsPeak(p, i)' <=> IsPeak(p, i)
    <2>1. \A j \in 1 .. i : j \in 1 .. n /\ seen'[j] = seen[j] /\ (Measured(j)' <=> Measured(j))
      BY <1>1, <1>2, <1>3
    <2> QED
      BY <2>1 DEF IsPeak
  <1> QED
    BY <1>1, <1>2, <1>3, <1>4, <1>5

(* When the next equity makes a return, and what it is. *)
LEMMA ReturnsGrow ==
    ASSUME NEW equity \in Equities, seen \in Seq(Equities), seen' = Append(seen, equity),
           NEW n, n = Len(seen), NotStarted, InHistory
    PROVE  /\ IsFiniteSet(ReturnTimes)
           /\ ReturnTimes \subseteq 2 .. n
           /\ ReturnTimes' = IF Started /\ HasReturn THEN ReturnTimes \cup {n + 1}
                             ELSE ReturnTimes
           /\ \A i \in ReturnTimes : ReturnAt(i)' = ReturnAt(i)
           /\ Started => \A i : i = n + 1 =>
                ReturnAt(i)' = Ratio(equity - last_equity, last_equity)
  <1>0. PICK k : k = Len(seen')
    OBVIOUS
  <1>1. /\ n \in Nat /\ Len(seen') = n + 1 /\ seen'[n + 1] = equity
        /\ \A i \in 1 .. n : seen'[i] = seen[i] /\ seen[i] \in Int
        /\ \A i \in 1 .. n : Measured(i)' <=> Measured(i)
    BY <1>0, HistoryGrows
  <1>2. /\ ReturnTimes = {i \in 2 .. n : Measured(i - 1) /\ seen[i - 1] > 0}
        /\ ReturnTimes' = {i \in 2 .. n + 1 : Measured(i - 1)' /\ seen'[i - 1] > 0}
    BY <1>1 DEF ReturnTimes
  <1>3. /\ Started => n > 0 /\ Measured(n) /\ last_equity = seen[n]
        /\ ~ Started => \A i \in 1 .. n : ~ Measured(i)
    <2>1. Started => n > 0 /\ Measured(n) /\ last_equity = seen[n]
      BY DEF InHistory
    <2>2. ASSUME ~ Started, NEW i \in 1 .. n PROVE ~ Measured(i)
      <3>1. \A j \in 1 .. n : seen[j] < 0
        BY <2>2 DEF NotStarted
      <3>2. \A j \in 1 .. i : seen[j] < 0 /\ seen[j] \in Int
        BY <1>1, <3>1
      <3> QED
        BY <3>2 DEF Measured
    <2> QED
      BY <2>1, <2>2
  <1>4. \A i \in 2 .. n : i - 1 \in 1 .. n /\ i \in 2 .. n + 1 /\ i \in 1 .. n
    BY <1>1
  <1>5. \A i \in 2 .. n : i \in ReturnTimes <=> i \in ReturnTimes'
    BY <1>1, <1>2, <1>4
  <1>6. \A i \in 2 .. n + 1 : i \in 2 .. n \/ i = n + 1
    BY <1>1
  <1>7. n + 1 \in ReturnTimes' <=> Started /\ HasReturn
    <2>1. CASE n = 0
      BY <1>1, <1>2, <1>3, <2>1
    <2>2. CASE n > 0
      <3>1. n + 1 \in 2 .. n + 1 /\ n \in 1 .. n /\ n + 1 - 1 = n
        BY <1>1, <2>2
      <3>2. n + 1 \in ReturnTimes' <=> Measured(n) /\ seen[n] > 0
        BY <1>1, <1>2, <3>1
      <3> QED
        BY <1>3, <3>1, <3>2 DEF HasReturn
    <2> QED
      BY <1>1, <2>1, <2>2
  <1>8. ReturnTimes \subseteq 2 .. n
    BY <1>2
  <1>9. ReturnTimes' = IF Started /\ HasReturn THEN ReturnTimes \cup {n + 1} ELSE ReturnTimes
    <2>1. \A i \in ReturnTimes' : i \in ReturnTimes \/ (i = n + 1 /\ Started /\ HasReturn)
      BY <1>2, <1>5, <1>6, <1>7
    <2>2. \A i \in ReturnTimes : i \in ReturnTimes'
      BY <1>2, <1>5
    <2> QED
      BY <1>7, <2>1, <2>2
  <1>10. IsFiniteSet(ReturnTimes)
    <2>1. IsFiniteSet(2 .. n)
      BY <1>1, FS_Interval
    <2> QED
      BY <1>8, <2>1, FS_Subset
  <1>11. \A i \in ReturnTimes : ReturnAt(i)' = ReturnAt(i)
    BY <1>1, <1>2, <1>4 DEF ReturnAt
  <1>12. ASSUME Started, NEW i, i = n + 1
         PROVE  ReturnAt(i)' = Ratio(equity - last_equity, last_equity)
    <2>1. seen'[i] = equity /\ seen'[i - 1] = last_equity
      <3>1. seen'[n] = last_equity /\ i - 1 = n
        BY <1>1, <1>3, <1>12
      <3> QED
        BY <1>1, <1>12, <3>1
    <2>2. ReturnAt(i)' = Ratio(seen'[i] - seen'[i - 1], seen'[i - 1])
      BY DEF ReturnAt
    <2> QED
      BY <2>1, <2>2
  <1> QED
    BY <1>8, <1>9, <1>10, <1>11, <1>12


-----------------------------------------------------------------------------
(* The returns.                                                            *)

(* Differences of fractions are fractions. *)
LEMMA MinusRational ==
    ASSUME NEW x \in Rational, NEW y \in Rational
    PROVE  Lowest(Minus(x, y)) /\ Minus(x, y) \in Rational
  <1> DEFINE q == x.den * y.den
  <1>1. x.num \in Int /\ y.num \in Int /\ x.den \in Nat \ {0} /\ y.den \in Nat \ {0}
    BY DEF Rational
  <1>2. q \in Nat \ {0} /\ q = y.den * x.den
    BY <1>1
  <1>3. /\ x.num * y.den \in Int /\ Is(x, x.num * y.den, q)
        /\ y.num * x.den \in Int /\ Is(y, y.num * x.den, q)
    BY <1>1, <1>2, OnMultiple
  <1> HIDE DEF q
  <1> QED
    BY <1>2, <1>3, PlusIs DEF Lowest

(* Squares of fractions are fractions. *)
LEMMA SquareRational ==
    ASSUME NEW x \in Rational
    PROVE  Square(x) \in Rational
  <1>1. x.num \in Int /\ x.den \in Nat \ {0} /\ Is(x, x.num, x.den)
    BY DEF Rational, Is
  <1> QED
    BY <1>1, TimesIs DEF Square, Lowest

(* Before the first update the invariant's sums are empty. *)
LEMMA ReturnsKeptInit == Init => ReturnsKept
  <1> SUFFICES ASSUME Init PROVE ReturnsKept
    OBVIOUS
  <1>1. count = 0 /\ mean_return = Zero /\ m2 = Zero /\ seen = <<>> /\ Len(seen) = 0
    BY DEF Init
  <1>2. Zero = Whole(0) /\ Zero \in Rational /\ Lowest(Zero) /\ Is(Zero, 0, 1) /\ 1 \in Nat \ {0}
    <2>1. Zero = Whole(0)
      BY DEF Zero, Whole
    <2> QED
      BY <2>1, WholeIs
  <1>3. count = Cardinality(ReturnTimes)
    <2>1. ReturnTimes = {}
      BY <1>1 DEF ReturnTimes
    <2> QED
      BY <1>1, <2>1, FS_EmptySet
  <1>4. ASSUME NEW x \in Rational PROVE Times(Zero, x) = Zero
    <2>1. x.num \in Int /\ x.den \in Nat \ {0} /\ Is(x, x.num, x.den)
      BY DEF Rational, Is
    <2>2. Lowest(Times(Zero, x)) /\ Is(Times(Zero, x), 0 * x.num, 1 * x.den)
      BY <1>2, <2>1, TimesIs
    <2>3. 0 * x.num = 0 /\ 1 * x.den = x.den /\ Is(Zero, 0, x.den)
      BY <2>1 DEF Zero, Is
    <2> QED
      BY <1>2, <2>1, <2>2, <2>3, SameValue
  <1>5. Plus(Zero, Zero) = Zero
    <2>1. Lowest(Plus(Zero, Zero)) /\ Is(Plus(Zero, Zero), 0 + 0, 1)
      BY <1>2, PlusIs
    <2> QED
      BY <1>2, <2>1, SameValue
  <1>6. ASSUME NEW c \in Rational PROVE Square(Minus(Zero, c)) \in Rational
    <2>1. Minus(Zero, c) \in Rational
      BY <1>2, MinusRational
    <2> QED
      BY <2>1, SquareRational
  <1>7. SumOf(AllReturns, Len(seen)) = Times(Whole(count), mean_return)
    BY <1>1, <1>2, <1>4, SumOfNothing
  <1>8. ASSUME NEW c \in Rational
        PROVE  SumOf(SquaresFrom(c), Len(seen)) =
                  Plus(m2, Times(Whole(count), Square(Minus(mean_return, c))))
    <2>1. Times(Zero, Square(Minus(Zero, c))) = Zero
      BY <1>4, <1>6
    <2>2. SumOf(SquaresFrom(c), 0) = Zero
      BY SumOfNothing
    <2> QED
      BY <1>1, <1>2, <1>5, <2>1, <2>2
  <1> QED
    BY <1>1, <1>2, <1>3, <1>7, <1>8 DEF ReturnsKept

(* An update keeps count, mean and squared deviations those of the         *)
(* returns.                                                                *)
LEMMA ReturnsKeptStep ==
    ASSUME PerformanceInv, NEW equity \in Equities, update(equity)
    PROVE  ReturnsKept'
  <1>0. PICK n : n = Len(seen)
    OBVIOUS
  <1>1. seen \in Seq(Equities) /\ seen' = Append(seen, equity) /\ NotStarted /\ InHistory
        /\ n \in Nat /\ Len(seen') = n + 1
    BY <1>0 DEF PerformanceInv, TypeOK, update
  <1>2. /\ IsFiniteSet(ReturnTimes) /\ ReturnTimes \subseteq 2 .. n
        /\ ReturnTimes' = IF Started /\ HasReturn THEN ReturnTimes \cup {n + 1} ELSE ReturnTimes
        /\ \A i \in ReturnTimes : ReturnAt(i)' = ReturnAt(i)
        /\ Started => \A i : i = n + 1 =>
                ReturnAt(i)' = Ratio(equity - last_equity, last_equity)
    BY <1>0, <1>1, ReturnsGrow
  <1>3. /\ Lowest(mean_return) /\ Lowest(m2) /\ count = Cardinality(ReturnTimes)
        /\ SumOf(AllReturns, n) = Times(Whole(count), mean_return)
        /\ \A c \in Rational : SumOf(SquaresFrom(c), n) =
               Plus(m2, Times(Whole(count), Square(Minus(mean_return, c))))
    BY <1>0 DEF PerformanceInv, ReturnsKept
  <1>4. n + 1 \notin ReturnTimes /\ \A i \in 1 .. n : i # n + 1
    BY <1>1, <1>2
  <1>5. \A i \in 1 .. n : i \in ReturnTimes' <=> i \in ReturnTimes
    BY <1>2, <1>4
  <1>6. AgreeUpTo(AllReturns', AllReturns, n)
    <2>1. DOMAIN AllReturns' = ReturnTimes' /\ DOMAIN AllReturns = ReturnTimes
      BY DEF AllReturns
    <2>2. \A i \in ReturnTimes : i \in ReturnTimes' => AllReturns'[i] = AllReturns[i]
      BY <1>2 DEF AllReturns
    <2> QED
      BY <1>5, <2>1, <2>2 DEF AgreeUpTo
  <1>7. ASSUME NEW c \in Rational PROVE AgreeUpTo(SquaresFrom(c)', SquaresFrom(c), n)
    <2>1. DOMAIN (SquaresFrom(c)') = ReturnTimes' /\ DOMAIN SquaresFrom(c) = ReturnTimes
      BY DEF SquaresFrom
    <2>2. \A i \in ReturnTimes : i \in ReturnTimes' => (SquaresFrom(c)')[i] = SquaresFrom(c)[i]
      BY <1>2 DEF SquaresFrom
    <2> QED
      BY <1>5, <2>1, <2>2 DEF AgreeUpTo
  <1>8. CASE ~ (Started /\ HasReturn)
    <2>1. UNCHANGED <<count, mean_return, m2>>
      BY <1>8 DEF update, Start, returnVars
    <2>2. ReturnTimes' = ReturnTimes
      BY <1>2, <1>8
    <2>3. n + 1 \notin DOMAIN AllReturns'
      BY <1>4, <2>2 DEF AllReturns
    <2>4. SumOf(AllReturns', n + 1) = SumOf(AllReturns, n)
      BY <1>1, <1>6, <2>3, SumOfNext
    <2>5. ASSUME NEW c \in Rational
          PROVE  SumOf(SquaresFrom(c)', n + 1) = SumOf(SquaresFrom(c), n)
      <3>1. n + 1 \notin DOMAIN (SquaresFrom(c)')
        BY <1>4, <2>2 DEF SquaresFrom
      <3> QED
        BY <1>1, <1>7, <3>1, SumOfNext
    <2> QED
      BY <1>1, <1>3, <2>1, <2>2, <2>4, <2>5 DEF ReturnsKept
  <1>9. CASE Started /\ HasReturn
    <2> DEFINE r == Ratio(equity - last_equity, last_equity)
    <2>1. r \in Rational
      <3>1. equity \in Int /\ last_equity \in Int /\ last_equity # 0
        BY <1>9, PerformanceAssumption DEF PerformanceInv, TypeOK, HasReturn
      <3> QED
        BY <3>1, RatioLowest DEF Lowest
    <2>2. AddReturn(r)
      BY <1>9 DEF update
    <2> HIDE DEF r
    <2>3. /\ count' = count + 1
          /\ mean_return' = Plus(mean_return, Over(Minus(r, mean_return), Whole(count + 1)))
          /\ m2' = Plus(m2, Times(Minus(r, mean_return), Minus(r, mean_return')))
      BY <2>2 DEF AddReturn, Whole
    <2>4. count \in Nat /\ mean_return \in Rational /\ m2 \in Rational
      BY DEF PerformanceInv, TypeOK
    <2>5. Zero \in Rational
      BY DEF Zero, Rational
    <2>6. ASSUME NEW c \in Rational
          PROVE  /\ Lowest(mean_return') /\ Lowest(m2')
                 /\ Plus(Times(Whole(count), mean_return), r) = Times(Whole(count + 1), mean_return')
                 /\ Plus(Plus(m2, Times(Whole(count), Square(Minus(mean_return, c)))),
                         Square(Minus(r, c)))
                      = Plus(m2', Times(Whole(count + 1), Square(Minus(mean_return', c))))
      BY <2>1, <2>3, <2>4, WelfordStep
    <2>7. ReturnTimes' = ReturnTimes \cup {n + 1} /\ \A i : i = n + 1 => ReturnAt(i)' = r
      BY <1>2, <1>9 DEF r
    <2>8. count' = Cardinality(ReturnTimes')
      BY <1>2, <1>3, <1>4, <2>3, <2>7, FS_AddElement
    <2>9. SumOf(AllReturns', n + 1) = Times(Whole(count'), mean_return')
      <3>1. n + 1 \in DOMAIN AllReturns' /\ AllReturns'[n + 1] = r
        BY <2>7 DEF AllReturns
      <3>2. SumOf(AllReturns', n + 1) = Plus(SumOf(AllReturns, n), r)
        BY <1>1, <1>6, <3>1, SumOfNext
      <3> QED
        BY <1>3, <2>3, <2>5, <2>6, <3>2
    <2>10. ASSUME NEW c \in Rational
           PROVE  SumOf(SquaresFrom(c)', n + 1) =
                    Plus(m2', Times(Whole(count'), Square(Minus(mean_return', c))))
      <3>1. n + 1 \in DOMAIN (SquaresFrom(c)')
            /\ (SquaresFrom(c)')[n + 1] = Square(Minus(r, c))
        BY <2>7 DEF SquaresFrom
      <3>2. SumOf(SquaresFrom(c)', n + 1) = Plus(SumOf(SquaresFrom(c), n), Square(Minus(r, c)))
        BY <1>1, <1>7, <3>1, SumOfNext
      <3> QED
        BY <1>3, <2>3, <2>6, <3>2
    <2> QED
      BY <1>1, <2>5, <2>6, <2>8, <2>9, <2>10 DEF ReturnsKept
  <1> QED
    BY <1>8, <1>9


-----------------------------------------------------------------------------
(* The history and the drawdown.                                           *)

(* a/b is no less than e/f, and c/d is more than a/b: c/d is no less.      *)
(* Fractions over 0 included.                                              *)
LEMMA LessChain ==
    ASSUME NEW a \in Nat, NEW b \in Nat, NEW c \in Nat, NEW d \in Nat, NEW e \in Nat, NEW f \in Nat,
           ~ (a * f < e * b), a * d < c * b
    PROVE  ~ (c * f < e * d)
  <1> SUFFICES ASSUME c * f < e * d PROVE FALSE
    OBVIOUS
  <1>1. a * f \in Nat /\ e * b \in Nat /\ a * d \in Nat /\ c * b \in Nat /\ c * f \in Nat /\ e * d \in Nat
    OBVIOUS
  <1>2. \A x, y, z \in Nat : x <= y => x * z <= y * z
    <2> TAKE x \in Nat, y \in Nat, z \in Nat
    <2>1. (y - x) * z = y * z - x * z
      OBVIOUS
    <2>2. x <= y => (y - x) * z >= 0
      OBVIOUS
    <2> QED
      BY <2>1, <2>2
  <1>3. b > 0
    BY <1>1
  <1>4. (c * f) * b < (e * d) * b
    <2>1. (e * d - c * f - 1) * b >= 0
      BY <1>1
    <2>2. (e * d - c * f - 1) * b = (e * d) * b - (c * f) * b - b
      OBVIOUS
    <2> QED
      BY <1>1, <1>3, <2>1, <2>2
  <1>5. (e * b) * d <= (a * f) * d
    BY <1>1, <1>2
  <1>6. (a * d) * f <= (c * b) * f
    BY <1>1, <1>2
  <1>7. (e * b) * d = (e * d) * b /\ (a * f) * d = (a * d) * f /\ (c * b) * f = (c * f) * b
    OBVIOUS
  <1> QED
    BY <1>1, <1>4, <1>5, <1>6, <1>7

(* The integers that the invariant compares. *)
LEMMA EquitiesAreInts ==
    ASSUME TypeOK
    PROVE  /\ initial_equity \in Int /\ last_equity \in Int /\ peak_equity \in Int
           /\ \A e \in Equities : e \in Int
           /\ \A i \in 1 .. Len(seen) : seen[i] \in Equities
  BY PerformanceAssumption DEF TypeOK

(* A peak is no less than 0 and than the equity of its time. *)
LEMMA PeakFacts ==
    ASSUME TypeOK, NEW p \in Equities, NEW i \in 1 .. Len(seen), IsPeak(p, i)
    PROVE  p \in Nat /\ seen[i] \in Int /\ seen[i] <= p
  <1>1. p \in Int /\ \A j \in 1 .. Len(seen) : seen[j] \in Int
    BY EquitiesAreInts
  <1>2. PICK j \in 1 .. i : Measured(j)
    BY DEF IsPeak
  <1>3. PICK l \in 1 .. j : seen[l] >= 0
    BY <1>2 DEF Measured
  <1>4. l \in 1 .. i /\ l \in 1 .. l /\ l \in 1 .. Len(seen) /\ i \in 1 .. i
    BY <1>2, <1>3
  <1>5. Measured(l) /\ Measured(i)
    BY <1>3, <1>4 DEF Measured
  <1>6. seen[l] <= p /\ seen[i] <= p
    BY <1>4, <1>5 DEF IsPeak
  <1> QED
    BY <1>1, <1>3, <1>4, <1>6

(* An update keeps initial, last and peak equity those of the history. *)
LEMMA HistoryStep ==
    ASSUME PerformanceInv, NEW equity \in Equities, update(equity)
    PROVE  NotStarted' /\ InHistory'
  <1>0. PICK n, k, p : n = Len(seen) /\ k = Len(seen') /\ p = peak_equity'
    OBVIOUS
  <1>1. TypeOK /\ NotStarted /\ InHistory /\ seen \in Seq(Equities) /\ seen' = Append(seen, equity)
    BY DEF PerformanceInv, TypeOK, update
  <1>2. /\ n \in Nat /\ k = n + 1 /\ k \in 1 .. k
        /\ seen'[k] = equity
        /\ \A i \in 1 .. n : seen'[i] = seen[i] /\ seen[i] \in Int
        /\ \A i \in 1 .. n : Measured(i)' <=> Measured(i)
        /\ Measured(k)' <=> equity >= 0 \/ \E j \in 1 .. n : seen[j] >= 0
        /\ \A i \in 1 .. k : i = k \/ i \in 1 .. n
    BY <1>0, <1>1, HistoryGrows
  <1>3. equity \in Int /\ initial_equity \in Int /\ last_equity \in Int /\ peak_equity \in Int
    BY <1>1, EquitiesAreInts
  <1>4. CASE ~ Started
    <2>1. /\ initial_equity' = equity /\ last_equity' = equity /\ p = equity
          /\ UNCHANGED <<max_dd, max_dd_pct, count, mean_return, m2>>
      BY <1>0, <1>4 DEF update, Start, returnVars
    <2>2. \A i \in 1 .. n : seen[i] < 0
      BY <1>0, <1>1, <1>4 DEF NotStarted
    <2>3. NotStarted'
      <3> SUFFICES ASSUME ~ Started' PROVE NotStarted'
        BY DEF NotStarted
      <3>1. equity < 0
        BY <2>1 DEF Started
      <3>2. \A i \in 1 .. k : seen'[i] < 0
        BY <1>2, <2>2, <3>1
      <3> QED
        BY <1>0, <1>1, <1>4, <2>1, <3>2 DEF NotStarted
    <2>4. InHistory'
      <3> SUFFICES ASSUME Started' PROVE InHistory'
        BY DEF InHistory
      <3>1. equity >= 0
        BY <1>3, <2>1 DEF Started
      <3>2. Measured(k)'
        BY <1>2, <3>1
      <3>3. \A i \in 1 .. n : ~ Measured(i)
        <4> TAKE i \in 1 .. n
        <4>1. \A j \in 1 .. i : seen[j] < 0 /\ seen[j] \in Int
          BY <1>2, <2>2
        <4> QED
          BY <4>1 DEF Measured
      <3>4. IsPeak(p, k)'
        <4>1. \A j \in 1 .. k : Measured(j)' => seen'[j] <= p
          BY <1>2, <1>3, <2>1, <3>3
        <4> QED
          BY <1>2, <2>1, <3>2, <4>1 DEF IsPeak
      <3>5. Measured(Len(seen))' /\ IsPeak(peak_equity, Len(seen))'
        BY <1>0, <3>2, <3>4 DEF Measured, IsPeak
      <3> QED
        BY <1>0, <1>2, <1>3, <2>1, <3>5 DEF InHistory
    <2> QED
      BY <2>3, <2>4
  <1>5. CASE Started
    <2>1. /\ initial_equity' = initial_equity /\ last_equity' = equity
          /\ \/ equity > peak_equity /\ p = equity
             \/ ~ (equity > peak_equity) /\ p = peak_equity
      BY <1>0, <1>5 DEF update, Drawdown
    <2>2. NotStarted'
      BY <1>5, <2>1 DEF NotStarted, Started
    <2>3. n > 0 /\ Measured(n) /\ IsPeak(peak_equity, n) /\ initial_equity <= peak_equity
      BY <1>0, <1>1, <1>5 DEF InHistory
    <2>4. Measured(k)'
      BY <1>2, <2>3 DEF Measured
    <2>5. IsPeak(p, k)'
      <3>1. \A j \in 1 .. k : Measured(j)' => seen'[j] <= p
        <4> SUFFICES ASSUME NEW j \in 1 .. k, Measured(j)' PROVE seen'[j] <= p
          OBVIOUS
        <4>1. CASE j = k
          BY <1>2, <1>3, <2>1, <4>1
        <4>2. CASE j \in 1 .. n
          <5>1. seen[j] <= peak_equity /\ seen[j] \in Int /\ seen'[j] = seen[j]
            BY <1>2, <2>3, <4>2 DEF IsPeak
          <5> QED
            BY <1>3, <2>1, <5>1
        <4> QED
          BY <1>2, <4>1, <4>2
      <3>2. \E j \in 1 .. k : Measured(j)' /\ seen'[j] = p
        <4>1. PICK j \in 1 .. n : Measured(j) /\ seen[j] = peak_equity
          BY <2>3 DEF IsPeak
        <4>2. j \in 1 .. k /\ Measured(j)' /\ seen'[j] = peak_equity
          BY <1>2, <4>1
        <4> QED
          BY <1>2, <2>1, <2>4, <4>2
      <3> QED
        BY <3>1, <3>2 DEF IsPeak
    <2>6. Measured(Len(seen))' /\ IsPeak(peak_equity, Len(seen))'
      BY <1>0, <2>4, <2>5 DEF Measured, IsPeak
    <2>7. initial_equity <= p
      BY <1>3, <2>1, <2>3
    <2>8. InHistory'
      BY <1>0, <1>2, <2>1, <2>6, <2>7 DEF InHistory
    <2> QED
      BY <2>2, <2>8
  <1> QED
    BY <1>4, <1>5


(* Once the statistics have started, the peak is no less than 0. *)
LEMMA PeakNat ==
    ASSUME PerformanceInv, Started
    PROVE  peak_equity \in Nat
  <1>1. initial_equity \in Int /\ peak_equity \in Int
    BY EquitiesAreInts DEF PerformanceInv
  <1>2. initial_equity <= peak_equity /\ ~ (initial_equity < 0)
    BY DEF PerformanceInv, InHistory, Started
  <1> QED
    BY <1>1, <1>2

(* An update takes the equity for the peak and leaves the drawdown alone,  *)
(* or compares the drawdown with the fall from the peak.                   *)
LEMMA DrawdownCases ==
    ASSUME PerformanceInv, NEW equity \in Equities, update(equity)
    PROVE  \/ /\ ~ Started \/ equity > peak_equity
              /\ peak_equity' = equity /\ max_dd' = max_dd /\ max_dd_pct' = max_dd_pct
           \/ \E d \in Nat, r \in [num : Nat, den : Nat] :
                /\ Started /\ peak_equity' = peak_equity
                /\ d = peak_equity - equity /\ r = Ratio(d, peak_equity)
                /\ max_dd' = IF d > max_dd THEN d ELSE max_dd
                /\ max_dd_pct' = IF Less(max_dd_pct, r) THEN r ELSE max_dd_pct
  <1>1. TypeOK /\ equity \in Int /\ peak_equity \in Int
    BY EquitiesAreInts DEF PerformanceInv
  <1>2. CASE ~ Started
    BY <1>2 DEF update, Start
  <1>3. CASE Started /\ equity > peak_equity
    BY <1>3 DEF update, Drawdown
  <1>4. CASE Started /\ ~ (equity > peak_equity)
    <2> DEFINE d == peak_equity - equity
               r == Ratio(d, peak_equity)
    <2>1. d \in Nat /\ peak_equity \in Nat
      BY <1>1, <1>4, PeakNat
    <2>2. /\ peak_equity' = peak_equity
          /\ max_dd' = IF d > max_dd THEN d ELSE max_dd
          /\ max_dd_pct' = IF Less(max_dd_pct, r) THEN r ELSE max_dd_pct
      BY <1>4 DEF update, Drawdown
    <2> HIDE DEF d
    <2>3. r \in [num : Nat, den : Nat]
      BY <2>1, RatioNat
    <2> HIDE DEF r
    <2> QED
      BY <1>4, <2>1, <2>2, <2>3 DEF d, r
  <1> QED
    BY <1>2, <1>3, <1>4

(* An update keeps the types, and gives no NaN. *)
LEMMA TypeStep ==
    ASSUME PerformanceInv, NEW equity \in Equities, update(equity)
    PROVE  TypeOK' /\ NeverNaN'
  <1>1. TypeOK /\ NeverNaN
    BY DEF PerformanceInv
  <1>2. seen' \in Seq(Equities)
    BY <1>1 DEF TypeOK, update
  <1>3. /\ initial_equity' \in Equities \cup {-1}
        /\ last_equity' \in Equities \cup {0}
        /\ peak_equity' \in Equities \cup {0}
    BY <1>1 DEF TypeOK, update, Start, Drawdown
  <1>4. mean_return' \in Rational /\ m2' \in Rational
    BY ReturnsKeptStep DEF ReturnsKept, Lowest
  <1>5. count' \in Nat
    BY <1>1 DEF TypeOK, update, Start, AddReturn, returnVars
  <1>6. max_dd' \in Nat /\ max_dd_pct' \in [num : Nat, den : Nat] /\ NeverNaN'
    <2>1. CASE max_dd' = max_dd /\ max_dd_pct' = max_dd_pct
      BY <1>1, <2>1 DEF TypeOK, NeverNaN
    <2>2. CASE \E d \in Nat, r \in [num : Nat, den : Nat] :
                /\ max_dd' = IF d > max_dd THEN d ELSE max_dd
                /\ max_dd_pct' = IF Less(max_dd_pct, r) THEN r ELSE max_dd_pct
      <3>1. PICK d \in Nat, r \in [num : Nat, den : Nat] :
                /\ max_dd' = IF d > max_dd THEN d ELSE max_dd
                /\ max_dd_pct' = IF Less(max_dd_pct, r) THEN r ELSE max_dd_pct
        BY <2>2
      <3>2. max_dd \in Nat /\ max_dd_pct \in [num : Nat, den : Nat]
        BY <1>1 DEF TypeOK
      <3>3. Less(max_dd_pct, r) => r.num > 0
        <4>1. max_dd_pct.num \in Nat /\ max_dd_pct.den \in Nat /\ r.num \in Nat /\ r.den \in Nat
          BY <3>2
        <4>2. max_dd_pct.num * r.den \in Nat
          BY <4>1
        <4>3. r.num = 0 => r.num * max_dd_pct.den = 0
          BY <4>1
        <4> QED
          BY <4>1, <4>2, <4>3 DEF Less
      <3> QED
        BY <1>1, <3>1, <3>2, <3>3 DEF NeverNaN
    <2> QED
      BY <2>1, <2>2, DrawdownCases
  <1> QED
    BY <1>2, <1>3, <1>4, <1>5, <1>6 DEF TypeOK

(* An update keeps the drawdown the largest of the history. *)
LEMMA DrawdownStep ==
    ASSUME PerformanceInv, NEW equity \in Equities, update(equity)
    PROVE  DrawdownIsMaximal'
  <1>0. PICK n, k, p0, m, x :
            n = Len(seen) /\ k = Len(seen') /\ p0 = peak_equity' /\ m = max_dd' /\ x = max_dd_pct'
    OBVIOUS
  <1>1. TypeOK /\ NotStarted /\ InHistory /\ seen \in Seq(Equities) /\ seen' = Append(seen, equity)
    BY DEF PerformanceInv, TypeOK, update
  <1>2. /\ n \in Nat /\ k = n + 1 /\ k \in 1 .. k
        /\ seen'[k] = equity
        /\ \A i \in 1 .. n : seen'[i] = seen[i] /\ seen[i] \in Int
        /\ \A i \in 1 .. n : Measured(i)' <=> Measured(i)
        /\ \A i \in 1 .. n : \A p \in Equities : IsPeak(p, i)' <=> IsPeak(p, i)
        /\ \A i \in 1 .. k : i = k \/ i \in 1 .. n
    BY <1>0, <1>1, HistoryGrows
  <1>3. equity \in Int /\ peak_equity \in Int /\ \A e \in Equities : e \in Int
    BY <1>1, EquitiesAreInts
  <1>4. /\ max_dd \in Nat /\ max_dd_pct \in [num : Nat, den : Nat]
        /\ m \in Nat /\ x \in [num : Nat, den : Nat]
    BY <1>0, <1>1, TypeStep DEF TypeOK
  <1>5. /\ \A i, j \in 1 .. n : i <= j /\ Measured(i) => seen[i] - seen[j] <= max_dd
        /\ max_dd > 0 => \E i, j \in 1 .. n :
                i <= j /\ Measured(i) /\ seen[i] - seen[j] = max_dd
        /\ \A j \in 1 .. n, p \in Equities :
                IsPeak(p, j) => ~ Less(max_dd_pct, Ratio(p - seen[j], p))
        /\ max_dd_pct # Zero => \E j \in 1 .. n, p \in Equities :
                IsPeak(p, j) /\ max_dd_pct = Ratio(p - seen[j], p)
    BY <1>0 DEF PerformanceInv, DrawdownIsMaximal
  <1>6. \/ /\ ~ Started \/ equity > peak_equity
           /\ p0 = equity /\ m = max_dd /\ x = max_dd_pct
        \/ \E d \in Nat, r \in [num : Nat, den : Nat] :
             /\ Started /\ p0 = peak_equity
             /\ d = peak_equity - equity /\ r = Ratio(d, peak_equity)
             /\ m = IF d > max_dd THEN d ELSE max_dd
             /\ x = IF Less(max_dd_pct, r) THEN r ELSE max_dd_pct
    BY <1>0, DrawdownCases
  <1>7. Started => IsPeak(peak_equity, n)
    BY <1>0, <1>1 DEF InHistory
  <1>8. \A i \in 1 .. n : Measured(i) => Started /\ seen[i] <= peak_equity
    <2> SUFFICES ASSUME NEW i \in 1 .. n, Measured(i) PROVE Started /\ seen[i] <= peak_equity
      OBVIOUS
    <2>1. Started
      <3> SUFFICES ASSUME ~ Started PROVE FALSE
        OBVIOUS
      <3>1. \A j \in 1 .. i : seen[j] < 0 /\ seen[j] \in Int
        BY <1>0, <1>1, <1>2 DEF NotStarted
      <3> QED
        BY <3>1 DEF Measured
    <2> QED
      BY <1>7, <2>1 DEF IsPeak
  <1>9. ASSUME NEW i \in 1 .. k, NEW j \in 1 .. k, i <= j, Measured(i)'
        PROVE  seen'[i] - seen'[j] <= m
    <2>1. m >= max_dd
      BY <1>4, <1>6
    <2>2. CASE j \in 1 .. n
      <3>1. i \in 1 .. n
        BY <1>2, <1>9, <2>2
      <3>2. seen[i] - seen[j] <= max_dd /\ seen[i] - seen[j] \in Int
        BY <1>2, <1>5, <1>9, <2>2, <3>1
      <3> QED
        BY <1>2, <1>4, <2>1, <2>2, <3>1, <3>2
    <2>3. CASE i = k /\ j = k
      BY <1>2, <1>3, <1>4, <2>3
    <2>4. CASE i \in 1 .. n /\ j = k
      <3>1. Started /\ seen[i] <= peak_equity /\ seen[i] \in Int
        BY <1>2, <1>8, <1>9, <2>4
      <3>2. seen'[i] = seen[i] /\ seen'[j] = equity
        BY <1>2, <2>4
      <3> QED
        BY <1>3, <1>4, <1>6, <3>1, <3>2
    <2> QED
      BY <1>2, <2>2, <2>3, <2>4
  <1>10. ASSUME m > 0
         PROVE  \E i, j \in 1 .. k : i <= j /\ Measured(i)' /\ seen'[i] - seen'[j] = m
    <2>1. CASE m = max_dd
      <3>1. PICK i \in 1 .. n, j \in 1 .. n : i <= j /\ Measured(i) /\ seen[i] - seen[j] = m
        BY <1>5, <1>10, <2>1
      <3>2. i \in 1 .. k /\ j \in 1 .. k
        BY <1>2
      <3> QED
        BY <1>2, <3>1, <3>2
    <2>2. CASE m # max_dd
      <3>1. Started /\ m = peak_equity - equity
        BY <1>6, <2>2
      <3>2. PICK i \in 1 .. n : Measured(i) /\ seen[i] = peak_equity
        BY <1>7, <3>1 DEF IsPeak
      <3>3. i \in 1 .. k /\ i <= k
        BY <1>2
      <3> QED
        BY <1>2, <3>1, <3>2, <3>3
    <2> QED
      BY <2>1, <2>2
  <1>11. (Started => peak_equity \in Nat) /\ (IsPeak(p0, k)' \/ ~ Started')
    <2>1. Started' => IsPeak(peak_equity, Len(seen))'
      BY HistoryStep DEF InHistory
    <2> QED
      BY <1>0, <2>1, PeakNat DEF IsPeak
  <1>12. ASSUME NEW j \in 1 .. k, NEW p \in Equities, IsPeak(p, j)'
         PROVE  ~ Less(x, Ratio(p - seen'[j], p))
    <2>1. CASE j \in 1 .. n
      <3> DEFINE y == Ratio(p - seen[j], p)
      <3>1. IsPeak(p, j)
        BY <1>2, <1>12, <2>1
      <3>2. p \in Nat /\ p - seen[j] \in Nat
        BY <1>0, <1>1, <2>1, <3>1, PeakFacts
      <3>3. y \in [num : Nat, den : Nat]
        BY <3>2, RatioNat
      <3>4. ~ Less(max_dd_pct, y)
        BY <1>5, <2>1, <3>1
      <3> HIDE DEF y
      <3>5. ~ Less(x, y)
        <4>1. CASE x = max_dd_pct
          BY <3>4, <4>1
        <4>2. CASE x # max_dd_pct
          <5>1. Less(max_dd_pct, x)
            BY <1>6, <4>2
          <5> DEFINE a == max_dd_pct.num
                     b == max_dd_pct.den
                     c == x.num
                     d == x.den
                     e == y.num
                     f == y.den
          <5>2. a \in Nat /\ b \in Nat /\ c \in Nat /\ d \in Nat /\ e \in Nat /\ f \in Nat
            BY <1>4, <3>3
          <5>3. ~ (a * f < e * b) /\ a * d < c * b
            BY <3>4, <5>1 DEF Less
          <5> HIDE DEF a, b, c, d, e, f
          <5>4. ~ (c * f < e * d)
            BY <5>2, <5>3, LessChain
          <5> QED
            BY <5>4 DEF Less, c, d, e, f
        <4> QED
          BY <4>1, <4>2
      <3> QED
        BY <1>2, <2>1, <3>5 DEF y
    <2>2. CASE j = k
      <3>1. IsPeak(p, k)'
        BY <1>12, <2>2
      <3>2. Started'
        <4> SUFFICES ASSUME ~ Started' PROVE FALSE
          OBVIOUS
        <4>1. \A i \in 1 .. k : seen'[i] < 0
          BY <1>0, HistoryStep DEF NotStarted
        <4>2. \A i \in 1 .. k : seen'[i] \in Int
          BY <1>2, <1>3
        <4>3. PICK i \in 1 .. k : Measured(i)'
          BY <3>1 DEF IsPeak
        <4>4. PICK l \in 1 .. i : seen'[l] >= 0
          BY <4>3 DEF Measured
        <4>5. l \in 1 .. k
          BY <1>2, <4>3, <4>4
        <4> QED
          BY <4>1, <4>2, <4>4, <4>5
      <3>3. p = p0
        <4>1. IsPeak(p0, k)'
          BY <1>11, <3>2
        <4>2. p \in Int /\ p0 \in Int
          BY <1>3, <1>6
        <4>3. p <= p0 /\ p0 <= p
          BY <3>1, <4>1 DEF IsPeak
        <4> QED
          BY <4>2, <4>3
      <3>4. seen'[j] = equity
        BY <1>2, <2>2
      <3>5. CASE p0 = equity
        <4>1. p - seen'[j] = 0
          BY <1>3, <3>3, <3>4, <3>5
        <4>2. p \in Nat
          <5>1. Started' => initial_equity' <= p0 /\ ~ (initial_equity' < 0)
            BY <1>0, HistoryStep DEF InHistory, Started
          <5>2. initial_equity' \in Int
            <6>1. initial_equity' \in Equities \cup {-1}
              BY TypeStep DEF TypeOK
            <6> QED
              BY <1>3, <6>1
          <5> QED
            BY <1>3, <3>2, <3>3, <5>1, <5>2
        <4> DEFINE y == Ratio(0, p)
        <4>3. y \in [num : Nat, den : Nat] /\ y.num = 0
          BY <4>2, RatioNat
        <4> HIDE DEF y
        <4>4. x.num * y.den \in Nat /\ y.num * x.den = 0
          BY <1>4, <4>3
        <4>5. ~ Less(x, y)
          BY <4>4 DEF Less
        <4> QED
          BY <4>1, <4>5 DEF y
      <3>6. CASE p0 # equity
        <4>1. PICK d \in Nat, r \in [num : Nat, den : Nat] :
             /\ Started /\ p0 = peak_equity
             /\ d = peak_equity - equity /\ r = Ratio(d, peak_equity)
             /\ m = IF d > max_dd THEN d ELSE max_dd
             /\ x = IF Less(max_dd_pct, r) THEN r ELSE max_dd_pct
          BY <1>6, <3>6
        <4>2. Ratio(p - seen'[j], p) = r
          BY <3>3, <3>4, <4>1
        <4>3. ~ Less(r, r)
          <5>1. r.num * r.den \in Nat
            OBVIOUS
          <5> QED
            BY <5>1 DEF Less
        <4> QED
          BY <4>1, <4>2, <4>3
      <3> QED
        BY <3>5, <3>6
    <2> QED
      BY <1>2, <2>1, <2>2
  <1>13. ASSUME x # Zero
         PROVE  \E j \in 1 .. k, p \in Equities : IsPeak(p, j)' /\ x = Ratio(p - seen'[j], p)
    <2>1. CASE x = max_dd_pct
      <3>1. PICK j \in 1 .. n, p \in Equities : IsPeak(p, j) /\ x = Ratio(p - seen[j], p)
        BY <1>5, <1>13, <2>1
      <3>2. j \in 1 .. k /\ IsPeak(p, j)' /\ seen'[j] = seen[j]
        BY <1>2, <3>1
      <3> QED
        BY <3>1, <3>2
    <2>2. CASE x # max_dd_pct
      <3>1. Started /\ p0 = peak_equity /\ x = Ratio(peak_equity - equity, peak_equity)
        BY <1>6, <2>2
      <3>2. Started'
        BY <3>1 DEF update, Started
      <3>3. IsPeak(p0, k)'
        BY <1>11, <3>2
      <3>4. p0 \in Equities
        <4>1. PICK i \in 1 .. n : seen[i] = peak_equity
          BY <1>7, <3>1 DEF IsPeak
        <4> QED
          BY <1>0, <1>1, <3>1, <4>1
      <3> QED
        BY <1>2, <3>1, <3>3, <3>4
    <2> QED
      BY <2>1, <2>2
  <1> QED
    BY <1>0, <1>9, <1>10, <1>12, <1>13 DEF DrawdownIsMaximal


-----------------------------------------------------------------------------
(* The theorems.                                                           *)

(* The invariant holds before the first update. *)
LEMMA PerformanceInit == Init => PerformanceInv
  <1> SUFFICES ASSUME Init PROVE PerformanceInv
    OBVIOUS
  <1>1. Zero \in Rational /\ Zero \in [num : Nat, den : Nat] /\ Zero.den > 0
    BY DEF Zero, Rational
  <1>2. TypeOK /\ NeverNaN
    BY <1>1 DEF Init, TypeOK, NeverNaN
  <1>3. seen = <<>> /\ Len(seen) = 0 /\ 1 .. Len(seen) = {} /\ ~ Started
    BY DEF Init, Started
  <1>4. NotStarted /\ InHistory
    BY <1>3 DEF Init, NotStarted, InHistory
  <1>5. DrawdownIsMaximal
    BY <1>3 DEF Init, DrawdownIsMaximal
  <1> QED
    BY <1>2, <1>4, <1>5, ReturnsKeptInit DEF PerformanceInv

(* Every step keeps it. *)
LEMMA PerformanceNext == PerformanceInv /\ [Next]_vars => PerformanceInv'
  <1> SUFFICES ASSUME PerformanceInv, [Next]_vars PROVE PerformanceInv'
    OBVIOUS
  <1>1. ASSUME NEW equity \in Equities, update(equity) PROVE PerformanceInv'
    BY <1>1, TypeStep, HistoryStep, DrawdownStep, ReturnsKeptStep DEF PerformanceInv
  <1>2. CASE UNCHANGED vars
    <2>1. /\ UNCHANGED <<initial_equity, last_equity, peak_equity, max_dd, max_dd_pct>>
          /\ UNCHANGED <<count, mean_return, m2, seen>>
      BY <1>2 DEF vars, returnVars
    <2>2. TypeOK' /\ NotStarted' /\ NeverNaN'
      BY <2>1 DEF PerformanceInv, TypeOK, NotStarted, NeverNaN, Started
    <2>3. InHistory' /\ DrawdownIsMaximal'
      BY <2>1 DEF PerformanceInv, InHistory, DrawdownIsMaximal, Started, IsPeak, Measured
    <2>4. ReturnTimes' = ReturnTimes /\ AllReturns' = AllReturns
          /\ \A c : SquaresFrom(c)' = SquaresFrom(c)
      BY <2>1 DEF ReturnTimes, AllReturns, SquaresFrom, ReturnAt, Measured
    <2>5. ReturnsKept'
      BY <2>1, <2>4 DEF PerformanceInv, ReturnsKept
    <2> QED
      BY <2>2, <2>3, <2>5 DEF PerformanceInv
  <1> QED
    BY <1>1, <1>2 DEF Next

(* The invariant holds in every reachable state of PerformanceAnalytics,   *)
(* whatever equities its updates are given.                                *)
THEOREM PerformanceInvariant == Spec => []PerformanceInv
  BY PerformanceInit, PerformanceNext, PTL DEF Spec

(* update keeps its figures in their types: the mean and the deviations    *)
(* are numbers whatever the equities were.                                 *)
THEOREM PerformanceTypeCorrect == Spec => []TypeOK
  <1>1. PerformanceInv => TypeOK
    BY DEF PerformanceInv
  <1> QED
    BY <1>1, PerformanceInvariant, PTL

(* max_drawdown and max_drawdown_pct, which update keeps without a         *)
(* history, are the largest falls that the whole history contains.         *)
THEOREM DrawdownCorrect == Spec => []DrawdownIsMaximal
  <1>1. PerformanceInv => DrawdownIsMaximal
    BY DEF PerformanceInv
  <1> QED
    BY <1>1, PerformanceInvariant, PTL


(* Zero is in lowest terms, and the only such fraction over 0. *)
LEMMA ZeroFacts ==
    /\ Zero \in Rational /\ Lowest(Zero) /\ Zero.num = 0 /\ Zero.den = 1
    /\ \A d \in Int : Is(Zero, 0, d)
    /\ \A x : Lowest(x) /\ x.num = 0 => x = Zero
  <1>1. Zero = Whole(0) /\ Zero.num = 0 /\ Zero.den = 1
    BY DEF Zero, Whole
  <1>2. Zero \in Rational /\ Lowest(Zero)
    BY <1>1, WholeIs
  <1>3. \A d \in Int : Is(Zero, 0, d)
    BY <1>1 DEF Is
  <1>4. ASSUME NEW x, Lowest(x), x.num = 0 PROVE x = Zero
    <2>1. x.den \in Int
      BY <1>4 DEF Lowest, Rational
    <2>2. x.num * Zero.den = Zero.num * x.den
      BY <1>1, <1>4, <2>1
    <2> QED
      BY <1>2, <1>4, <2>2, LowestUnique
  <1> QED
    BY <1>1, <1>2, <1>3, <1>4

(* The variance is zero just when the sum of squares is. *)
LEMMA VarianceFacts ==
    ASSUME NEW x, Lowest(x), NEW k \in Nat \ {0}
    PROVE  /\ Lowest(Over(x, Whole(k)))
           /\ Over(x, Whole(k)).num = 0 <=> x = Zero
           /\ Over(x, Whole(k)) = Zero <=> x = Zero
  <1> DEFINE v == Over(x, Whole(k))
  <1>1. x \in Rational /\ x.num \in Int /\ x.den \in Nat \ {0} /\ Is(x, x.num, x.den)
    BY DEF Lowest, Rational, Is
  <1>2. Lowest(v) /\ Is(v, x.num, x.den * k)
    BY <1>1, OverIs
  <1> HIDE DEF v
  <1>3. v.num \in Int /\ v.den \in Nat \ {0} /\ v.num * (x.den * k) = x.num * v.den
    BY <1>2 DEF Lowest, Rational, Is
  <1>4. x.den * k \in Nat \ {0}
    BY <1>1
  <1>5. v.num = 0 <=> x.num = 0
    <2> DEFINE a == v.num
               b == x.den * k
               c == x.num
               d == v.den
    <2>1. a \in Int /\ b \in Nat \ {0} /\ c \in Int /\ d \in Nat \ {0} /\ a * b = c * d
      BY <1>1, <1>3, <1>4
    <2> HIDE DEF a, b, c, d
    <2>2. a = 0 <=> c = 0
      BY <2>1
    <2> QED
      BY <2>2 DEF a, c
  <1> QED
    BY <1>2, <1>5, ZeroFacts DEF v

(* What the invariant says of the whole history's mean and squares. *)
LEMMA HistoryMean ==
    ASSUME PerformanceInv, NEW n, n = Cardinality(ReturnTimes), n >= 2
    PROVE  /\ n \in Nat /\ count = n
           /\ Over(SumOf(AllReturns, Len(seen)), Whole(n)) = mean_return
           /\ SumOf(SquaresFrom(mean_return), Len(seen)) = m2
  <1> DEFINE a == mean_return.num
             q == mean_return.den
  <1>1. /\ Lowest(mean_return) /\ Lowest(m2) /\ count = n /\ n \in Nat
        /\ SumOf(AllReturns, Len(seen)) = Times(Whole(n), mean_return)
        /\ \A c \in Rational : SumOf(SquaresFrom(c), Len(seen)) =
               Plus(m2, Times(Whole(n), Square(Minus(mean_return, c))))
    BY DEF PerformanceInv, TypeOK, ReturnsKept
  <1>2. /\ mean_return \in Rational /\ a \in Int /\ q \in Nat \ {0} /\ Is(mean_return, a, q)
        /\ m2 \in Rational /\ m2.num \in Int /\ m2.den \in Nat \ {0} /\ Is(m2, m2.num, m2.den)
    BY <1>1 DEF Lowest, Rational, Is
  <1>3. Whole(n) \in Rational /\ Is(Whole(n), n, 1) /\ 1 \in Nat \ {0} /\ n \in Nat \ {0} /\ n \in Int
    BY <1>1, WholeIs
  <1> HIDE DEF a, q
  <1>4. Over(Times(Whole(n), mean_return), Whole(n)) = mean_return
    <2> DEFINE t == Times(Whole(n), mean_return)
    <2>1. Lowest(t) /\ Is(t, n * a, 1 * q)
      BY <1>2, <1>3, TimesIs
    <2>2. t \in Rational /\ Is(t, n * a, q) /\ n * a \in Int /\ n * a = a * n
      BY <1>2, <1>3, <2>1 DEF Lowest
    <2> HIDE DEF t
    <2>3. Lowest(Over(t, Whole(n))) /\ Is(Over(t, Whole(n)), a, q)
      BY <1>2, <1>3, <2>2, OverIs
    <2>4. q \in Int /\ q # 0
      BY <1>2
    <2>5. Over(t, Whole(n)) = mean_return
      BY <1>1, <1>2, <2>3, <2>4, SameValue
    <2> QED
      BY <2>5 DEF t
  <1>5. Minus(mean_return, mean_return) = Zero
    <2>1. Lowest(Minus(mean_return, mean_return)) /\ Is(Minus(mean_return, mean_return), a - a, q)
      BY <1>2, PlusIs
    <2>2. a - a = 0 /\ q \in Int /\ q # 0
      BY <1>2
    <2> QED
      BY <2>1, <2>2, ZeroFacts, SameValue
  <1>6. Is(Zero, 0, 1) /\ Zero \in Rational /\ Lowest(Zero)
    BY ZeroFacts
  <1>7. Square(Zero) = Zero
    <2>1. Lowest(Square(Zero)) /\ Is(Square(Zero), 0 * 0, 1 * 1)
      BY <1>3, <1>6, TimesIs DEF Square
    <2> QED
      BY <1>6, <2>1, SameValue
  <1>8. Times(Whole(n), Zero) = Zero
    <2>1. Lowest(Times(Whole(n), Zero)) /\ Is(Times(Whole(n), Zero), n * 0, 1 * 1)
      BY <1>3, <1>6, TimesIs
    <2>2. n * 0 = 0
      BY <1>3
    <2> QED
      BY <1>6, <2>1, <2>2, SameValue
  <1>9. Plus(m2, Zero) = m2
    <2>1. m2.den \in Int /\ m2.den # 0 /\ m2.num + 0 = m2.num
      BY <1>2
    <2>2. Is(Zero, 0, m2.den)
      BY <2>1, ZeroFacts
    <2>3. Lowest(Plus(m2, Zero)) /\ Is(Plus(m2, Zero), m2.num + 0, m2.den)
      BY <1>2, <1>6, <2>2, PlusIs
    <2> QED
      BY <1>1, <1>2, <2>1, <2>3, SameValue
  <1>10. SumOf(SquaresFrom(mean_return), Len(seen)) = m2
    BY <1>1, <1>2, <1>5, <1>7, <1>8, <1>9
  <1> QED
    BY <1>1, <1>4, <1>10

(* sharpe_ratio, from the one-pass mean and deviations of Welford's        *)
(* method, is the textbook ratio of the returns of the whole history.      *)
THEOREM SharpeCorrect == Spec => []SharpeMatchesReturns
  <1>1. ASSUME PerformanceInv PROVE SharpeMatchesReturns
    <2> DEFINE n == Cardinality(ReturnTimes)
               mean == Over(SumOf(AllReturns, Len(seen)), Whole(n))
               variance == Over(SumOf(SquaresFrom(mean), Len(seen)), Whole(n - 1))
    <2> SUFFICES sharpe_ratio(Zero) =
                    IF n < 2 \/ variance = Zero THEN Zero
                    ELSE Over(Times(mean, [mean EXCEPT !.num = AbsOf(@)]), variance)
      BY DEF SharpeMatchesReturns, Whole
    <2>1. count = n /\ n \in Nat
      BY <1>1 DEF PerformanceInv, ReturnsKept, TypeOK
    <2>2. CASE n < 2
      BY <2>1, <2>2 DEF sharpe_ratio
    <2>3. CASE n >= 2
      <3>1. mean = mean_return /\ variance = Over(m2, Whole(n - 1))
        BY <1>1, <2>3, HistoryMean
      <3>2. n - 1 \in Nat \ {0} /\ Lowest(mean_return) /\ Lowest(m2)
        BY <1>1, <2>1, <2>3 DEF PerformanceInv, ReturnsKept
      <3> HIDE DEF n
      <3>3. Over(m2, Whole(n - 1)) = Zero <=> m2 = Zero
        BY <3>2, VarianceFacts
      <3>4. Minus(mean_return, Zero) = mean_return
        <4>1. mean_return \in Rational /\ mean_return.num \in Int /\ mean_return.den \in Nat \ {0}
              /\ Is(mean_return, mean_return.num, mean_return.den)
          BY <3>2 DEF Lowest, Rational, Is
        <4>2. mean_return.den \in Int /\ mean_return.den # 0 /\ mean_return.num - 0 = mean_return.num
          BY <4>1
        <4>3. Zero \in Rational /\ Is(Zero, 0, mean_return.den)
          BY <4>2, ZeroFacts
        <4>4. Lowest(Minus(mean_return, Zero))
              /\ Is(Minus(mean_return, Zero), mean_return.num - 0, mean_return.den)
          BY <4>1, <4>3, PlusIs
        <4> QED
          BY <3>2, <4>1, <4>2, <4>4, SameValue
      <3>5. sharpe_ratio(Zero) =
                IF count < 2 \/ m2 = Zero THEN Zero
                ELSE Over(Times(mean_return, [mean_return EXCEPT !.num = AbsOf(@)]),
                          Over(m2, Whole(count - 1)))
        BY <3>4 DEF sharpe_ratio, Whole
      <3> HIDE DEF mean, variance
      <3> QED
        BY <2>1, <3>1, <3>3, <3>5
    <2> QED
      BY <2>1, <2>2, <2>3
  <1> QED
    BY <1>1, PerformanceInvariant, PTL


(* The return is above the loss that a drawdown of x stands for: from the  *)
(* peak p, no less than the initial i, to the last equity l, the fall is   *)
(* at most x = a/b.                                                        *)
LEMMA ReturnAboveFall ==
    ASSUME NEW i \in Nat \ {0}, NEW l \in Nat, NEW p \in Nat, i <= p, NEW a \in Nat, NEW b \in Nat,
           a * p >= (p - l) * b
    PROVE  (l - i) * b + a * i >= 0
  <1> DEFINE s == (l - i) * b + a * i
  <1>1. s \in Int /\ p > 0
    OBVIOUS
  <1>2. s * p = (b * l) * (p - i) + (a * p - (p - l) * b) * i
    OBVIOUS
  <1>3. b * l \in Nat /\ p - i \in Nat /\ a * p - (p - l) * b \in Nat
    OBVIOUS
  <1>4. (b * l) * (p - i) >= 0
    BY <1>3
  <1>5. (a * p - (p - l) * b) * i >= 0
    BY <1>3
  <1>6. (b * l) * (p - i) \in Int /\ (a * p - (p - l) * b) * i \in Int
    BY <1>3
  <1> HIDE DEF s
  <1>7. s * p >= 0
    BY <1>2, <1>4, <1>5, <1>6
  <1>8. s >= 0
    BY <1>1, <1>7
  <1> QED
    BY <1>8 DEF s

(* While the account never was in debt, its largest drawdown is a number   *)
(* between 0 and 1.                                                        *)
LEMMA SolventDrawdown ==
    ASSUME PerformanceInv, \A i \in 1 .. Len(seen) : seen[i] >= 0
    PROVE  max_dd_pct \in Rational /\ max_dd_pct.num >= 0 /\ max_dd_pct.num <= max_dd_pct.den
  <1>1. max_dd_pct \in [num : Nat, den : Nat] /\ TypeOK
    BY DEF PerformanceInv, TypeOK
  <1>2. CASE max_dd_pct = Zero
    BY <1>2 DEF Zero, Rational
  <1>3. CASE max_dd_pct # Zero
    <2>1. PICK j \in 1 .. Len(seen), p \in Equities :
              IsPeak(p, j) /\ max_dd_pct = Ratio(p - seen[j], p)
      BY <1>3 DEF PerformanceInv, DrawdownIsMaximal
    <2>2. p \in Nat /\ seen[j] \in Nat /\ seen[j] <= p
      <3>1. p \in Nat /\ seen[j] \in Int /\ seen[j] <= p
        BY <1>1, <2>1, PeakFacts
      <3> QED
        BY <3>1
    <2> DEFINE f == p - seen[j]
               a == max_dd_pct.num
               b == max_dd_pct.den
    <2>3. f \in Nat /\ f <= p /\ a \in Nat /\ b \in Nat
      BY <1>1, <2>2
    <2>4. p # 0
      <3> SUFFICES ASSUME p = 0 PROVE FALSE
        OBVIOUS
      <3>1. f = 0
        BY <2>2
      <3>2. a = 0 /\ b = 0
        BY <2>1, <2>2, <2>3, <3>1, RatioNat
      <3> QED
        BY <3>2 DEF PerformanceInv, NeverNaN
    <2>5. b # 0 /\ a * p = f * b
      BY <2>1, <2>2, <2>3, <2>4, RatioNat DEF Is
    <2>6. a <= b
      <3> HIDE DEF a, b, f
      <3>1. (p - f) * b >= 0 /\ (p - f) * b = p * b - f * b
        BY <2>2, <2>3
      <3>2. (b - a) * p = p * b - a * p /\ f * b \in Int /\ p * b \in Int /\ (b - a) * p \in Int
        BY <2>2, <2>3
      <3>3. (b - a) * p >= 0
        BY <2>5, <3>1, <3>2
      <3>4. b - a \in Int /\ p > 0
        BY <2>2, <2>3, <2>4
      <3>5. b - a >= 0
        BY <2>2, <3>3, <3>4
      <3> QED
        BY <2>3, <3>5
    <2> QED
      BY <1>1, <2>3, <2>5, <2>6 DEF Rational
  <1> QED
    BY <1>2, <1>3

(* The squared Sharpe ratio is a number: the variance is no divisor when   *)
(* it is zero.                                                             *)
LEMMA SharpeIsNumber ==
    ASSUME PerformanceInv
    PROVE  IsNumber(sharpe_ratio(Zero))
  <1>1. count \in Nat /\ Lowest(mean_return) /\ Lowest(m2) /\ mean_return \in Rational
    BY DEF PerformanceInv, TypeOK, ReturnsKept
  <1>2. CASE count < 2 \/ m2 = Zero
    BY <1>2, ZeroFacts DEF sharpe_ratio, IsNumber
  <1>3. CASE ~ (count < 2 \/ m2 = Zero)
    <2> DEFINE e == Minus(mean_return, Zero)
               e2 == [e EXCEPT !.num = AbsOf(@)]
               t == Times(e, e2)
               v == Over(m2, Whole(count - 1))
    <2>1. count - 1 \in Nat \ {0}
      BY <1>1, <1>3
    <2>2. Lowest(v) /\ v.num # 0
      BY <1>1, <1>3, <2>1, VarianceFacts
    <2>3. v.num \in Int /\ v.den \in Nat \ {0}
      BY <2>2 DEF Lowest, Rational
    <2>4. e \in Rational
      BY <1>1, ZeroFacts, MinusRational
    <2>5. sharpe_ratio(Zero) = Over(t, v)
      BY <1>3 DEF sharpe_ratio, Whole
    <2> HIDE DEF e
    <2>6. e2 \in Rational
      BY <2>4 DEF Rational, AbsOf
    <2> HIDE DEF e2
    <2>7. t \in Rational
      <3>1. /\ e.num \in Int /\ e.den \in Nat \ {0} /\ Is(e, e.num, e.den)
            /\ e2.num \in Int /\ e2.den \in Nat \ {0} /\ Is(e2, e2.num, e2.den)
        BY <2>4, <2>6 DEF Rational, Is
      <3> QED
        BY <2>4, <2>6, <3>1, TimesIs DEF Lowest
    <2> HIDE DEF t, v
    <2>8. t.num \in Int /\ t.den \in Nat \ {0}
      BY <2>7 DEF Rational
    <2>9. t.num * v.den \in Int /\ t.den * v.num \in Int /\ t.den * v.num # 0
      BY <2>2, <2>3, <2>8
    <2>10. Lowest(Over(t, v))
      BY <2>9, RatioLowest DEF Over
    <2> QED
      BY <2>5, <2>10 DEF IsNumber, Lowest, Rational
  <1> QED
    BY <1>2, <1>3

(* The return of a solvent account never falls below the drawdown. *)
LEMMA ReturnAboveDrawdown ==
    ASSUME PerformanceInv, \A i \in 1 .. Len(seen) : seen[i] >= 0
    PROVE  IsNumber(total_return) /\ ~ Less(Plus(total_return, max_dd_pct), Zero)
  <1> DEFINE a == max_dd_pct.num
             b == max_dd_pct.den
             ret == total_return
             s == Plus(ret, max_dd_pct)
  <1>1. max_dd_pct \in Rational /\ a \in Nat /\ b \in Nat \ {0} /\ Is(max_dd_pct, a, b)
    BY SolventDrawdown DEF Rational, Is
  <1>2. TypeOK /\ initial_equity \in Int /\ last_equity \in Int /\ peak_equity \in Int
    BY EquitiesAreInts DEF PerformanceInv
  <1>3. ASSUME NEW c \in Int, NEW q \in Nat \ {0}, c >= 0, Lowest(s), Is(s, c, q)
        PROVE  ~ Less(s, Zero)
    <2> DEFINE sn == s.num
               sd == s.den
    <2>1. sn \in Int /\ sd \in Nat \ {0} /\ sn * q = c * sd
      BY <1>3 DEF Lowest, Rational, Is
    <2> HIDE DEF sn, sd
    <2>2. c * sd >= 0
      BY <1>3, <2>1
    <2>3. sn >= 0
      BY <1>3, <2>1, <2>2
    <2>4. sn * 1 = sn /\ 0 * sd = 0
      BY <2>1
    <2>5. ~ (sn * Zero.den < Zero.num * sd)
      BY <2>1, <2>3, <2>4, ZeroFacts
    <2> QED
      BY <2>5 DEF Less, sn, sd
  <1>4. CASE initial_equity <= 0
    <2>1. ret = Zero
      BY <1>4 DEF total_return
    <2>2. b \in Int /\ 0 + a = a /\ a \in Int
      BY <1>1
    <2>3. Zero \in Rational /\ Is(Zero, 0, b) /\ Zero.den = 1
      BY <2>2, ZeroFacts
    <2>4. Lowest(s) /\ Is(s, 0 + a, b)
      BY <1>1, <2>1, <2>2, <2>3, PlusIs
    <2> QED
      BY <1>1, <1>3, <2>1, <2>2, <2>3, <2>4 DEF IsNumber
  <1>5. CASE initial_equity > 0
    <2> DEFINE i == initial_equity
               l == last_equity
               p == peak_equity
               r == Ratio(p - l, p)
    <2>1. Started
      BY <1>2, <1>5 DEF Started
    <2>2. PICK n : n = Len(seen)
      OBVIOUS
    <2>3. n \in 1 .. n /\ l = seen[n] /\ IsPeak(p, n) /\ i <= p
      <3>1. n > 0 /\ l = seen[n] /\ IsPeak(p, n) /\ i <= p
        BY <2>1, <2>2 DEF PerformanceInv, InHistory
      <3>2. n \in Nat
        BY <1>2, <2>2 DEF TypeOK
      <3> QED
        BY <3>1, <3>2
    <2>4. i \in Nat \ {0} /\ l \in Nat /\ p \in Nat \ {0}
      BY <1>2, <1>5, <2>2, <2>3
    <2>5. p \in Equities
      BY <1>2, <2>4 DEF TypeOK
    <2>6. p - l \in Nat
      BY <1>2, <2>2, <2>3, <2>4, <2>5, PeakFacts
    <2>7. ~ Less(max_dd_pct, r)
      BY <2>2, <2>3, <2>5 DEF PerformanceInv, DrawdownIsMaximal
    <2>8. r.num \in Nat /\ r.den \in Nat \ {0} /\ r.num * p = (p - l) * r.den
      BY <2>4, <2>6, RatioNat DEF Is
    <2>9. a * r.den >= r.num * b
      <3>1. a * r.den \in Int /\ r.num * b \in Int
        BY <1>1, <2>8
      <3> QED
        BY <2>7, <3>1 DEF Less
    <2> DEFINE rn == r.num
               rd == r.den
    <2>10. ret = Ratio(l - i, i)
      BY <1>2, <1>5 DEF total_return
    <2>11. Lowest(ret) /\ Is(ret, l - i, i)
      BY <2>4, <2>10, RatioLowest
    <2>12. a * p >= (p - l) * b
      <3> HIDE DEF a, b, i, l, p, r, rn, rd
      <3> DEFINE f == p - l
      <3>1. f \in Nat /\ p \in Nat \ {0} /\ rn \in Nat /\ rd \in Nat \ {0} /\ rn * p = f * rd
            /\ a * rd >= rn * b /\ a \in Nat /\ b \in Nat
        BY <1>1, <2>4, <2>6, <2>8, <2>9 DEF rn, rd
      <3> HIDE DEF f
      <3>2. (a * rd - rn * b) * p >= 0
        <4>1. a * rd - rn * b \in Nat
          BY <3>1
        <4> QED
          BY <3>1, <4>1
      <3>3. (a * rd - rn * b) * p = (a * p) * rd - (rn * p) * b
        BY <3>1
      <3>4. (f * rd) * b = (f * b) * rd
        BY <3>1
      <3>5. (a * p - f * b) * rd = (a * p) * rd - (f * b) * rd
        BY <3>1
      <3>6. (a * p - f * b) * rd >= 0
        BY <3>1, <3>2, <3>3, <3>4, <3>5
      <3>7. a * p \in Int /\ f * b \in Int
        BY <3>1
      <3>8. a * p - f * b >= 0
        BY <3>1, <3>6, <3>7
      <3>9. a * p >= f * b
        BY <3>7, <3>8
      <3> QED
        BY <3>9 DEF f
    <2>13. (l - i) * b + a * i >= 0
      <3> HIDE DEF a, b, i, l, p
      <3> QED
        BY <1>1, <2>3, <2>4, <2>12, ReturnAboveFall
    <2>14. Is(ret, (l - i) * b, i * b) /\ Is(max_dd_pct, a * i, i * b)
           /\ ret \in Rational /\ IsNumber(ret)
      <3>1. ret \in Rational /\ IsNumber(ret)
        BY <2>11 DEF Lowest, Rational, IsNumber
      <3> HIDE DEF a, b, i, l, p, ret
      <3>2. /\ (l - i) * (i * b) = ((l - i) * b) * i /\ a * (i * b) = (a * i) * b
            /\ l - i \in Int /\ (l - i) * b \in Int /\ i * b \in Int /\ a * i \in Int
            /\ i \in Int /\ i # 0 /\ b \in Int /\ b # 0 /\ a \in Int
        BY <1>1, <2>4
      <3>3. Is(ret, (l - i) * b, i * b)
        BY <2>11, <3>1, <3>2, Rewritten
      <3>4. Is(max_dd_pct, a * i, i * b)
        BY <1>1, <3>2, Rewritten
      <3> QED
        BY <3>1, <3>3, <3>4
    <2> HIDE DEF a, b, i, l, p, ret
    <2>15. (l - i) * b \in Int /\ a * i \in Int /\ i * b \in Nat \ {0}
      BY <1>1, <2>4
    <2>16. Lowest(s) /\ Is(s, (l - i) * b + a * i, i * b)
      BY <1>1, <2>14, <2>15, PlusIs
    <2>17. (l - i) * b + a * i \in Int
      BY <2>15
    <2> HIDE DEF s
    <2>18. ~ Less(s, Zero)
      BY <1>3, <2>13, <2>15, <2>16, <2>17
    <2> QED
      BY <2>14, <2>18 DEF s, ret
  <1> QED
    BY <1>2, <1>4, <1>5

(* A quotient of naturals is more than one only if the dividend is larger. *)
LEMMA RatioAboveOne ==
    ASSUME NEW n \in Nat, NEW d \in Nat \ {0}, Ratio(n, d).num > Ratio(n, d).den
    PROVE  n > d
  <1> DEFINE r == Ratio(n, d)
             a == r.num
             b == r.den
  <1>1. a \in Nat /\ b \in Nat \ {0} /\ a * d = n * b /\ a > b
    BY RatioNat DEF Is
  <1> HIDE DEF a, b
  <1>2. ASSUME n <= d PROVE FALSE
    <2>1. n * b <= d * b
      BY <1>1, <1>2
    <2>2. d * b < d * a
      BY <1>1
    <2>3. d * a = a * d /\ n * b \in Nat /\ d * b \in Nat /\ a * d \in Nat
      BY <1>1
    <2> QED
      BY <1>1, <2>1, <2>2, <2>3
  <1> QED
    BY <1>2

(* annualized_return of an account that never was in debt. *)
LEMMA AnnualizedKinds ==
    ASSUME PerformanceInv, \A i \in 1 .. Len(seen) : seen[i] >= 0, NEW duration \in Durations
    PROVE  LET p == annualized_return(duration)
           IN  /\ IsNumber(p.base)
               /\ "NaN" \notin PowKinds(p)
               /\ "infinite" \in PowKinds(p) => duration < Year /\ Less(Zero, total_return)
  <1> DEFINE p == annualized_return(duration)
  <1>1. CASE duration <= 0 \/ initial_equity <= 0
    <2>1. p = [base |-> One, exponent |-> One]
      BY <1>1, Zenon DEF annualized_return
    <2>2. p.base.num = 1 /\ p.base.den = 1
      BY <2>1 DEF One
    <2>3. AbsOf(1) = 1
      BY DEF AbsOf
    <2> HIDE DEF p
    <2>4. "NaN" \notin PowKinds(p) /\ "infinite" \notin PowKinds(p)
      BY <2>2, <2>3 DEF PowKinds
    <2> QED
      BY <2>2, <2>4 DEF IsNumber, p
  <1>2. CASE ~ (duration <= 0 \/ initial_equity <= 0)
    <2> DEFINE base == Ratio(last_equity, initial_equity)
               exponent == Ratio(Year, duration)
    <2>1. p = [base |-> base, exponent |-> exponent]
      BY <1>2, Zenon DEF annualized_return
    <2>2. p.base = base /\ p.exponent = exponent
      BY <2>1
    <2>3. TypeOK /\ initial_equity \in Int /\ last_equity \in Int
      BY EquitiesAreInts DEF PerformanceInv
    <2>4. initial_equity \in Nat \ {0} /\ Started
      BY <1>2, <2>3 DEF Started
    <2>5. Len(seen) \in Nat
      BY <2>3 DEF TypeOK
    <2>6. Len(seen) \in 1 .. Len(seen) /\ last_equity = seen[Len(seen)]
      BY <2>4, <2>5 DEF PerformanceInv, InHistory
    <2>7. last_equity \in Nat
      BY <2>3, <2>6
    <2>8. duration \in Nat \ {0} /\ Year \in Nat
      BY <1>2, PerformanceAssumption
    <2>9. base.num \in Nat /\ base.den \in Nat \ {0}
      BY <2>4, <2>7, RatioNat
    <2>10. AbsOf(base.num) = base.num
      BY <2>9 DEF AbsOf
    <2>11. base.num > base.den => last_equity > initial_equity
      BY <2>4, <2>7, RatioAboveOne
    <2>12. exponent.num > exponent.den => Year > duration
      BY <2>8, RatioAboveOne
    <2> HIDE DEF p, base, exponent
    <2>13. "NaN" \notin PowKinds(p)
      BY <2>2, <2>9 DEF PowKinds
    <2>14. "infinite" \in PowKinds(p) =>
                base.num > base.den /\ exponent.num > exponent.den
      BY <2>2, <2>10 DEF PowKinds
    <2>15. last_equity > initial_equity => Less(Zero, total_return)
      <3> SUFFICES ASSUME last_equity > initial_equity PROVE Less(Zero, total_return)
        OBVIOUS
      <3> DEFINE gain == last_equity - initial_equity
      <3>1. gain \in Nat \ {0} /\ total_return = Ratio(gain, initial_equity)
        BY <2>4, <2>7 DEF total_return
      <3> DEFINE a == Ratio(gain, initial_equity).num
                 b == Ratio(gain, initial_equity).den
      <3> HIDE DEF gain
      <3>2. a \in Nat /\ b \in Nat \ {0} /\ a * initial_equity = gain * b
        BY <2>4, <3>1, RatioNat DEF Is
      <3>3. total_return.num = a /\ total_return.den = b
        BY <3>1
      <3> HIDE DEF a, b
      <3>4. a > 0
        <4>1. gain * b > 0
          BY <3>1, <3>2
        <4> QED
          BY <2>4, <3>2, <4>1
      <3> QED
        BY <3>2, <3>3, <3>4 DEF Less, Zero
    <2> QED
      BY <2>2, <2>8, <2>9, <2>11, <2>12, <2>13, <2>14, <2>15 DEF IsNumber, p
  <1> QED
    BY <1>1, <1>2

(* What generate_console_summary prints of an account that never was in    *)
(* debt is never NaN, and infinite only where the annualized return of a   *)
(* gain made in less than a year overflows.  The figures agree with one    *)
(* another: no more is lost than there was, and no more than the largest   *)
(* drawdown.                                                               *)
THEOREM ReportIsSane == Spec => []SolventReportIsSane
  <1>1. ASSUME PerformanceInv PROVE SolventReportIsSane
    <2> SUFFICES ASSUME \A i \in 1 .. Len(seen) : seen[i] >= 0, NEW duration \in Durations
                 PROVE  LET p == annualized_return(duration)
                        IN  /\ IsNumber(total_return) /\ IsNumber(p.base)
                            /\ IsNumber(max_dd_pct) /\ IsNumber(sharpe_ratio(Zero))
                            /\ "NaN" \notin PowKinds(p)
                            /\ "infinite" \in PowKinds(p) =>
                                    duration < Year /\ Less(Zero, total_return)
                            /\ ~ Less(One, max_dd_pct)
                            /\ ~ Less(Plus(total_return, max_dd_pct), Zero)
      BY DEF SolventReportIsSane, generate_console_summary
    <2>1. IsNumber(total_return) /\ ~ Less(Plus(total_return, max_dd_pct), Zero)
      BY <1>1, ReturnAboveDrawdown
    <2>2. IsNumber(max_dd_pct) /\ ~ Less(One, max_dd_pct)
      <3>1. max_dd_pct \in Rational /\ max_dd_pct.num >= 0 /\ max_dd_pct.num <= max_dd_pct.den
        BY <1>1, SolventDrawdown
      <3>2. max_dd_pct.num \in Int /\ max_dd_pct.den \in Nat \ {0}
        BY <3>1 DEF Rational
      <3> QED
        BY <3>1, <3>2 DEF IsNumber, Less, One
    <2> QED
      BY <1>1, <2>1, <2>2, SharpeIsNumber, AnnualizedKinds
  <1> QED
    BY <1>1, PerformanceInvariant, PTL
=============================================================================
