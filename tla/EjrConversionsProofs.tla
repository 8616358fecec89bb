------------------------ MODULE EjrConversionsProofs ------------------------
(***************************************************************************)
(* Theorems about EjrConversions, for every format of the numbers that     *)
(* FormatAssumption allows and for values of any nesting.                  *)
(*                                                                         *)
(* The module goes from the arithmetic up: powers of two, division, words  *)
(* of two's complement, doubles. Facts about all powers are proved by the  *)
(* least counterexample (NatMin, NatAll). Shifting bits in a word is       *)
(* multiplying and dividing by such powers, so that JS_ToInt32Free is      *)
(* ECMAScript's ToInt32 (ToInt32Modular) and an int survives as a double   *)
(* (NearestExact). The parts of a value are then treated one kind at a     *)
(* time, and a value part by part.                                         *)
(***************************************************************************)
EXTENDS EjrConversions, WellFoundedInduction, TLAPS

\* A set of natural numbers that is not empty has a least member.
LEMMA NatMin ==
  ASSUME NEW T, T \subseteq Nat, T # {}
  PROVE  \E x \in T : \A y \in T : x <= y
<1> DEFINE R == {ss \in Nat \X Nat : ss[1] < ss[2]}
<1>1. IsWellFoundedOn(R, Nat)
  BY NatLessThanWellFounded DEF OpToRel
<1> HIDE DEF R
<1>2. PICK x \in T : \A y \in T : <<y, x>> \notin R
  BY <1>1, WFMin
<1>3. ASSUME NEW y \in T PROVE x <= y
  <2>1. <<y, x>> \notin R
    BY <1>2
  <2>2. ~(y < x)
    BY <2>1 DEF R
  <2> QED
    BY <2>2
<1> QED
  BY <1>2, <1>3

\* A set of natural numbers that has 0, and with a number the next one, has all.
LEMMA NatAll ==
  ASSUME NEW S, 0 \in S, \A n \in Nat : n \in S => n + 1 \in S
  PROVE  Nat \subseteq S
<1> SUFFICES ASSUME Nat \ S # {} PROVE FALSE
  OBVIOUS
<1>1. PICK n \in Nat \ S : \A m \in Nat \ S : n <= m
  BY NatMin, Nat \ S \subseteq Nat
<1>2. n - 1 \in Nat /\ n - 1 \in S
  BY <1>1
<1> QED
  BY <1>1, <1>2

-----------------------------------------------------------------------------
(* Powers of two *)

\* The beginning of Pow2: the powers up to the n-th.
Powers(n) ==
  {g \in [0 .. n -> Nat] : g[0] = 1 /\ \A i \in 0 .. n : i # 0 => g[i] = 2 * g[i - 1]}

\* There is such a beginning, however far.
LEMMA PowersExist ==
  ASSUME NEW n \in Nat
  PROVE  Powers(n) # {}
<1> DEFINE S == {k \in Nat : Powers(k) # {}}
<1>1. 0 \in S
  <2>1. [i \in 0 .. 0 |-> 1] \in Powers(0)
    BY DEF Powers
  <2> QED
    BY <2>1
<1>2. ASSUME NEW k \in Nat, k \in S PROVE k + 1 \in S
  <2>1. PICK g \in [0 .. k -> Nat] : g[0] = 1 /\ \A i \in 0 .. k : i # 0 => g[i] = 2 * g[i - 1]
    BY <1>2 DEF Powers
  <2> DEFINE h == [i \in 0 .. k + 1 |-> IF i = k + 1 THEN 2 * g[k] ELSE g[i]]
  <2>2. h \in [0 .. k + 1 -> Nat]
    BY <2>1
  <2>3. h[0] = 1
    BY <2>1
  <2>4. ASSUME NEW i \in 0 .. k + 1, i # 0 PROVE h[i] = 2 * h[i - 1]
    BY <2>1, <2>4
  <2>5. h \in Powers(k + 1)
    BY <2>2, <2>3, <2>4 DEF Powers
  <2> QED
    BY <2>5
<1> HIDE DEF S
<1>3. Nat \subseteq S
  BY <1>1, <1>2, NatAll
<1> QED
  BY <1>3 DEF S

\* Two of them agree as far as both go.
LEMMA PowersAgree ==
  ASSUME NEW m \in Nat, NEW n \in Nat, NEW g \in Powers(m), NEW h \in Powers(n),
         NEW i \in Nat, i <= m, i <= n
  PROVE  g[i] = h[i]
<1> DEFINE S == {k \in Nat : k <= m /\ k <= n => g[k] = h[k]}
<1>1. 0 \in S
  BY DEF Powers
<1>2. ASSUME NEW k \in Nat, k \in S PROVE k + 1 \in S
  <2> SUFFICES ASSUME k + 1 <= m, k + 1 <= n PROVE g[k + 1] = h[k + 1]
    OBVIOUS
  <2>1. g[k] = h[k]
    BY <1>2
  <2>2. k + 1 \in 0 .. m /\ k + 1 \in 0 .. n /\ k + 1 # 0 /\ (k + 1) - 1 = k
    OBVIOUS
  <2>3. g[k + 1] = 2 * g[(k + 1) - 1] /\ h[k + 1] = 2 * h[(k + 1) - 1]
    BY <2>2 DEF Powers
  <2> QED
    BY <2>1, <2>2, <2>3
<1> HIDE DEF S
<1>3. Nat \subseteq S
  BY <1>1, <1>2, NatAll
<1> QED
  BY <1>3 DEF S

\* Pow2 is what its definition says.
LEMMA PowDef ==
  Pow2 = [n \in Nat |-> IF n = 0 THEN 1 ELSE 2 * Pow2[n - 1]]
<1> DEFINE G(n) == CHOOSE g \in Powers(n) : TRUE
           f == [n \in Nat |-> G(n)[n]]
<1>1. \A n \in Nat : G(n) \in Powers(n)
  BY PowersExist
<1> HIDE DEF G
<1>2. ASSUME NEW n \in Nat PROVE f[n] = IF n = 0 THEN 1 ELSE 2 * f[n - 1]
  <2>1. CASE n = 0
    BY <1>1, <2>1 DEF Powers
  <2>2. CASE n # 0
    <3>1. n - 1 \in Nat /\ n \in 0 .. n /\ n - 1 <= n
      BY <2>2
    <3>2. G(n) \in Powers(n) /\ G(n - 1) \in Powers(n - 1)
      BY <1>1, <3>1
    <3>3. G(n)[n] = 2 * G(n)[n - 1]
      BY <3>1, <3>2, <2>2 DEF Powers
    <3>4. G(n)[n - 1] = G(n - 1)[n - 1]
      BY <3>1, <3>2, PowersAgree
    <3> QED
      BY <2>2, <3>1, <3>3, <3>4
  <2> QED
    BY <2>1, <2>2
<1>3. f = [n \in Nat |-> IF n = 0 THEN 1 ELSE 2 * f[n - 1]]
  <2>1. f = [n \in Nat |-> f[n]]
    OBVIOUS
  <2> HIDE DEF f
  <2> QED
    BY <1>2, <2>1
<1> HIDE DEF f
<1> QED
  BY <1>3 DEF Pow2

\* The equations of Pow2.
LEMMA PowStep ==
  /\ Pow2[0] = 1
  /\ \A n \in Nat : Pow2[n + 1] = 2 * Pow2[n]
<1>1. \A n \in Nat : Pow2[n] = IF n = 0 THEN 1 ELSE 2 * Pow2[n - 1]
  BY PowDef
<1> QED
  BY <1>1

\* A power of two is a positive integer.
LEMMA PowType ==
  ASSUME NEW n \in Nat
  PROVE  Pow2[n] \in Nat /\ Pow2[n] > 0
<1> DEFINE S == {k \in Nat : Pow2[k] \in Nat /\ Pow2[k] > 0}
<1>1. 0 \in S /\ \A k \in Nat : k \in S => k + 1 \in S
  BY PowStep
<1> HIDE DEF S
<1>2. Nat \subseteq S
  BY <1>1, NatAll
<1> QED
  BY <1>2 DEF S

\* The exponents add up.
LEMMA PowAdd ==
  ASSUME NEW m \in Nat, NEW n \in Nat
  PROVE  Pow2[m + n] = Pow2[m] * Pow2[n]
<1> DEFINE S == {k \in Nat : Pow2[m + k] = Pow2[m] * Pow2[k]}
<1>1. 0 \in S
  BY PowStep, PowType
<1>2. ASSUME NEW k \in Nat, k \in S PROVE k + 1 \in S
  <2> DEFINE a == Pow2[m]
             b == Pow2[k]
  <2>1. a \in Nat /\ b \in Nat /\ Pow2[k + 1] = 2 * b /\ Pow2[m + k] = a * b
    BY <1>2, PowStep, PowType
  <2>2. Pow2[(m + k) + 1] = 2 * Pow2[m + k]
    BY PowStep
  <2> HIDE DEF a, b
  <2>3. a * (2 * b) = 2 * (a * b)
    BY <2>1
  <2>4. m + (k + 1) = (m + k) + 1
    OBVIOUS
  <2> QED
    BY <2>1, <2>2, <2>3, <2>4 DEF a
<1> HIDE DEF S
<1>3. Nat \subseteq S
  BY <1>1, <1>2, NatAll
<1> QED
  BY <1>3 DEF S

\* PowAdd, with a name for the sum.
LEMMA PowSum ==
  ASSUME NEW m \in Nat, NEW n \in Nat, NEW k \in Nat, m + n = k
  PROVE  Pow2[k] = Pow2[m] * Pow2[n]
  BY PowAdd

\* A larger exponent makes a larger power.
LEMMA PowLess ==
  ASSUME NEW m \in Nat, NEW n \in Nat, m < n
  PROVE  2 * Pow2[m] <= Pow2[n]
<1> DEFINE S == {k \in Nat : 2 * Pow2[m] <= Pow2[(m + 1) + k]}
<1>1. 0 \in S
  BY PowStep, PowType
<1>2. ASSUME NEW k \in Nat, k \in S PROVE k + 1 \in S
  <2>1. Pow2[(m + 1 + k) + 1] = 2 * Pow2[m + 1 + k] /\ Pow2[m + 1 + k] \in Nat /\ Pow2[m] \in Nat
    BY PowStep, PowType
  <2>2. (m + 1) + (k + 1) = (m + 1 + k) + 1
    OBVIOUS
  <2> QED
    BY <1>2, <2>1, <2>2
<1> HIDE DEF S
<1>3. Nat \subseteq S
  BY <1>1, <1>2, NatAll
<1>4. n - m - 1 \in Nat /\ (m + 1) + (n - m - 1) = n
  OBVIOUS
<1>5. n - m - 1 \in S
  BY <1>3, <1>4
<1> QED
  BY <1>4, <1>5 DEF S

\* Every positive integer lies between two powers of two.
LEMMA PowBetween ==
  ASSUME NEW L \in Nat, NEW k \in Nat, k > 0, k < Pow2[L]
  PROVE  \E p \in Nat : p < L /\ Pow2[p] <= k /\ k < Pow2[p + 1]
<1> DEFINE T == {j \in Nat : k < Pow2[j]}
<1>1. T \subseteq Nat /\ L \in T
  OBVIOUS
<1> HIDE DEF T
<1>2. PICK j \in T : \A i \in T : j <= i
  BY <1>1, NatMin
<1>3. j \in Nat /\ j # 0 /\ j <= L
  BY <1>1, <1>2, PowStep DEF T
<1>4. j - 1 \in Nat /\ (j - 1) + 1 = j /\ j - 1 \notin T /\ j - 1 < L
  BY <1>2, <1>3
<1>5. Pow2[j - 1] <= k /\ k < Pow2[j]
  BY <1>2, <1>3, <1>4, PowType DEF T
<1> QED
  BY <1>4, <1>5

-----------------------------------------------------------------------------
(* Division *)

\* Quotient and remainder.
LEMMA DivMod ==
  ASSUME NEW a \in Int, NEW b \in Nat, b > 0
  PROVE  /\ a \div b \in Int /\ a % b \in Int /\ 0 <= a % b /\ a % b < b
         /\ a = b * (a \div b) + (a % b)
  OBVIOUS

\* They are determined by what they are for.
LEMMA DivModIs ==
  ASSUME NEW a \in Int, NEW b \in Nat, b > 0, NEW q \in Int, NEW r \in Int,
         0 <= r, r < b, a = b * q + r
  PROVE  a \div b = q /\ a % b = r
  OBVIOUS

\* A product grows with its factor.
LEMMA MulLess ==
  ASSUME NEW a \in Int, NEW b \in Int, NEW c \in Int, a <= b, c >= 0
  PROVE  a * c <= b * c
  OBVIOUS

\* The laws of products that the solvers do not find in a larger formula.
LEMMA MulSwap ==
  ASSUME NEW a \in Int, NEW b \in Int, NEW c \in Int
  PROVE  a * b = b * a /\ (a * b) * c = a * (b * c) /\ a * (b + c) = a * b + a * c
  OBVIOUS

\* A product of natural numbers is one.
LEMMA MulType ==
  ASSUME NEW a \in Nat, NEW b \in Nat
  PROVE  a * b \in Nat /\ (a > 0 /\ b > 0 => a * b > 0)
  OBVIOUS

\* A bound for a quotient.
LEMMA DivLess ==
  ASSUME NEW a \in Nat, NEW b \in Nat, b > 0, NEW c \in Nat, a < b * c
  PROVE  a \div b \in Nat /\ a \div b < c
  OBVIOUS

\* A quotient without a remainder.
LEMMA DivExact ==
  ASSUME NEW a \in Int, NEW b \in Nat, b > 0
  PROVE  (a * b) \div b = a
<1>1. a * b = b * a + 0 /\ a * b \in Int
  BY MulSwap
<1> QED
  BY <1>1, DivModIs

\* A common factor cancels.
LEMMA DivCancel ==
  ASSUME NEW a \in Nat, NEW b \in Nat, b > 0, NEW c \in Nat, c > 0
  PROVE  (a * c) \div (b * c) = a \div b
<1> DEFINE q == a \div b
           r == a % b
<1>1. q \in Int /\ r \in Int /\ 0 <= r /\ r < b /\ a = b * q + r
  BY DivMod
<1> HIDE DEF q, r
<1>2. a * c = (b * c) * q + r * c
  <2>1. a * c = (b * q) * c + r * c
    BY <1>1
  <2>2. (b * q) * c = (b * c) * q
    BY <1>1
  <2> QED
    BY <2>1, <2>2
<1>3. 0 <= r * c /\ r * c < b * c /\ r * c \in Int /\ b * c \in Nat /\ b * c > 0 /\ a * c \in Int
  <2>1. (r + 1) * c <= b * c
    BY <1>1, MulLess
  <2>2. (r + 1) * c = r * c + c
    BY <1>1
  <2> QED
    BY <1>1, <2>1, <2>2, MulType
<1>4. (a * c) \div (b * c) = q
  BY <1>1, <1>2, <1>3, DivModIs
<1> QED
  BY <1>4 DEF q

\* The upper half of a double word.
LEMMA UpperHalf ==
  ASSUME NEW x \in Nat, NEW b \in Nat, b > 0
  PROVE  (x % (b * b)) \div b = (x \div b) % b
<1> DEFINE q == x \div b
           r == x % b
           u == q \div b
           v == q % b
<1>1. q \in Int /\ r \in Int /\ 0 <= r /\ r < b /\ x = b * q + r
  BY DivMod
<1> HIDE DEF q, r
<1>2. u \in Int /\ v \in Int /\ 0 <= v /\ v < b /\ q = b * u + v
  BY <1>1, DivMod
<1> HIDE DEF u, v
<1>3. x = (b * b) * u + (b * v + r)
  <2>1. b * q = b * (b * u) + b * v
    BY <1>1, <1>2
  <2>2. b * (b * u) = (b * b) * u
    BY <1>1, <1>2
  <2> QED
    BY <1>1, <1>2, <2>1, <2>2
<1>4. b * v + r \in Int /\ 0 <= b * v + r /\ b * v + r < b * b /\ b * b \in Nat /\ b * b > 0
  <2>1. (v + 1) * b <= b * b /\ 0 * b <= v * b
    BY <1>2, MulLess
  <2>2. (v + 1) * b = b * v + b /\ v * b = b * v /\ 0 * b = 0
    BY <1>2
  <2> QED
    BY <1>1, <1>2, <2>1, <2>2, MulType
<1>5. x % (b * b) = b * v + r
  <2> DEFINE bb == b * b
             rr == b * v + r
  <2>1. bb \in Nat /\ bb > 0 /\ rr \in Int /\ 0 <= rr /\ rr < bb /\ x = bb * u + rr
    BY <1>3, <1>4
  <2> HIDE DEF bb, rr
  <2>2. x % bb = rr
    BY <1>2, <2>1, DivModIs
  <2> QED
    BY <2>2 DEF bb, rr
<1>6. (b * v + r) \div b = v
  BY <1>1, <1>2, <1>4, DivModIs
<1> QED
  BY <1>5, <1>6 DEF v, q

-----------------------------------------------------------------------------
(* Words of two's complement *)

\* Signed: within the word, and equal modulo the word.
LEMMA SignedIs ==
  ASSUME NEW n \in Int, NEW b \in Nat, b > 0
  PROVE  /\ Signed(n, b) \in -Pow2[b - 1] .. Pow2[b - 1] - 1
         /\ \E k \in Int : Signed(n, b) = n + k * Pow2[b]
<1> DEFINE h == Pow2[b - 1]
           m == Pow2[b]
           q == (n + h) \div m
<1>1. h \in Nat /\ m = 2 * h /\ m > 0
  <2>1. b - 1 \in Nat /\ (b - 1) + 1 = b
    OBVIOUS
  <2> QED
    BY <2>1, PowStep, PowType
<1>2. Signed(n, b) = ((n + h) % m) - h
  BY DEF Signed
<1> HIDE DEF h, m
<1>3. q \in Int /\ (n + h) % m \in Int /\ 0 <= (n + h) % m /\ (n + h) % m < m
        /\ n + h = m * q + ((n + h) % m)
  BY <1>1, DivMod
<1> HIDE DEF q
<1>4. (-q) * m = -(m * q) /\ m * q \in Int
  BY <1>1, <1>3
<1>5. Signed(n, b) = n + (-q) * m
  BY <1>1, <1>2, <1>3, <1>4
<1>6. Signed(n, b) \in -h .. h - 1
  BY <1>1, <1>2, <1>3
<1> QED
  BY <1>3, <1>5, <1>6 DEF h, m

\* It is the only such number.
LEMMA SignedOnly ==
  ASSUME NEW n \in Int, NEW b \in Nat, b > 0, NEW k \in Int,
         NEW s \in -Pow2[b - 1] .. Pow2[b - 1] - 1, s = n + k * Pow2[b]
  PROVE  Signed(n, b) = s
<1> DEFINE h == Pow2[b - 1]
           m == Pow2[b]
<1>1. h \in Nat /\ m = 2 * h /\ m > 0
  <2>1. b - 1 \in Nat /\ (b - 1) + 1 = b
    OBVIOUS
  <2> QED
    BY <2>1, PowStep, PowType
<1>2. Signed(n, b) = ((n + h) % m) - h
  BY DEF Signed
<1>3. s \in -h .. h - 1 /\ s = n + k * m
  OBVIOUS
<1> HIDE DEF h, m
<1>4. s \in Int /\ 0 <= s + h /\ s + h < m /\ m \in Nat
  BY <1>1, <1>3
<1>5. n + h = m * (-k) + (s + h)
  <2>1. m * (-k) = -(k * m) /\ k * m \in Int
    BY <1>1
  <2> QED
    BY <1>1, <1>3, <1>4, <2>1
<1>6. (n + h) % m = s + h
  <2> DEFINE a == n + h
             q == -k
             r == s + h
  <2>1. /\ a \in Int /\ q \in Int /\ r \in Int /\ m \in Nat /\ m > 0
        /\ 0 <= r /\ r < m /\ a = m * q + r
    BY <1>1, <1>4, <1>5
  <2> HIDE DEF a, q, r
  <2>2. a % m = r
    BY <2>1, DivModIs
  <2> QED
    BY <2>2 DEF a, r
<1> QED
  BY <1>1, <1>2, <1>4, <1>6

\* A number of the word stays.
LEMMA SignedSmall ==
  ASSUME NEW b \in Nat, b > 0, NEW n \in -Pow2[b - 1] .. Pow2[b - 1] - 1
  PROVE  Signed(n, b) = n
<1>1. Pow2[b - 1] \in Nat /\ Pow2[b] \in Nat
  <2>1. b - 1 \in Nat
    OBVIOUS
  <2> QED
    BY <2>1, PowType
<1>2. n \in Int /\ n = n + 0 * Pow2[b]
  BY <1>1
<1> QED
  BY <1>2, SignedOnly

\* Multiples of the word do not count.
LEMMA SignedShift ==
  ASSUME NEW n \in Int, NEW b \in Nat, b > 0, NEW k \in Int
  PROVE  Signed(n + k * Pow2[b], b) = Signed(n, b)
<1> DEFINE m == Pow2[b]
           s == Signed(n, b)
<1>1. m \in Nat /\ Pow2[b - 1] \in Nat
  <2>1. b - 1 \in Nat
    OBVIOUS
  <2> QED
    BY <2>1, PowType
<1>2. PICK i \in Int : s = n + i * m
  BY SignedIs
<1>3. s \in -Pow2[b - 1] .. Pow2[b - 1] - 1
  BY SignedIs
<1> HIDE DEF m, s
<1>4. k * m \in Int /\ (i - k) * m = i * m - k * m /\ i * m \in Int
  BY <1>1
<1>5. n + k * m \in Int /\ i - k \in Int /\ s = (n + k * m) + (i - k) * m
  BY <1>2, <1>4
<1>6. Signed(n + k * m, b) = s
  BY <1>3, <1>5, SignedOnly DEF m
<1> QED
  BY <1>6 DEF m, s

\* The sign can be taken into account before or after.
LEMMA SignedNegative ==
  ASSUME NEW n \in Int, NEW b \in Nat, b > 0
  PROVE  Signed(-Signed(n, b), b) = Signed(-n, b)
<1>1. PICK k \in Int : Signed(n, b) = n + k * Pow2[b]
  BY SignedIs
<1>2. Pow2[b] \in Nat
  BY PowType
<1>3. (-k) * Pow2[b] = -(k * Pow2[b]) /\ k * Pow2[b] \in Int
  BY <1>2
<1>4. -Signed(n, b) = -n + (-k) * Pow2[b] /\ -n \in Int /\ -k \in Int
  BY <1>1, <1>3
<1> QED
  BY <1>4, SignedShift

\* A number of the word stays, in the form ToInt32Modular needs.
LEMMA SignedTwice ==
  ASSUME NEW n \in Int, NEW b \in Nat, b > 0
  PROVE  Signed(Signed(n, b), b) = Signed(n, b)
  BY SignedIs, SignedSmall

\* The lower bits decide.
LEMMA SignedMod ==
  ASSUME NEW n \in Int, NEW b \in Nat, b > 0
  PROVE  Signed(n % Pow2[b], b) = Signed(n, b)
<1> DEFINE m == Pow2[b]
           q == n \div m
<1>1. m \in Nat /\ m > 0
  BY PowType
<1> HIDE DEF m
<1>2. q \in Int /\ n % m \in Int /\ n = m * q + (n % m)
  BY <1>1, DivMod
<1> HIDE DEF q
<1>3. (-q) * m = -(m * q) /\ m * q \in Int
  BY <1>1, <1>2
<1>4. n % m = n + (-q) * m /\ -q \in Int
  BY <1>2, <1>3
<1> QED
  BY <1>4, SignedShift DEF m

-----------------------------------------------------------------------------
(* Doubles *)

\* The fraction of a double with the leading one.
Significand(d) == Pow2[M] + d.f

\* The types of the fields of a double.
LEMMA DoubleParts ==
  ASSUME NEW d \in Doubles
  PROVE  /\ d.neg \in BOOLEAN /\ d.e \in Nat /\ d.e <= E /\ d.f \in Nat /\ d.f < Pow2[M]
         /\ Significand(d) \in Nat /\ Significand(d) < Pow2[M + 1]
<1>1. M \in Nat /\ E \in Nat
  BY FormatAssumption
<1>2. Pow2[M] \in Nat /\ Pow2[M + 1] = 2 * Pow2[M]
  BY <1>1, PowStep, PowType
<1>3. d.neg \in BOOLEAN /\ d.e \in 0 .. E /\ d.f \in 0 .. Pow2[M] - 1
  BY DEF Doubles
<1> QED
  BY <1>1, <1>2, <1>3 DEF Significand

\* The unit of the doubles is a positive integer.
LEMMA UnitType ==
  Unit \in Nat /\ Unit > 0
<1>1. Bias + M - 1 \in Nat
  BY FormatAssumption
<1> QED
  BY <1>1, PowType DEF Unit

\* The quotient that Truncated takes.
Quotient(d) == Magnitude(d) \div Unit

\* The magnitude of a double and its quotient are natural numbers.
LEMMA MagnitudeType ==
  ASSUME NEW d \in Doubles
  PROVE  Magnitude(d) \in Nat /\ Quotient(d) \in Nat
<1>1. Magnitude(d) \in Nat
  <2>1. CASE d.e = 0
    BY <2>1, DoubleParts DEF Magnitude
  <2>2. CASE d.e # 0
    <3>1. d.e - 1 \in Nat
      BY <2>2, DoubleParts
    <3>2. Significand(d) \in Nat /\ Pow2[d.e - 1] \in Nat
      BY <3>1, DoubleParts, PowType
    <3> QED
      BY <2>2, <3>2, MulType DEF Magnitude, Significand
  <2> QED
    BY <2>1, <2>2
<1>2. Unit \in Nat /\ Unit > 0
  BY UnitType
<1> QED
  BY <1>1, <1>2 DEF Quotient

\* Truncated in terms of the quotient.
LEMMA TruncatedIs ==
  ASSUME NEW d \in Doubles
  PROVE  /\ Truncated(d) = IF d.neg THEN -Quotient(d) ELSE Quotient(d)
         /\ Truncated(d) \in Int
  BY MagnitudeType DEF Truncated, Quotient

\* A double below the bound of the fast case fits an int when truncated.
LEMMA WholeSmall ==
  ASSUME NEW d \in Doubles, d.e <= Bias + W - 2
  PROVE  Quotient(d) < Pow2[W - 1]
<1>1. /\ W - 1 \in Nat /\ M \in Nat /\ Bias + M - 1 \in Nat /\ Unit \in Nat /\ Unit > 0
      /\ Pow2[W - 1] \in Nat /\ Pow2[W - 1] > 0
  BY FormatAssumption, UnitType, PowType
<1>2. Unit * Pow2[W - 1] = Pow2[(Bias + M - 1) + (W - 1)]
  BY <1>1, PowAdd DEF Unit
<1>3. CASE d.e = 0
  <2>1. Magnitude(d) < Pow2[M]
    BY <1>3, DoubleParts DEF Magnitude
  <2>2. M < (Bias + M - 1) + (W - 1) /\ (Bias + M - 1) + (W - 1) \in Nat
    BY FormatAssumption
  <2>3. 2 * Pow2[M] <= Pow2[(Bias + M - 1) + (W - 1)] /\ Pow2[M] \in Nat
    BY <1>1, <2>2, PowLess, PowType
  <2>4. Magnitude(d) < Unit * Pow2[W - 1] /\ Magnitude(d) \in Nat
    <3> DEFINE h == Pow2[(Bias + M - 1) + (W - 1)]
               m == Magnitude(d)
    <3>1. m \in Nat /\ h \in Nat /\ m < Pow2[M] /\ Pow2[M] \in Nat /\ 2 * Pow2[M] <= h
      BY <2>1, <2>2, <2>3, PowType, MagnitudeType
    <3> HIDE DEF h, m
    <3>2. m < h
      BY <3>1
    <3> QED
      BY <1>2, <3>1, <3>2 DEF h, m
  <2> QED
    BY <1>1, <2>4, DivLess DEF Quotient
<1>4. CASE d.e # 0
  <2> DEFINE s == Significand(d)
             p == Pow2[d.e - 1]
             m == Pow2[M + 1]
             h == Pow2[(Bias + M - 1) + (W - 1)]
  <2>1. d.e - 1 \in Nat /\ M + 1 \in Nat /\ (M + 1) + (d.e - 1) \in Nat
    BY <1>1, <1>4, DoubleParts
  <2>2. s \in Nat /\ s < m /\ m \in Nat /\ p \in Nat /\ p > 0
    BY <1>4, <2>1, DoubleParts, PowType
  <2>3. Magnitude(d) = s * p
    BY <1>4 DEF Magnitude, Significand
  <2>4. m * p = Pow2[(M + 1) + (d.e - 1)]
    BY <2>1, PowAdd
  <2>5. Pow2[(M + 1) + (d.e - 1)] <= h
    <3> DEFINE i == (M + 1) + (d.e - 1)
               j == (Bias + M - 1) + (W - 1)
    <3>1. i \in Nat /\ j \in Nat /\ i <= j
      BY <2>1, FormatAssumption, DoubleParts
    <3> HIDE DEF i, j
    <3>2. CASE i = j
      BY <3>1, <3>2, PowType DEF i, j
    <3>3. CASE i < j
      <4>1. 2 * Pow2[i] <= Pow2[j] /\ Pow2[i] \in Nat /\ Pow2[j] \in Nat
        BY <3>1, <3>3, PowLess, PowType
      <4> QED
        BY <4>1 DEF i, j
    <3> QED
      BY <3>1, <3>2, <3>3
  <2>6. h = Unit * Pow2[W - 1] /\ h \in Nat
    BY <1>1, <1>2, MulType
  <2> HIDE DEF s, p, m, h
  <2>7. s * p < m * p
    <3>1. (s + 1) * p <= m * p
      BY <2>2, MulLess
    <3>2. (s + 1) * p = s * p + p /\ s * p \in Int /\ m * p \in Int
      BY <2>2
    <3> QED
      BY <2>2, <3>1, <3>2
  <2>8. Magnitude(d) < Unit * Pow2[W - 1] /\ Magnitude(d) \in Nat
    <3>1. m * p \in Int /\ s * p \in Int
      BY <2>2
    <3>2. m * p <= h
      BY <2>4, <2>5
    <3> QED
      BY <3>1, <3>2, <2>3, <2>6, <2>7, MagnitudeType
  <2> QED
    BY <1>1, <2>8, DivLess DEF Quotient
<1> QED
  BY <1>3, <1>4

\* A large double is an integer already.
LEMMA WholeLarge ==
  ASSUME NEW d \in Doubles, d.e >= Bias + M
  PROVE  Quotient(d) = Significand(d) * Pow2[d.e - Bias - M]
<1> DEFINE i == d.e - Bias - M
           j == Bias + M - 1
           s == Significand(d)
<1>1. i \in Nat /\ j \in Nat /\ d.e # 0 /\ d.e - 1 = i + j
  BY FormatAssumption, DoubleParts
<1>2. Magnitude(d) = s * Pow2[d.e - 1] /\ Unit = Pow2[j] /\ s \in Nat
  BY <1>1, DoubleParts DEF Magnitude, Significand, Unit
<1> HIDE DEF i, j, s
<1>3. Pow2[d.e - 1] = Pow2[i] * Pow2[j] /\ Pow2[i] \in Nat /\ Pow2[j] \in Nat /\ Pow2[j] > 0
  BY <1>1, PowAdd, PowType
<1>4. Magnitude(d) = (s * Pow2[i]) * Pow2[j] /\ s * Pow2[i] \in Nat
  BY <1>2, <1>3, MulSwap, MulType
<1>5. Quotient(d) = s * Pow2[i]
  BY <1>2, <1>3, <1>4, DivExact DEF Quotient
<1> QED
  BY <1>5 DEF i, s

\* A smaller one loses its lower bits.
LEMMA WholeMiddle ==
  ASSUME NEW d \in Doubles, 0 < d.e, d.e <= Bias + M
  PROVE  Quotient(d) = Significand(d) \div Pow2[Bias + M - d.e]
<1> DEFINE i == Bias + M - d.e
           j == d.e - 1
           s == Significand(d)
<1>1. i \in Nat /\ j \in Nat /\ d.e # 0 /\ Bias + M - 1 = i + j
  BY FormatAssumption, DoubleParts
<1>2. Magnitude(d) = s * Pow2[j] /\ Unit = Pow2[Bias + M - 1] /\ s \in Nat
  BY <1>1, DoubleParts DEF Magnitude, Significand, Unit
<1> HIDE DEF i, j, s
<1>3. /\ Pow2[i + j] = Pow2[i] * Pow2[j]
      /\ Pow2[i] \in Nat /\ Pow2[i] > 0 /\ Pow2[j] \in Nat /\ Pow2[j] > 0
  BY <1>1, PowAdd, PowType
<1>4. Quotient(d) = (s * Pow2[j]) \div (Pow2[i] * Pow2[j])
  BY <1>1, <1>2, <1>3 DEF Quotient
<1>5. Quotient(d) = s \div Pow2[i]
  BY <1>2, <1>3, <1>4, DivCancel
<1> QED
  BY <1>5 DEF i, s

-----------------------------------------------------------------------------
(* JS_ToInt32Free *)

\* What the shifts of JS_ToInt32Free leave in the upper half of the word.
LEMMA Shifted ==
  ASSUME NEW d \in Doubles, Bias + W - 2 < d.e, d.e <= Bias + W - 2 + M + 1
  PROVE  ((Significand(d) * Pow2[d.e - Bias - M + W]) % Pow2[2 * W]) \div Pow2[W]
           = Quotient(d) % Pow2[W]
<1> DEFINE s == Significand(d)
           i == d.e - Bias - M + W
           b == Pow2[W]
           x == s * Pow2[i]
<1>1. i \in Nat /\ W \in Nat /\ 2 * W = W + W /\ d.e \in Nat /\ d.e > 0
  BY FormatAssumption, DoubleParts
<1>2. s \in Nat /\ Pow2[i] \in Nat /\ b \in Nat /\ b > 0 /\ Pow2[2 * W] = b * b
  BY <1>1, DoubleParts, PowAdd, PowType
<1>3. x \in Nat
  BY <1>2, MulType
<1>4. x \div b = Quotient(d)
  <2>1. CASE i >= W
    <3>1. i - W \in Nat /\ i - W = d.e - Bias - M /\ d.e >= Bias + M /\ (i - W) + W = i
      BY <1>1, <2>1, FormatAssumption
    <3>2. Pow2[i] = Pow2[i - W] * b /\ Pow2[i - W] \in Nat
      <4>1. i - W \in Nat /\ W \in Nat /\ i \in Nat /\ (i - W) + W = i
        BY <1>1, <3>1
      <4> HIDE DEF i
      <4> QED
        BY <4>1, PowSum, PowType
    <3>3. x = (s * Pow2[i - W]) * b /\ s * Pow2[i - W] \in Nat
      <4> HIDE DEF s, i, b
      <4> QED
        BY <1>2, <3>2, MulSwap, MulType
    <3>4. x \div b = s * Pow2[i - W]
      <4> HIDE DEF b, x
      <4> QED
        BY <1>2, <3>3, DivExact
    <3> QED
      BY <3>1, <3>4, WholeLarge
  <2>2. CASE i < W
    <3>1. W - i \in Nat /\ W - i = Bias + M - d.e /\ d.e <= Bias + M /\ (W - i) + i = W
      BY <1>1, <2>2, FormatAssumption
    <3>2. b = Pow2[W - i] * Pow2[i] /\ Pow2[W - i] \in Nat /\ Pow2[W - i] > 0 /\ Pow2[i] > 0
      <4>1. W - i \in Nat /\ W \in Nat /\ i \in Nat /\ (W - i) + i = W
        BY <1>1, <3>1
      <4> HIDE DEF i
      <4> QED
        BY <4>1, PowSum, PowType
    <3>3. x \div b = s \div Pow2[W - i]
      <4> HIDE DEF s, i, b
      <4> QED
        BY <1>2, <3>2, DivCancel
    <3> QED
      BY <1>1, <3>1, <3>3, WholeMiddle
  <2> QED
    BY <1>1, <2>1, <2>2
<1> HIDE DEF x, b
<1>5. (x % (b * b)) \div b = Quotient(d) % b
  BY <1>2, <1>3, <1>4, UpperHalf
<1> QED
  BY <1>2, <1>5 DEF x, b

\* JS_ToInt32Free computes ECMAScript's ToInt32 of every double.
LEMMA ToInt32Modular ==
  ASSUME NEW d \in Doubles
  PROVE  ToInt32([tag |-> "float64", d |-> d]) = Modular(d)
<1> DEFINE x == [tag |-> "float64", d |-> d]
           t == Quotient(d)
           upper == Signed(t, W)
<1>1. x.tag # "int" /\ x.d = d
  OBVIOUS
<1>2. W \in Nat /\ W > 0 /\ t \in Nat /\ d.e \in Nat /\ d.neg \in BOOLEAN
  BY FormatAssumption, MagnitudeType, DoubleParts
<1>3. Truncated(d) = IF d.neg THEN -t ELSE t
  BY TruncatedIs
<1>4. CASE d.e <= Bias + W - 2
  <2>1. t < Pow2[W - 1] /\ Pow2[W - 1] \in Nat
    <3>1. W - 1 \in Nat
      BY <1>2
    <3> QED
      BY <1>4, <3>1, WholeSmall, PowType
  <2>2. Truncated(d) \in -Pow2[W - 1] .. Pow2[W - 1] - 1
    BY <1>2, <1>3, <2>1
  <2>3. Signed(Truncated(d), W) = Truncated(d)
    BY <1>2, <2>2, SignedSmall
  <2>4. Finite(d)
    BY <1>2, <1>4, FormatAssumption DEF Finite
  <2>5. ToInt32(x) = Truncated(d)
    BY <1>1, <1>4 DEF ToInt32
  <2> QED
    BY <2>3, <2>4, <2>5 DEF Modular
<1>5. CASE Bias + W - 2 < d.e /\ d.e <= Bias + W - 2 + M + 1
  <2> DEFINE shifted == ((Pow2[M] + d.f) * Pow2[d.e - Bias - M + W]) % Pow2[2 * W]
  <2>1. shifted \div Pow2[W] = t % Pow2[W]
    BY <1>5, Shifted DEF Significand
  <2>2. Signed(shifted \div Pow2[W], W) = upper
    BY <1>2, <2>1, SignedMod
  <2>3. ToInt32(x) = Signed(IF d.neg THEN -upper ELSE upper, W)
    <3>1. ~(d.e <= Bias + W - 2) /\ d.e <= Bias + W - 2 + M + 1
      BY <1>2, <1>5, FormatAssumption
    <3>2. ToInt32(x) = Signed(IF d.neg THEN -Signed(shifted \div Pow2[W], W)
                              ELSE Signed(shifted \div Pow2[W], W), W)
      BY <1>1, <3>1 DEF ToInt32
    <3> QED
      BY <2>2, <3>2
  <2>4. ToInt32(x) = Signed(Truncated(d), W)
    <3>1. CASE d.neg
      BY <1>2, <1>3, <2>3, <3>1, SignedNegative
    <3>2. CASE ~d.neg
      BY <1>2, <1>3, <2>3, <3>2, SignedTwice
    <3> QED
      BY <3>1, <3>2
  <2>5. Finite(d)
    BY <1>2, <1>5, FormatAssumption DEF Finite
  <2> QED
    BY <2>4, <2>5 DEF Modular
<1>6. CASE Bias + W - 2 + M + 1 < d.e
  <2>1. ToInt32(x) = 0
    <3>1. ~(d.e <= Bias + W - 2) /\ ~(d.e <= Bias + W - 2 + M + 1)
      BY <1>2, <1>6, FormatAssumption
    <3> QED
      BY <1>1, <3>1 DEF ToInt32
  <2>2. Signed(Truncated(d), W) = 0
    <3> DEFINE i == d.e - Bias - M - W
               k == Significand(d) * Pow2[i]
               b == Pow2[W]
    <3>1. i \in Nat /\ i + W = d.e - Bias - M /\ d.e >= Bias + M
      BY <1>2, <1>6, FormatAssumption
    <3>2. Significand(d) \in Nat /\ Pow2[i] \in Nat /\ b \in Nat /\ Pow2[i + W] = Pow2[i] * b
      BY <1>2, <3>1, DoubleParts, PowType, PowAdd
    <3>3. t = k * b /\ k \in Int
      <4>1. t = Significand(d) * Pow2[i + W]
        BY <3>1, WholeLarge
      <4> HIDE DEF i, b, t
      <4> QED
        BY <3>2, <4>1, MulSwap, MulType
    <3> HIDE DEF k, b
    <3>4. (-k) * b = -(k * b) /\ k * b \in Int
      BY <3>2, <3>3
    <3>5. Signed(0 + k * b, W) = Signed(0, W) /\ Signed(0 + (-k) * b, W) = Signed(0, W)
      BY <1>2, <3>3, SignedShift DEF b
    <3>6. Signed(0, W) = 0
      <4>1. Pow2[W - 1] \in Nat /\ Pow2[W - 1] > 0
        <5>1. W - 1 \in Nat
          BY <1>2
        <5> QED
          BY <5>1, PowType
      <4> QED
        BY <1>2, <4>1, SignedSmall
    <3>7. 0 + k * b = t /\ 0 + (-k) * b = -t
      BY <3>3, <3>4
    <3> QED
      BY <1>3, <3>5, <3>6, <3>7
  <2> QED
    BY <2>1, <2>2 DEF Modular
<1> QED
  BY <1>2, <1>4, <1>5, <1>6, FormatAssumption

-----------------------------------------------------------------------------
(* Integers as doubles *)

\* The leading one of a positive integer of at most 2W bits.
LEMMA ExponentIs ==
  ASSUME NEW k \in Nat, 0 < k, k <= Pow2[2 * W - 1]
  PROVE  LET p == Exponent(k)
         IN  p \in Nat /\ p <= 2 * W - 1 /\ Pow2[p] <= k /\ k < Pow2[p + 1]
<1> DEFINE p == Exponent(k)
<1>1. 2 * W - 1 \in Nat /\ 2 * W \in Nat /\ (2 * W - 1) + 1 = 2 * W
  BY FormatAssumption
<1>2. Pow2[2 * W] = 2 * Pow2[2 * W - 1] /\ Pow2[2 * W - 1] \in Nat /\ Pow2[2 * W - 1] > 0
  <2>1. Pow2[(2 * W - 1) + 1] = 2 * Pow2[2 * W - 1]
    BY <1>1, PowStep
  <2> QED
    BY <1>1, <2>1, PowType
<1>3. \E i \in Nat : i < 2 * W /\ Pow2[i] <= k /\ k < Pow2[i + 1]
  BY <1>1, <1>2, PowBetween
<1>4. \E i \in 0 .. 2 * W : Pow2[i] <= k /\ k < Pow2[i + 1]
  BY <1>1, <1>3
<1>5. p \in 0 .. 2 * W /\ Pow2[p] <= k /\ k < Pow2[p + 1]
  BY <1>4 DEF Exponent
<1>6. p # 2 * W
  BY <1>2, <1>5
<1> QED
  BY <1>1, <1>5, <1>6

\* Rounding keeps what has M + 1 bits, or makes it the next power.
LEMMA RoundedIs ==
  ASSUME NEW k \in Nat, NEW p \in Nat, M < p, Pow2[p] <= k, k < Pow2[p + 1]
  PROVE  LET r == Rounded(k, p - M)
         IN  r \in Nat /\ Pow2[M] <= r /\ r <= Pow2[M + 1]
<1> DEFINE i == p - M
           b == Pow2[i]
           q == k \div b
           r == Rounded(k, i)
<1>1. M \in Nat /\ i \in Nat /\ M + i = p /\ (M + 1) + i = p + 1
  BY FormatAssumption
<1>2. b \in Nat /\ b > 0 /\ Pow2[p] = Pow2[M] * b /\ Pow2[p + 1] = Pow2[M + 1] * b
  <2>1. i \in Nat /\ M + 1 \in Nat /\ p + 1 \in Nat
    BY <1>1
  <2> HIDE DEF i
  <2>2. Pow2[p] = Pow2[M] * Pow2[i]
    BY <1>1, PowSum
  <2>3. Pow2[p + 1] = Pow2[M + 1] * Pow2[i]
    BY <1>1, <2>1, PowSum
  <2> QED
    BY <1>1, <2>2, <2>3, PowType
<1>3. Pow2[M] \in Nat /\ Pow2[M + 1] \in Nat
  BY <1>1, PowType
<1>4. r = q \/ r = q + 1
  BY DEF Rounded
<1> HIDE DEF b, i, r
<1>5. q \in Int /\ k % b \in Int /\ 0 <= k % b /\ k % b < b /\ k = b * q + (k % b)
  BY <1>2, DivMod
<1>6. q < Pow2[M + 1] /\ q \in Nat
  <2>1. k < b * Pow2[M + 1]
    BY <1>2, <1>3, MulSwap
  <2> QED
    BY <1>2, <1>3, <2>1, DivLess
<1> HIDE DEF q
<1>7. Pow2[M] <= q
  <2> SUFFICES ASSUME q + 1 <= Pow2[M] PROVE FALSE
    BY <1>3, <1>5
  <2>1. (q + 1) * b <= Pow2[M] * b
    BY <1>2, <1>3, <1>5, MulLess
  <2>2. (q + 1) * b = b * q + b /\ b * q \in Int
    BY <1>2, <1>5
  <2>3. Pow2[p] \in Nat
    BY PowType
  <2> QED
    BY <1>2, <1>5, <2>1, <2>2, <2>3
<1>8. r \in Nat /\ Pow2[M] <= r /\ r <= Pow2[M + 1]
  BY <1>3, <1>4, <1>6, <1>7
<1> QED
  BY <1>8 DEF r, i

\* An integer of 2W bits becomes a double.
LEMMA NearestType ==
  ASSUME NEW n \in -Pow2[2 * W - 1] .. Pow2[2 * W - 1]
  PROVE  Nearest(n) \in Doubles /\ Finite(Nearest(n))
<1> DEFINE k == IF n < 0 THEN -n ELSE n
           p == Exponent(k)
           r == Rounded(k, p - M)
<1>1. W \in Nat /\ M \in Nat /\ E \in Nat /\ Bias \in Nat /\ Pow2[2 * W - 1] \in Nat
  <2>1. 2 * W - 1 \in Nat
    BY FormatAssumption
  <2> QED
    BY <2>1, FormatAssumption, PowType
<1>2. n \in Int /\ k \in Nat /\ k <= Pow2[2 * W - 1]
  BY <1>1
<1>3. Pow2[M] \in Nat /\ Pow2[M] > 0 /\ Pow2[M + 1] = 2 * Pow2[M]
  BY <1>1, PowStep, PowType
<1>4. CASE k = 0
  <2>1. Nearest(n) = [neg |-> FALSE, e |-> 0, f |-> 0]
    BY <1>4 DEF Nearest
  <2>2. 0 \in 0 .. Pow2[M] - 1 /\ 0 \in 0 .. E /\ 0 < E
    BY <1>1, <1>3, FormatAssumption
  <2> QED
    BY <2>1, <2>2 DEF Doubles, Finite
<1>5. CASE k # 0
  <2>1. p \in Nat /\ p <= 2 * W - 1 /\ Pow2[p] <= k /\ k < Pow2[p + 1]
    BY <1>2, <1>5, ExponentIs
  <2>2. Nearest(n) = IF p <= M THEN [neg |-> n < 0, e |-> Bias + p, f |-> k * Pow2[M - p] - Pow2[M]]
                     ELSE IF r = Pow2[M + 1] THEN [neg |-> n < 0, e |-> Bias + p + 1, f |-> 0]
                     ELSE [neg |-> n < 0, e |-> Bias + p, f |-> r - Pow2[M]]
    BY <1>5 DEF Nearest
  <2> HIDE DEF k, p, r
  <2>3. Bias + p \in 0 .. E /\ Bias + p + 1 \in 0 .. E /\ Bias + p < E /\ Bias + p + 1 < E
    BY <1>1, <2>1, FormatAssumption
  <2>4. CASE p <= M
    <3>1. M - p \in Nat /\ p + (M - p) = M /\ (p + 1) + (M - p) = M + 1
      BY <1>1, <2>1, <2>4
    <3> DEFINE c == Pow2[M - p]
    <3>2. Pow2[M] = Pow2[p] * c /\ Pow2[M + 1] = Pow2[p + 1] * c /\ c \in Nat /\ c > 0
      <4>1. Pow2[M] = Pow2[p] * Pow2[M - p]
        BY <1>1, <2>1, <3>1, PowSum
      <4>2. p + 1 \in Nat /\ M + 1 \in Nat
        BY <1>1, <2>1
      <4>3. Pow2[M + 1] = Pow2[p + 1] * Pow2[M - p]
        BY <3>1, <4>2, PowSum
      <4> QED
        BY <3>1, <4>1, <4>3, PowType
    <3> HIDE DEF c
    <3>3. Pow2[p] * c <= k * c /\ k * c < Pow2[p + 1] * c /\ k * c \in Nat
      <4>1. Pow2[p] \in Nat /\ Pow2[p + 1] \in Nat
        BY <2>1, PowType
      <4>2. Pow2[p] * c <= k * c
        BY <1>2, <2>1, <3>2, <4>1, MulLess
      <4>3. (k + 1) * c <= Pow2[p + 1] * c
        BY <1>2, <2>1, <3>2, <4>1, MulLess
      <4>4. (k + 1) * c = k * c + c /\ k * c \in Nat
        BY <1>2, <3>2, MulType
      <4> DEFINE u == Pow2[p + 1] * c
      <4>5. u \in Nat
        BY <3>2, <4>1, MulType
      <4> HIDE DEF u
      <4>6. k * c < u
        BY <3>2, <4>3, <4>4, <4>5 DEF u
      <4> QED
        BY <4>2, <4>4, <4>6 DEF u
    <3>4. k * c - Pow2[M] \in 0 .. Pow2[M] - 1
      BY <1>3, <3>2, <3>3
    <3>5. Nearest(n) = [neg |-> n < 0, e |-> Bias + p, f |-> k * c - Pow2[M]]
      BY <2>2, <2>4 DEF c
    <3>6. (n < 0) \in BOOLEAN
      OBVIOUS
    <3> QED
      BY <2>3, <3>4, <3>5, <3>6 DEF Doubles, Finite
  <2>5. CASE p > M
    <3>1. r \in Nat /\ Pow2[M] <= r /\ r <= Pow2[M + 1]
      BY <1>2, <2>1, <2>5, RoundedIs DEF r
    <3>2. ~(p <= M)
      BY <1>1, <2>1, <2>5
    <3>3. CASE r = Pow2[M + 1]
      <4>1. Nearest(n) = [neg |-> n < 0, e |-> Bias + p + 1, f |-> 0]
        BY <2>2, <3>2, <3>3
      <4>2. 0 \in 0 .. Pow2[M] - 1 /\ (n < 0) \in BOOLEAN
        BY <1>3
      <4> QED
        BY <2>3, <4>1, <4>2 DEF Doubles, Finite
    <3>4. CASE r # Pow2[M + 1]
      <4>1. Nearest(n) = [neg |-> n < 0, e |-> Bias + p, f |-> r - Pow2[M]]
        BY <2>2, <3>2, <3>4
      <4>2. r - Pow2[M] \in 0 .. Pow2[M] - 1 /\ (n < 0) \in BOOLEAN
        BY <1>3, <3>1, <3>4
      <4> QED
        BY <2>3, <4>1, <4>2 DEF Doubles, Finite
    <3> QED
      BY <3>3, <3>4
  <2> QED
    BY <1>1, <2>1, <2>4, <2>5
<1> QED
  BY <1>4, <1>5

\* An int is a double exactly.
LEMMA NearestExact ==
  ASSUME NEW n \in Ints
  PROVE  Nearest(n) \in Doubles /\ Finite(Nearest(n)) /\ Truncated(Nearest(n)) = n
<1> DEFINE k == IF n < 0 THEN -n ELSE n
           p == Exponent(k)
           d == Nearest(n)
<1>1. W \in Nat /\ M \in Nat /\ Bias \in Nat /\ W - 1 \in Nat /\ 2 * W - 1 \in Nat
  BY FormatAssumption
<1>2. Pow2[W - 1] \in Nat /\ 2 * Pow2[W - 1] <= Pow2[2 * W - 1] /\ Pow2[2 * W - 1] \in Nat
  <2>1. W - 1 < 2 * W - 1
    BY FormatAssumption
  <2> QED
    BY <1>1, <2>1, PowLess, PowType
<1>3. n \in -Pow2[2 * W - 1] .. Pow2[2 * W - 1] /\ n \in Int /\ k \in Nat /\ k <= Pow2[W - 1]
      /\ k <= Pow2[2 * W - 1]
  BY <1>2 DEF Ints
<1>4. d \in Doubles /\ Finite(d)
  BY <1>3, NearestType
<1>5. CASE k = 0
  <2>1. d = [neg |-> FALSE, e |-> 0, f |-> 0] /\ n = 0
    BY <1>3, <1>5 DEF Nearest
  <2>2. Quotient(d) = 0
    <3>1. Magnitude(d) = 0
      BY <2>1 DEF Magnitude
    <3> QED
      BY <3>1, UnitType DEF Quotient
  <2> QED
    BY <1>4, <2>1, <2>2, TruncatedIs
<1>6. CASE k # 0
  <2>1. p \in Nat /\ Pow2[p] <= k /\ k < Pow2[p + 1]
    BY <1>3, <1>6, ExponentIs
  <2>2. p <= M
    <3> SUFFICES ASSUME W - 1 < p PROVE FALSE
      BY <1>1, <2>1, FormatAssumption
    <3>1. 2 * Pow2[W - 1] <= Pow2[p] /\ Pow2[p] \in Nat /\ Pow2[W - 1] > 0
      BY <1>1, <2>1, PowLess, PowType
    <3> QED
      BY <1>2, <1>3, <2>1, <3>1
  <2>3. d = [neg |-> n < 0, e |-> Bias + p, f |-> k * Pow2[M - p] - Pow2[M]]
    BY <1>6, <2>2 DEF Nearest
  <2> HIDE DEF k, p, d
  <2>4. /\ d.e = Bias + p /\ 0 < d.e /\ d.e <= Bias + M /\ Bias + M - d.e = M - p
        /\ M - p \in Nat /\ d.neg = (n < 0)
    BY <1>1, <2>1, <2>2, <2>3, FormatAssumption
  <2>5. Significand(d) = k * Pow2[M - p]
    <3>1. Pow2[M - p] \in Nat /\ Pow2[M] \in Nat
      BY <1>1, <2>4, PowType
    <3>2. k * Pow2[M - p] \in Nat
      BY <1>3, <3>1, MulType
    <3> QED
      BY <2>3, <3>1, <3>2 DEF Significand
  <2>6. Quotient(d) = (k * Pow2[M - p]) \div Pow2[M - p]
    BY <1>4, <2>4, <2>5, WholeMiddle
  <2>7. Quotient(d) = k
    <3> DEFINE b == Pow2[M - p]
    <3>1. b \in Nat /\ b > 0 /\ Quotient(d) = (k * b) \div b
      BY <2>4, <2>6, PowType
    <3> HIDE DEF b
    <3>2. k \in Int /\ (k * b) \div b = k
      BY <1>3, <3>1, DivExact
    <3> QED
      BY <3>1, <3>2
  <2>8. Truncated(d) = IF n < 0 THEN -k ELSE k
    BY <1>4, <2>4, <2>7, TruncatedIs
  <2>9. Truncated(d) = n
    BY <1>3, <2>8 DEF k
  <2> QED
    BY <1>4, <2>9 DEF d
<1> QED
  BY <1>5, <1>6

-----------------------------------------------------------------------------
(* Numbers there and back *)

\* The bounds of int.
LEMMA IntBounds ==
  /\ Pow2[W - 1] \in Nat /\ Pow2[W - 1] > 0
  /\ Ints = -Pow2[W - 1] .. Pow2[W - 1] - 1
  /\ Ints \subseteq Int /\ 0 \in Ints
<1>1. W - 1 \in Nat
  BY FormatAssumption
<1>2. Pow2[W - 1] \in Nat /\ Pow2[W - 1] > 0
  BY <1>1, PowType
<1> QED
  BY <1>2 DEF Ints

\* The integers of the host have at most 2W bits.
LEMMA IntegerBounds ==
  /\ Ints \subseteq -Pow2[2 * W - 1] .. Pow2[2 * W - 1]
  /\ Uints \subseteq -Pow2[2 * W - 1] .. Pow2[2 * W - 1]
  /\ Int64s \subseteq -Pow2[2 * W - 1] .. Pow2[2 * W - 1]
<1> DEFINE w == Pow2[W - 1]
           v == Pow2[W]
           u == Pow2[2 * W - 1]
<1>1. W - 1 \in Nat /\ W \in Nat /\ 2 * W - 1 \in Nat /\ W - 1 < 2 * W - 1 /\ W < 2 * W - 1
  BY FormatAssumption
<1>2. w \in Nat /\ v \in Nat /\ u \in Nat
  BY <1>1, PowType
<1>3. 2 * w <= u /\ 2 * v <= u
  BY <1>1, PowLess
<1>4. Ints = -w .. w - 1 /\ Uints = 0 .. v - 1 /\ Int64s = -u .. u - 1
  BY DEF Ints, Uints, Int64s
<1> HIDE DEF w, v, u
<1>5. Ints \subseteq -u .. u /\ Uints \subseteq -u .. u /\ Int64s \subseteq -u .. u
  BY <1>2, <1>3, <1>4
<1> QED
  BY <1>5 DEF u

\* ECMAScript's ToInt32 gives an int.
LEMMA ModularType ==
  ASSUME NEW d \in Doubles
  PROVE  Modular(d) \in Ints
<1>1. W \in Nat /\ W > 0
  BY FormatAssumption
<1>2. Truncated(d) \in Int
  BY TruncatedIs
<1>3. Signed(Truncated(d), W) \in -Pow2[W - 1] .. Pow2[W - 1] - 1
  BY <1>1, <1>2, SignedIs
<1> QED
  BY <1>3, IntBounds DEF Modular

\* An int is itself as a double, without a fraction, in its word.
LEMMA ModularInt ==
  ASSUME NEW n \in Ints
  PROVE  Modular(Nearest(n)) = n
<1>1. W \in Nat /\ W > 0
  BY FormatAssumption
<1>2. n \in -Pow2[W - 1] .. Pow2[W - 1] - 1
  BY IntBounds
<1>3. Signed(n, W) = n
  BY <1>1, <1>2, SignedSmall
<1> QED
  BY <1>3, NearestExact DEF Modular

\* A double that is at least the least int and at most the largest one is
\* such an int when truncated.
LEMMA TruncatedInt ==
  ASSUME NEW d \in Doubles, Units(d) >= -Pow2[W - 1] * Unit, Units(d) <= (Pow2[W - 1] - 1) * Unit
  PROVE  Truncated(d) \in Ints
<1> DEFINE h == Pow2[W - 1]
           u == Unit
           m == Magnitude(d)
           q == Quotient(d)
<1>1. h \in Nat /\ h > 0 /\ Ints = -h .. h - 1 /\ u \in Nat /\ u > 0 /\ m \in Nat /\ q \in Nat
      /\ q = m \div u /\ d.neg \in BOOLEAN
  BY IntBounds, UnitType, MagnitudeType, DoubleParts DEF Quotient
<1>2. Truncated(d) = IF d.neg THEN -q ELSE q
  BY TruncatedIs
<1>3. /\ (IF d.neg THEN -m ELSE m) >= -(h * u)
      /\ (IF d.neg THEN -m ELSE m) <= (h - 1) * u
  <2>1. Units(d) = IF d.neg THEN -m ELSE m
    BY DEF Units
  <2>2. Units(d) >= -(h * u) /\ Units(d) <= (h - 1) * u
    OBVIOUS
  <2> HIDE DEF h, u, m
  <2> QED
    BY <2>1, <2>2
<1> HIDE DEF h, u, m, q
<1>4. CASE d.neg
  <2>1. m <= h * u
    <3>1. h * u \in Int
      BY <1>1
    <3> QED
      BY <1>1, <1>3, <1>4, <3>1
  <2>2. u * (h + 1) = h * u + u /\ h * u \in Int
    BY <1>1
  <2>3. m < u * (h + 1)
    BY <1>1, <2>1, <2>2
  <2>4. q < h + 1
    BY <1>1, <2>3, DivLess
  <2> QED
    BY <1>1, <1>2, <1>4, <2>4
<1>5. CASE ~d.neg
  <2>1. m <= (h - 1) * u
    BY <1>3, <1>5
  <2>2. u * h = (h - 1) * u + u /\ (h - 1) * u \in Int
    BY <1>1
  <2>3. m < u * h
    BY <1>1, <2>1, <2>2
  <2>4. q < h
    BY <1>1, <2>3, DivLess
  <2> QED
    BY <1>1, <1>2, <1>5, <2>4
<1> QED
  BY <1>1, <1>4, <1>5

\* A number of JavaScript.
JsNumbers == [tag : {"int"}, n : Ints] \cup [tag : {"float64"}, d : Doubles]

\* A number of JavaScript is an int or a float64.
LEMMA JsNumberCases ==
  ASSUME NEW x \in JsNumbers
  PROVE  \/ \E n \in Ints : x = JsInt(n)
         \/ \E d \in Doubles : x = JsFloat(d)
<1>1. CASE x \in [tag : {"int"}, n : Ints]
  <2>1. x = [tag |-> "int", n |-> x.n] /\ x.n \in Ints
    BY <1>1
  <2> QED
    BY <2>1 DEF JsInt
<1>2. CASE x \in [tag : {"float64"}, d : Doubles]
  <2>1. x = [tag |-> "float64", d |-> x.d] /\ x.d \in Doubles
    BY <1>2
  <2> QED
    BY <2>1 DEF JsFloat
<1> QED
  BY <1>1, <1>2 DEF JsNumbers

\* An int is a number of JavaScript.
LEMMA IntNumber ==
  ASSUME NEW n \in Ints
  PROVE  JsInt(n) \in JsNumbers /\ IsNumber(JsInt(n)) /\ NumberOf(JsInt(n)) = Nearest(n)
<1>1. JsInt(n) = [tag |-> "int", n |-> n]
  BY DEF JsInt
<1>2. "n" \in DOMAIN JsInt(n) /\ JsInt(n).n = n /\ JsInt(n).tag = "int"
  BY <1>1
<1>3. JsInt(n) \in [tag : {"int"}, n : Ints]
  BY <1>1
<1> QED
  BY <1>2, <1>3 DEF NumberOf, IsNumber, JsNumbers

\* A float64 is a number of JavaScript.
LEMMA FloatNumber ==
  ASSUME NEW d \in Doubles
  PROVE  JsFloat(d) \in JsNumbers /\ IsNumber(JsFloat(d)) /\ NumberOf(JsFloat(d)) = d
<1>1. JsFloat(d) = [tag |-> "float64", d |-> d]
  BY DEF JsFloat
<1>2. "n" \notin DOMAIN JsFloat(d) /\ JsFloat(d).d = d /\ JsFloat(d).tag = "float64"
  BY <1>1
<1>3. JsFloat(d) \in [tag : {"float64"}, d : Doubles]
  BY <1>1
<1> QED
  BY <1>2, <1>3 DEF NumberOf, IsNumber, JsNumbers

\* What the host gets for a number of JavaScript.
LEMMA NumberModular ==
  ASSUME NEW x \in JsNumbers
  PROVE  /\ IsNumber(x) /\ NumberOf(x) \in Doubles
         /\ ToInt32(x) = Modular(NumberOf(x)) /\ ToInt32(x) \in Ints
<1>1. CASE \E n \in Ints : x = JsInt(n)
  <2>1. PICK n \in Ints : x = JsInt(n)
    BY <1>1
  <2>2. ToInt32(x) = n
    BY <2>1 DEF ToInt32, JsInt
  <2> QED
    BY <2>1, <2>2, IntNumber, ModularInt, NearestExact
<1>2. CASE \E d \in Doubles : x = JsFloat(d)
  <2>1. PICK d \in Doubles : x = JsFloat(d)
    BY <1>2
  <2>2. ToInt32(x) = Modular(d)
    BY <2>1, ToInt32Modular DEF JsFloat
  <2> QED
    BY <2>1, <2>2, FloatNumber, ModularType
<1> QED
  BY <1>1, <1>2, JsNumberCases

\* An integer of the host in JavaScript.
LEMMA NewIntegerIs ==
  ASSUME NEW n \in -Pow2[2 * W - 1] .. Pow2[2 * W - 1]
  PROVE  NewInteger(n) \in JsNumbers /\ NumberOf(NewInteger(n)) = Nearest(n)
<1>1. CASE n \in Ints
  BY <1>1, IntNumber DEF NewInteger
<1>2. CASE n \notin Ints
  BY <1>2, NearestType, FloatNumber DEF NewInteger
<1> QED
  BY <1>1, <1>2

\* A double of the host in JavaScript.
LEMMA NewFloat64Is ==
  ASSUME NEW d \in Doubles
  PROVE  NewFloat64(d) \in JsNumbers /\ NumberOf(NewFloat64(d)) = d
<1> DEFINE test == /\ Finite(d) /\ Units(d) >= -Pow2[W - 1] * Unit
                   /\ Units(d) <= (Pow2[W - 1] - 1) * Unit /\ Nearest(Truncated(d)) = d
<1>1. CASE test
  <2>1. Truncated(d) \in Ints
    BY <1>1, TruncatedInt
  <2>2. NewFloat64(d) = JsInt(Truncated(d))
    BY <1>1 DEF NewFloat64
  <2> QED
    BY <1>1, <2>1, <2>2, IntNumber
<1>2. CASE ~test
  <2>1. NewFloat64(d) = JsFloat(d)
    BY <1>2 DEF NewFloat64
  <2> QED
    BY <2>1, FloatNumber
<1> QED
  BY <1>1, <1>2

-----------------------------------------------------------------------------
(* Parts *)

\* The parts of the host, kind by kind.
LEMMA HostPartCases ==
  ASSUME NEW a \in HostParts
  PROVE  \/ \E n \in Ints : a = [kind |-> "int", n |-> n]
         \/ \E n \in Uints : a = [kind |-> "uint32", n |-> n]
         \/ \E n \in Int64s : a = [kind |-> "int64", n |-> n]
         \/ \E d \in Doubles, k \in {"float", "double"} : a = [kind |-> k, d |-> d]
         \/ \E b \in BOOLEAN : a = [kind |-> "bool", b |-> b]
         \/ \E s \in Texts : a = [kind |-> "string", s |-> s]
         \/ \E k \in {"null", "undefined"} : a = [kind |-> k]
         \/ \E m, s \in Texts \cup {NoText} : a = [kind |-> "exception", name |-> m, msg |-> s]
         \/ \E e \in Elements, b \in {"none", "some"} : a = [kind |-> "typed", elem |-> e, bytes |-> b]
         \/ \E l \in Nat : a = [kind |-> "array", len |-> l]
<1>1. CASE a \in [kind : {"int"}, n : Ints]
  BY <1>1
<1>2. CASE a \in [kind : {"uint32"}, n : Uints]
  BY <1>2
<1>3. CASE a \in [kind : {"int64"}, n : Int64s]
  BY <1>3
<1>4. CASE a \in [kind : {"double"}, d : Doubles]
  BY <1>4
<1>5. CASE a \in [kind : {"float"}, d : Floats]
  <2>1. a = [kind |-> "float", d |-> a.d] /\ a.d \in Doubles
    BY <1>5 DEF Floats
  <2> QED
    BY <2>1
<1>6. CASE a \in [kind : {"bool"}, b : BOOLEAN]
  BY <1>6
<1>7. CASE a \in [kind : {"string"}, s : Texts]
  BY <1>7
<1>8. CASE a \in [kind : {"null", "undefined"}]
  BY <1>8
<1>9. CASE a \in [kind : {"exception"}, name : Texts \cup {NoText}, msg : Texts \cup {NoText}]
  BY <1>9
<1>10. CASE a \in [kind : {"typed"}, elem : Elements, bytes : {"none", "some"}]
  BY <1>10
<1>11. CASE a \in [kind : {"array"}, len : Nat]
  BY <1>11
<1> QED
  BY <1>1, <1>2, <1>3, <1>4, <1>5, <1>6, <1>7, <1>8, <1>9, <1>10, <1>11
     DEF HostParts, Scalars, Objects

\* The parts of JavaScript, tag by tag.
LEMMA JsPartCases ==
  ASSUME NEW x \in JsParts
  PROVE  \/ x \in JsNumbers
         \/ \E b \in BOOLEAN : x = [tag |-> "bool", b |-> b]
         \/ \E s \in Texts, r \in BOOLEAN : x = [tag |-> "string", s |-> s, more |-> r]
         \/ \E k \in {"null", "undefined", "bigint", "object"} : x = [tag |-> k]
         \/ \E m, s \in Texts \cup {NoText} : x = [tag |-> "error", name |-> m, msg |-> s]
         \/ \E e \in STRING, b \in {"none", "some"} : x = [tag |-> "typed", elem |-> e, bytes |-> b]
         \/ \E l \in Nat : x = [tag |-> "array", len |-> l]
<1>1. CASE x \in [tag : {"int"}, n : Ints] \/ x \in [tag : {"float64"}, d : Doubles]
  BY <1>1 DEF JsNumbers
<1>2. CASE x \in [tag : {"bool"}, b : BOOLEAN]
  BY <1>2
<1>3. CASE x \in [tag : {"string"}, s : Texts, more : BOOLEAN]
  BY <1>3
<1>4. CASE x \in [tag : {"null", "undefined", "bigint", "object"}]
  BY <1>4
<1>5. CASE x \in [tag : {"error"}, name : Texts \cup {NoText}, msg : Texts \cup {NoText}]
  BY <1>5
<1>6. CASE x \in [tag : {"typed"}, elem : STRING, bytes : {"none", "some"}]
  BY <1>6
<1>7. CASE x \in [tag : {"array"}, len : Nat]
  BY <1>7
<1> QED
  BY <1>1, <1>2, <1>3, <1>4, <1>5, <1>6, <1>7 DEF JsParts

\* What a number is for the host.
LEMMA NumberOut ==
  ASSUME NEW x \in JsNumbers
  PROVE  x \in JsParts /\ PartFromJs(x) = IntArg(Modular(NumberOf(x)))
<1>1. x.tag \in {"int", "float64"}
  BY DEF JsNumbers
<1>2. PartFromJs(x) = IntArg(ToInt32(x))
  BY <1>1 DEF PartFromJs, IsNumber
<1>3. x \in JsParts
  BY DEF JsParts, JsNumbers
<1> QED
  BY <1>2, <1>3, NumberModular

\* A number of the host there and back.
LEMMA NumberIn ==
  ASSUME NEW a, a.kind \in HostNumbers, NEW x \in JsNumbers, PartToJs(PartToEjr(a)) = x,
         NumberOf(x) = NumberOf(a)
  PROVE  /\ x \in JsParts /\ PartFromJs(x) = PartComes(a)
         /\ PartComes(a) # Throws /\ PartComes(a).kind # "array" /\ a.kind # "array"
<1>1. PartFromJs(x) = IntArg(Modular(NumberOf(a))) /\ x \in JsParts
  BY NumberOut
<1>2. /\ a.kind \in {"int", "uint32", "float", "double", "int64"}
      /\ a.kind = "int64" => LongIsInt64
  BY DEF HostNumbers
<1>3. PartComes(a) = IntArg(Modular(NumberOf(a)))
  BY <1>2 DEF PartComes
<1> QED
  BY <1>1, <1>2, <1>3 DEF IntArg, Throws

\* What a part is in JavaScript, and what comes back.
LEMMA PartIn ==
  ASSUME NEW a \in HostParts
  PROVE  /\ PartToJs(PartToEjr(a)) \in JsParts
         /\ a.kind \in HostNumbers =>
              /\ PartToJs(PartToEjr(a)) \in JsNumbers
              /\ NumberOf(PartToJs(PartToEjr(a))) = NumberOf(a)
         /\ PartFromJs(PartToJs(PartToEjr(a))) = PartComes(a)
         /\ PartComes(a) # Throws
         /\ PartComes(a).kind = "array" <=> a.kind = "array"
         /\ a.kind = "array" => PartComes(a) = a
<1> DEFINE x == PartToJs(PartToEjr(a))
<1>1. ASSUME NEW n \in Ints, a = [kind |-> "int", n |-> n]
      PROVE  a.kind \in HostNumbers /\ x \in JsNumbers /\ NumberOf(x) = NumberOf(a)
  <2>1. a.kind = "int" /\ a.n = n /\ "n" \in DOMAIN a
    BY <1>1
  <2>2. x = JsInt(n)
    BY <2>1 DEF PartToEjr, PartToJs
  <2>3. NumberOf(a) = Nearest(n)
    BY <2>1 DEF NumberOf
  <2> QED
    BY <2>1, <2>2, <2>3, IntNumber DEF HostNumbers
<1>2. ASSUME NEW n \in Uints, a = [kind |-> "uint32", n |-> n]
      PROVE  a.kind \in HostNumbers /\ x \in JsNumbers /\ NumberOf(x) = NumberOf(a)
  <2>1. a.kind = "uint32" /\ a.n = n /\ "n" \in DOMAIN a
    BY <1>2
  <2>2. x = NewInteger(n)
    BY <2>1 DEF PartToEjr, PartToJs
  <2>3. NumberOf(a) = Nearest(n)
    BY <2>1 DEF NumberOf
  <2> QED
    BY <2>1, <2>2, <2>3, IntegerBounds, NewIntegerIs DEF HostNumbers
<1>3. ASSUME NEW n \in Int64s, a = [kind |-> "int64", n |-> n], LongIsInt64
      PROVE  a.kind \in HostNumbers /\ x \in JsNumbers /\ NumberOf(x) = NumberOf(a)
  <2>1. a.kind = "int64" /\ a.n = n /\ "n" \in DOMAIN a
    BY <1>3
  <2>2. x = NewInteger(n)
    BY <1>3, <2>1 DEF PartToEjr, PartToJs
  <2>3. NumberOf(a) = Nearest(n)
    BY <2>1 DEF NumberOf
  <2>4. "int64" \in HostNumbers
    BY <1>3 DEF HostNumbers
  <2> QED
    BY <2>1, <2>2, <2>3, <2>4, IntegerBounds, NewIntegerIs
<1>4. ASSUME NEW d \in Doubles, NEW k \in {"float", "double"}, a = [kind |-> k, d |-> d]
      PROVE  a.kind \in HostNumbers /\ x \in JsNumbers /\ NumberOf(x) = NumberOf(a)
  <2>1. a.kind \in {"float", "double"} /\ a.d = d /\ "n" \notin DOMAIN a
    BY <1>4
  <2>2. x = NewFloat64(d)
    BY <2>1 DEF PartToEjr, PartToJs
  <2>3. NumberOf(a) = d
    BY <2>1 DEF NumberOf
  <2> QED
    BY <2>1, <2>2, <2>3, NewFloat64Is DEF HostNumbers
<1>5. CASE a.kind \in HostNumbers /\ x \in JsNumbers /\ NumberOf(x) = NumberOf(a)
  BY <1>5, NumberIn
<1>6. CASE ~LongIsInt64 /\ \E n \in Int64s : a = [kind |-> "int64", n |-> n]
  <2>1. a.kind = "int64" /\ a.kind \notin HostNumbers
    BY <1>6 DEF HostNumbers
  <2>2. x = [tag |-> "bigint"]
    BY <1>6, <2>1 DEF PartToEjr, PartToJs
  <2>3. x \in JsParts
    BY <2>2 DEF JsParts
  <2>4. PartFromJs(x) = String("[unsupported]")
    BY <2>2 DEF PartFromJs, IsNumber
  <2>5. PartComes(a) = String("[unsupported]")
    BY <1>6, <2>1 DEF PartComes
  <2> QED
    BY <2>1, <2>3, <2>4, <2>5 DEF String, Throws
<1>7. CASE \E b \in BOOLEAN : a = [kind |-> "bool", b |-> b]
  <2>1. PICK b \in BOOLEAN : a = [kind |-> "bool", b |-> b]
    BY <1>7
  <2>2. a.kind = "bool" /\ a.b = b /\ a.kind \notin HostNumbers
    BY <2>1 DEF HostNumbers
  <2>3. x = [tag |-> "bool", b |-> b]
    BY <2>2 DEF PartToEjr, PartToJs
  <2>4. x \in JsParts
    BY <2>3 DEF JsParts
  <2>5. PartFromJs(x) = a
    BY <2>1, <2>3 DEF PartFromJs, IsNumber
  <2>6. PartComes(a) = a
    BY <2>2 DEF PartComes, PartToEjr
  <2> QED
    BY <2>1, <2>2, <2>4, <2>5, <2>6 DEF Throws
<1>8. CASE \E s \in Texts : a = [kind |-> "string", s |-> s]
  <2>1. PICK s \in Texts : a = [kind |-> "string", s |-> s]
    BY <1>8
  <2>2. a.kind = "string" /\ a.s = s /\ a.kind \notin HostNumbers
    BY <2>1 DEF HostNumbers
  <2>3. x = [tag |-> "string", s |-> s, more |-> FALSE]
    BY <2>2 DEF PartToEjr, PartToJs
  <2>4. x \in JsParts
    BY <2>3 DEF JsParts
  <2>5. PartFromJs(x) = a
    BY <2>1, <2>3 DEF PartFromJs, IsNumber, String
  <2>6. PartComes(a) = a
    BY <2>2 DEF PartComes, PartToEjr
  <2> QED
    BY <2>1, <2>2, <2>4, <2>5, <2>6 DEF Throws
<1>9. CASE \E k \in {"null", "undefined"} : a = [kind |-> k]
  <2>1. PICK k \in {"null", "undefined"} : a = [kind |-> k]
    BY <1>9
  <2>2. a.kind = k /\ a.kind \notin HostNumbers
    BY <2>1 DEF HostNumbers
  <2>3. x = [tag |-> k]
    BY <2>1, <2>2 DEF PartToEjr, PartToJs
  <2>4. x \in JsParts
    BY <2>1, <2>3 DEF JsParts
  <2>5. PartFromJs(x) = String(k)
    BY <2>1, <2>3 DEF PartFromJs, IsNumber
  <2>6. PartComes(a) = String(k)
    BY <2>1, <2>2 DEF PartComes
  <2> QED
    BY <2>1, <2>2, <2>4, <2>5, <2>6 DEF Throws, String
<1>10. CASE \E m, s \in Texts \cup {NoText} : a = [kind |-> "exception", name |-> m, msg |-> s]
  <2>1. PICK m, s \in Texts \cup {NoText} : a = [kind |-> "exception", name |-> m, msg |-> s]
    BY <1>10
  <2> DEFINE m1 == IF m = NoText THEN "Exception" ELSE m
             s1 == IF s = NoText THEN "Exception" ELSE s
             a1 == [kind |-> "exception", name |-> m1, msg |-> s1]
  <2>2. a.kind = "exception" /\ a.kind \notin HostNumbers
    BY <2>1 DEF HostNumbers
  <2>3. PartToEjr(a) = a1
    BY <2>1 DEF PartToEjr
  <2>4. m1 # NoText /\ s1 # NoText /\ m1 \in Texts \cup {NoText} /\ s1 \in Texts \cup {NoText}
    BY OtherAssumption DEF NoText
  <2> HIDE DEF m1, s1
  <2>5. x = [tag |-> "error", name |-> m1, msg |-> s1]
    BY <2>3 DEF PartToJs
  <2>6. x \in JsParts
    BY <2>4, <2>5 DEF JsParts
  <2>7. PartFromJs(x) = a1
    BY <2>4, <2>5 DEF PartFromJs, IsNumber
  <2>8. PartComes(a) = a1
    BY <2>2, <2>3 DEF PartComes
  <2> QED
    BY <2>2, <2>6, <2>7, <2>8 DEF Throws
<1>11. CASE \E e \in Elements, b \in {"none", "some"} : a = [kind |-> "typed", elem |-> e, bytes |-> b]
  <2>1. PICK e \in Elements, b \in {"none", "some"} : a = [kind |-> "typed", elem |-> e, bytes |-> b]
    BY <1>11
  <2>2. a.kind = "typed" /\ a.elem = e /\ a.bytes = b /\ a.kind \notin HostNumbers
    BY <2>1 DEF HostNumbers
  <2>3. x = [tag |-> "typed", elem |-> e, bytes |-> b]
    BY <2>2 DEF PartToEjr, PartToJs
  <2>4. x \in JsParts
    BY <2>3, OtherAssumption DEF JsParts
  <2>5. PartFromJs(x) = a
    BY <2>1, <2>3 DEF PartFromJs, IsNumber
  <2>6. PartComes(a) = a
    BY <2>2 DEF PartComes, PartToEjr
  <2> QED
    BY <2>1, <2>2, <2>4, <2>5, <2>6 DEF Throws
<1>12. CASE \E l \in Nat : a = [kind |-> "array", len |-> l]
  <2>1. PICK l \in Nat : a = [kind |-> "array", len |-> l]
    BY <1>12
  <2>2. a.kind = "array" /\ a.len = l /\ a.kind \notin HostNumbers
    BY <2>1 DEF HostNumbers
  <2>3. x = [tag |-> "array", len |-> l]
    BY <2>2 DEF PartToEjr, PartToJs
  <2>4. x \in JsParts
    BY <2>3 DEF JsParts
  <2>5. PartFromJs(x) = a
    BY <2>1, <2>3 DEF PartFromJs, IsNumber
  <2>6. PartComes(a) = a
    BY <2>2 DEF PartComes, PartToEjr
  <2> QED
    BY <2>1, <2>2, <2>4, <2>5, <2>6 DEF Throws
<1> HIDE DEF x
<1> QED
  BY <1>1, <1>2, <1>3, <1>4, <1>5, <1>6, <1>7, <1>8, <1>9, <1>10, <1>11, <1>12, HostPartCases DEF x

\* The parts that do not change again.
StableParts ==
  [kind : {"int"}, n : Ints] \cup [kind : {"bool"}, b : BOOLEAN] \cup [kind : {"string"}, s : Texts]
  \cup [kind : {"exception"}, name : Texts \ {NoText}, msg : Texts \ {NoText}]
  \cup [kind : {"typed"}, elem : Elements, bytes : {"none", "some"}]
  \cup [kind : {"array"}, len : Nat \ {0}]

\* What from_js makes of a part of JavaScript is stable, or stops the program.
LEMMA PartOut ==
  ASSUME NEW x \in JsParts
  PROVE  \/ PartFromJs(x) \in StableParts
         \/ PartFromJs(x) = Throws
         \/ PartFromJs(x).kind = "array" /\ PartFromJs(x).len = 0
<1>1. CASE x \in JsNumbers
  <2>1. PartFromJs(x) = [kind |-> "int", n |-> Modular(NumberOf(x))]
    BY <1>1, NumberOut DEF IntArg
  <2>2. Modular(NumberOf(x)) \in Ints
    BY <1>1, NumberModular, ModularType
  <2> QED
    BY <2>1, <2>2 DEF StableParts
<1>2. CASE \E b \in BOOLEAN : x = [tag |-> "bool", b |-> b]
  <2>1. PICK b \in BOOLEAN : x = [tag |-> "bool", b |-> b]
    BY <1>2
  <2>2. PartFromJs(x) = [kind |-> "bool", b |-> b]
    BY <2>1 DEF PartFromJs, IsNumber
  <2> QED
    BY <2>2 DEF StableParts
<1>3. CASE \E s \in Texts, r \in BOOLEAN : x = [tag |-> "string", s |-> s, more |-> r]
  <2>1. PICK s \in Texts, r \in BOOLEAN : x = [tag |-> "string", s |-> s, more |-> r]
    BY <1>3
  <2>2. PartFromJs(x) = [kind |-> "string", s |-> s]
    BY <2>1 DEF PartFromJs, IsNumber, String
  <2> QED
    BY <2>2 DEF StableParts
<1>4. CASE \E k \in {"null", "undefined", "bigint", "object"} : x = [tag |-> k]
  <2>1. PICK k \in {"null", "undefined", "bigint", "object"} : x = [tag |-> k]
    BY <1>4
  <2>2. CASE k \in {"null", "undefined"}
    <3>1. PartFromJs(x) = [kind |-> "string", s |-> k]
      BY <2>1, <2>2 DEF PartFromJs, IsNumber, String
    <3>2. k \in Texts
      BY <2>2, OtherAssumption
    <3> QED
      BY <3>1, <3>2 DEF StableParts
  <2>3. CASE k \in {"bigint", "object"}
    <3>1. PartFromJs(x) = [kind |-> "string", s |-> "[unsupported]"]
      BY <2>1, <2>3 DEF PartFromJs, IsNumber, String
    <3>2. "[unsupported]" \in Texts
      BY OtherAssumption
    <3> QED
      BY <3>1, <3>2 DEF StableParts
  <2> QED
    BY <2>1, <2>2, <2>3
<1>5. CASE \E m, s \in Texts \cup {NoText} : x = [tag |-> "error", name |-> m, msg |-> s]
  <2>1. PICK m, s \in Texts \cup {NoText} : x = [tag |-> "error", name |-> m, msg |-> s]
    BY <1>5
  <2>2. CASE m = NoText
    BY <2>1, <2>2 DEF PartFromJs, IsNumber
  <2>3. CASE m # NoText
    <3> DEFINE s1 == IF s = NoText THEN "Exception" ELSE s
    <3>1. s1 \in Texts \ {NoText} /\ m \in Texts \ {NoText}
      BY <2>3, OtherAssumption DEF NoText
    <3>2. PartFromJs(x) = [kind |-> "exception", name |-> m, msg |-> s1]
      BY <2>1, <2>3 DEF PartFromJs, IsNumber
    <3> HIDE DEF s1
    <3> QED
      BY <3>1, <3>2 DEF StableParts
  <2> QED
    BY <2>2, <2>3
<1>6. CASE \E e \in STRING, b \in {"none", "some"} : x = [tag |-> "typed", elem |-> e, bytes |-> b]
  <2>1. PICK e \in STRING, b \in {"none", "some"} : x = [tag |-> "typed", elem |-> e, bytes |-> b]
    BY <1>6
  <2>2. CASE e \in Elements
    <3>1. PartFromJs(x) = [kind |-> "typed", elem |-> e, bytes |-> b]
      BY <2>1, <2>2 DEF PartFromJs, IsNumber
    <3> QED
      BY <2>2, <3>1 DEF StableParts
  <2>3. CASE e \notin Elements
    <3>1. PartFromJs(x) = [kind |-> "string", s |-> "[unsupported]"]
      BY <2>1, <2>3 DEF PartFromJs, IsNumber, String
    <3>2. "[unsupported]" \in Texts
      BY OtherAssumption
    <3> QED
      BY <3>1, <3>2 DEF StableParts
  <2> QED
    BY <2>2, <2>3
<1>7. CASE \E l \in Nat : x = [tag |-> "array", len |-> l]
  <2>1. PICK l \in Nat : x = [tag |-> "array", len |-> l]
    BY <1>7
  <2>2. PartFromJs(x) = [kind |-> "array", len |-> l]
    BY <2>1 DEF PartFromJs, IsNumber
  <2>3. CASE l = 0
    BY <2>2, <2>3
  <2>4. CASE l # 0
    BY <2>2, <2>4 DEF StableParts
  <2> QED
    BY <2>3, <2>4
<1> QED
  BY <1>1, <1>2, <1>3, <1>4, <1>5, <1>6, <1>7, JsPartCases

\* A stable part is one of the host, comes back as it is, and is not an empty array.
LEMMA StableIs ==
  ASSUME NEW a \in StableParts
  PROVE  /\ a \in HostParts /\ PartComes(a) = a /\ a # Throws
         /\ a.kind = "array" => a.len # 0
<1>1. CASE a \in [kind : {"int"}, n : Ints]
  <2>1. a = [kind |-> "int", n |-> a.n] /\ a.n \in Ints
    BY <1>1
  <2>2. a.kind = "int" /\ NumberOf(a) = Nearest(a.n) /\ a.kind \in HostNumbers
    BY <2>1 DEF NumberOf, HostNumbers
  <2>3. PartComes(a) = IntArg(a.n)
    BY <2>1, <2>2, ModularInt DEF PartComes
  <2> QED
    BY <1>1, <2>1, <2>3 DEF IntArg, Throws, HostParts, Scalars
<1>2. CASE a \in [kind : {"bool"}, b : BOOLEAN]
  <2>1. a.kind = "bool" /\ a.kind \notin HostNumbers
    BY <1>2 DEF HostNumbers
  <2>2. PartComes(a) = a
    BY <2>1 DEF PartComes, PartToEjr
  <2> QED
    BY <1>2, <2>1, <2>2 DEF Throws, HostParts, Scalars
<1>3. CASE a \in [kind : {"string"}, s : Texts]
  <2>1. a.kind = "string" /\ a.kind \notin HostNumbers
    BY <1>3 DEF HostNumbers
  <2>2. PartComes(a) = a
    BY <2>1 DEF PartComes, PartToEjr
  <2> QED
    BY <1>3, <2>1, <2>2 DEF Throws, HostParts, Scalars
<1>4. CASE a \in [kind : {"exception"}, name : Texts \ {NoText}, msg : Texts \ {NoText}]
  <2>1. /\ a = [kind |-> "exception", name |-> a.name, msg |-> a.msg]
        /\ a.name \in Texts /\ a.name # NoText /\ a.msg \in Texts /\ a.msg # NoText
    BY <1>4
  <2>2. a.kind = "exception" /\ a.kind \notin HostNumbers
    BY <2>1 DEF HostNumbers
  <2>3. PartToEjr(a) = a
    BY <2>1 DEF PartToEjr
  <2>4. PartComes(a) = a
    BY <2>2, <2>3 DEF PartComes
  <2>5. a \in [kind : {"exception"}, name : Texts \cup {NoText}, msg : Texts \cup {NoText}]
    BY <2>1
  <2> QED
    BY <2>2, <2>4, <2>5 DEF Throws, HostParts, Objects
<1>5. CASE a \in [kind : {"typed"}, elem : Elements, bytes : {"none", "some"}]
  <2>1. a.kind = "typed" /\ a.kind \notin HostNumbers
    BY <1>5 DEF HostNumbers
  <2>2. PartComes(a) = a
    BY <2>1 DEF PartComes, PartToEjr
  <2> QED
    BY <1>5, <2>1, <2>2 DEF Throws, HostParts, Objects
<1>6. CASE a \in [kind : {"array"}, len : Nat \ {0}]
  <2>1. a.kind = "array" /\ a.kind \notin HostNumbers /\ a.len # 0
    BY <1>6 DEF HostNumbers
  <2>2. PartComes(a) = a
    BY <2>1 DEF PartComes, PartToEjr
  <2>3. a \in [kind : {"array"}, len : Nat]
    BY <1>6
  <2> QED
    BY <2>1, <2>2, <2>3 DEF Throws, HostParts
<1> QED
  BY <1>1, <1>2, <1>3, <1>4, <1>5, <1>6 DEF StableParts

-----------------------------------------------------------------------------
(* Values *)

\* A value of the host in JavaScript, and what comes back of it.
LEMMA ValueIn ==
  ASSUME NEW v, Of(v, HostParts)
  PROVE  LET x == ToJs(ToEjr(v))
         IN  /\ Of(x, JsParts) /\ DOMAIN x = DOMAIN v
             /\ \A p \in DOMAIN v : x[p] = PartToJs(PartToEjr(v[p]))
             /\ ToJsarg(FromJs(x)) = Comes(v)
<1> DEFINE x == ToJs(ToEjr(v))
           y == [p \in DOMAIN v |-> PartComes(v[p])]
<1>1. \A p \in DOMAIN v : v[p] \in HostParts
  BY DEF Of
<1>2. x = [p \in DOMAIN v |-> PartToJs(PartToEjr(v[p]))]
  BY DEF ToJs, ToEjr
<1>3. Of(x, JsParts)
  <2>1. DOMAIN x = DOMAIN v /\ \A p \in DOMAIN v : x[p] = PartToJs(PartToEjr(v[p]))
    BY <1>2
  <2>2. \A p \in DOMAIN x : x[p] \in JsParts
    BY <1>1, <2>1, PartIn
  <2>3. x = [p \in DOMAIN x |-> x[p]]
    BY <1>2, <2>1
  <2> QED
    BY <2>2, <2>3 DEF Of
<1>4. FromJs(x) = y
  <2>1. [p \in DOMAIN x |-> PartFromJs(x[p])] = y
    BY <1>1, <1>2, PartIn
  <2>2. \A p \in DOMAIN v : y[p] # Throws
    BY <1>1, PartIn
  <2>3. DOMAIN y = DOMAIN v
    OBVIOUS
  <2> HIDE DEF x, y
  <2> QED
    BY <2>1, <2>2, <2>3 DEF FromJs, OrThrows
<1>5. \A p \in DOMAIN v : PartToJsarg(y[p]) = IF v[p].kind = "array" /\ v[p].len = 0 THEN Throws ELSE y[p]
  <2> TAKE p \in DOMAIN v
  <2>1. y[p] = PartComes(v[p])
    OBVIOUS
  <2>2. (y[p].kind = "array" <=> v[p].kind = "array") /\ (v[p].kind = "array" => y[p] = v[p])
    BY <1>1, <2>1, PartIn
  <2> HIDE DEF y
  <2> QED
    BY <2>2 DEF PartToJsarg
<1>6. ToJsarg(y) = Comes(v)
  <2> DEFINE z == [p \in DOMAIN y |-> PartToJsarg(y[p])]
  <2>1. DOMAIN y = DOMAIN v /\ DOMAIN z = DOMAIN v /\ \A p \in DOMAIN v : z[p] = PartToJsarg(y[p])
    OBVIOUS
  <2>2. \A p \in DOMAIN v : y[p] # Throws
    BY <1>1, PartIn
  <2>3. ToJsarg(y) = OrThrows(z)
    BY DEF ToJsarg
  <2>4. y = [p \in DOMAIN v |-> y[p]] /\ z = [p \in DOMAIN v |-> z[p]]
    OBVIOUS
  <2>5. Comes(v) = IF \E p \in DOMAIN v : v[p].kind = "array" /\ v[p].len = 0 THEN Whole(Throws) ELSE y
    BY DEF Comes
  <2> HIDE DEF y, z
  <2>6. CASE \E p \in DOMAIN v : v[p].kind = "array" /\ v[p].len = 0
    BY <1>5, <2>1, <2>3, <2>5, <2>6 DEF OrThrows
  <2>7. CASE ~\E p \in DOMAIN v : v[p].kind = "array" /\ v[p].len = 0
    <3>1. \A p \in DOMAIN v : z[p] = y[p]
      BY <1>5, <2>1, <2>7
    <3>2. z = y
      BY <2>4, <3>1
    <3>3. ~\E p \in DOMAIN z : z[p] = Throws
      BY <2>1, <2>2, <3>1
    <3> QED
      BY <2>3, <2>5, <2>7, <3>2, <3>3 DEF OrThrows
  <2> QED
    BY <2>6, <2>7
<1> HIDE DEF x, y
<1>7. DOMAIN x = DOMAIN v /\ \A p \in DOMAIN v : x[p] = PartToJs(PartToEjr(v[p]))
  BY <1>2
<1> QED
  BY <1>3, <1>4, <1>6, <1>7 DEF x

\* What comes back of a value of JavaScript does not change again.
LEMMA ValueOut ==
  ASSUME NEW x, Of(x, JsParts)
  PROVE  ToJsarg(FromJs(x)) = Whole(Throws) \/ Of(ToJsarg(FromJs(x)), StableParts)
<1> DEFINE y == [p \in DOMAIN x |-> PartFromJs(x[p])]
<1>1. DOMAIN y = DOMAIN x /\ \A p \in DOMAIN y : y[p] = PartFromJs(x[p])
  OBVIOUS
<1>2. \A p \in DOMAIN y : \/ y[p] \in StableParts \/ y[p] = Throws
                          \/ y[p].kind = "array" /\ y[p].len = 0
  BY <1>1, PartOut DEF Of
<1>3. FromJs(x) = OrThrows(y)
  BY DEF FromJs
<1>4. y = [p \in DOMAIN y |-> y[p]]
  OBVIOUS
<1> HIDE DEF y
<1> DEFINE z(u) == [p \in DOMAIN u |-> PartToJsarg(u[p])]
<1>5. CASE \E p \in DOMAIN y : y[p] = Throws
  <2>1. FromJs(x) = Whole(Throws)
    BY <1>3, <1>5 DEF OrThrows
  <2>2. PartToJsarg(Throws) = Throws
    BY DEF PartToJsarg, Throws
  <2>3. <<>> \in DOMAIN z(Whole(Throws)) /\ z(Whole(Throws))[<<>>] = Throws
    BY <2>2 DEF Whole
  <2> HIDE DEF z
  <2>4. OrThrows(z(Whole(Throws))) = Whole(Throws)
    BY <2>3 DEF OrThrows
  <2> QED
    BY <2>1, <2>4 DEF ToJsarg, z
<1>6. CASE ~\E p \in DOMAIN y : y[p] = Throws
  <2>1. FromJs(x) = y
    BY <1>3, <1>6 DEF OrThrows
  <2>2. ToJsarg(y) = OrThrows(z(y))
    BY DEF ToJsarg
  <2>3. DOMAIN z(y) = DOMAIN y /\ \A p \in DOMAIN y : z(y)[p] = PartToJsarg(y[p])
    OBVIOUS
  <2>4. z(y) = [p \in DOMAIN z(y) |-> z(y)[p]]
    OBVIOUS
  <2> HIDE DEF z
  <2>5. CASE \E p \in DOMAIN z(y) : z(y)[p] = Throws
    BY <2>1, <2>2, <2>5 DEF OrThrows
  <2>6. CASE ~\E p \in DOMAIN z(y) : z(y)[p] = Throws
    <3>1. \A p \in DOMAIN z(y) : z(y)[p] \in StableParts
      BY <1>2, <1>6, <2>3, <2>6 DEF PartToJsarg
    <3> QED
      BY <2>1, <2>2, <2>4, <2>6, <3>1 DEF OrThrows, Of
  <2> QED
    BY <2>5, <2>6
<1> QED
  BY <1>5, <1>6

\* A stable value comes back as it is.
LEMMA ValueStable ==
  ASSUME NEW v, Of(v, StableParts)
  PROVE  Of(v, HostParts) /\ Comes(v) = v
<1>1. v = [p \in DOMAIN v |-> v[p]] /\ \A p \in DOMAIN v : v[p] \in StableParts
  BY DEF Of
<1>2. \A p \in DOMAIN v : v[p] \in HostParts /\ PartComes(v[p]) = v[p]
                          /\ ~(v[p].kind = "array" /\ v[p].len = 0)
  BY <1>1, StableIs
<1>3. [p \in DOMAIN v |-> PartComes(v[p])] = [p \in DOMAIN v |-> v[p]]
  BY <1>2
<1> QED
  BY <1>1, <1>2, <1>3 DEF Of, Comes

-----------------------------------------------------------------------------
(* The invariant *)

\* Where the value comes from, and that it does not change after the first trip.
History ==
  /\ at = "js" => trips < MaxTrips
  /\ at = "host" /\ trips = 0 => value = origin
  /\ at = "js" /\ trips = 0 /\ origin # Scripted => Of(origin, HostParts) /\ value = ToJs(ToEjr(origin))
  /\ at # "js" /\ trips = 1 /\ origin # Scripted => value = Comes(origin)
  /\ at = "host" /\ trips > 0 => value = first /\ Of(first, StableParts)
  /\ at = "js" /\ trips > 0 => value = ToJs(ToEjr(first)) /\ Of(first, StableParts)

\* The inductive invariant.
IInv == TypeOK /\ History

\* The invariant holds initially.
LEMMA InitIInv ==
  Init => IInv
<1> SUFFICES ASSUME Init PROVE IInv
  OBVIOUS
<1>1. Of(value, HostParts)
  BY ValuesAssumption DEF Init
<1> QED
  BY <1>1, OtherAssumption DEF Init, IInv, TypeOK, History

\* Every step keeps the invariant.
LEMMA StepIInv ==
  IInv /\ [Next]_vars => IInv'
<1> SUFFICES ASSUME IInv, [Next]_vars PROVE IInv'
  OBVIOUS
<1>1. CASE HostPasses
  <2>1. /\ at = "host" /\ trips < MaxTrips /\ at' = "js" /\ value' = ToJs(ToEjr(value))
        /\ origin' = origin /\ first' = first /\ trips' = trips
    BY <1>1 DEF HostPasses
  <2>2. Of(value, HostParts) /\ trips \in 0 .. MaxTrips
    BY <2>1 DEF IInv, TypeOK
  <2>3. Of(value', JsParts)
    BY <2>1, <2>2, ValueIn
  <2>4. TypeOK'
    BY <2>1, <2>2, <2>3 DEF TypeOK
  <2>5. History'
    BY <2>1, <2>2 DEF IInv, History, Scripted
  <2> QED
    BY <2>4, <2>5 DEF IInv
<1>2. CASE ScriptMakes
  <2>1. /\ at = "js" /\ trips = 0 /\ value' \in JsMade /\ origin' = Scripted
        /\ at' = at /\ first' = first /\ trips' = trips
    BY <1>2 DEF ScriptMakes
  <2>2. trips \in 0 .. MaxTrips /\ trips < MaxTrips
    BY <2>1 DEF IInv, TypeOK, History
  <2>3. Of(value', JsParts)
    BY <2>1, ValuesAssumption
  <2>4. TypeOK'
    BY <2>1, <2>2, <2>3 DEF TypeOK
  <2>5. Scripted' = Scripted
    BY DEF Scripted
  <2>6. History'
    BY <2>1, <2>2, <2>5 DEF History
  <2> QED
    BY <2>4, <2>6 DEF IInv
<1>3. CASE HostGets
  <2> DEFINE v == ToJsarg(FromJs(value))
  <2>1. /\ at = "js" /\ value' = v /\ at' = IF v = Whole(Throws) THEN "stopped" ELSE "host"
        /\ first' = IF trips = 0 THEN v ELSE first
        /\ trips' = trips + 1 /\ origin' = origin
    BY <1>3 DEF HostGets
  <2>2. Of(value, JsParts) /\ trips \in Nat /\ MaxTrips \in Nat /\ trips < MaxTrips
    BY <2>1, OtherAssumption DEF IInv, TypeOK, History
  <2>3. v = Whole(Throws) \/ Of(v, StableParts)
    BY <2>2, ValueOut
  <2>4. v # Whole(Throws) => Of(v, StableParts) /\ Of(v, HostParts)
    BY <2>3, ValueStable
  <2>5. trips > 0 => v = first /\ Of(first, StableParts)
    <3> SUFFICES ASSUME trips > 0 PROVE v = first /\ Of(first, StableParts)
      OBVIOUS
    <3>1. value = ToJs(ToEjr(first)) /\ Of(first, StableParts)
      BY <2>1 DEF IInv, History
    <3>2. Of(first, HostParts) /\ Comes(first) = first
      BY <3>1, ValueStable
    <3> QED
      BY <3>1, <3>2, ValueIn
  <2>6. trips = 0 /\ origin # Scripted => v = Comes(origin)
    <3> SUFFICES ASSUME trips = 0, origin # Scripted PROVE v = Comes(origin)
      OBVIOUS
    <3>1. Of(origin, HostParts) /\ value = ToJs(ToEjr(origin))
      BY <2>1 DEF IInv, History
    <3> QED
      BY <3>1, ValueIn
  <2> HIDE DEF v
  <2>7. TypeOK'
    BY <2>1, <2>2, <2>4 DEF TypeOK
  <2>8. Scripted' = Scripted
    BY DEF Scripted
  <2>9. Comes(origin)' = Comes(origin) /\ ToJs(ToEjr(origin))' = ToJs(ToEjr(origin))
    BY <2>1
  <2>10. History'
    BY <2>1, <2>2, <2>4, <2>5, <2>6, <2>8 DEF History
  <2> QED
    BY <2>7, <2>10 DEF IInv
<1>4. CASE UNCHANGED vars
  <2>1. UNCHANGED <<at, value, origin, first, trips>>
    BY <1>4 DEF vars
  <2> QED
    BY <2>1 DEF IInv, TypeOK, History, Scripted
<1> QED
  BY <1>1, <1>2, <1>3, <1>4 DEF Next

\* The invariant of to_js and from_js: the values have the types of their side, and
\* what has been around once no longer changes.
THEOREM ConversionsInvariant == Spec => []IInv
<1> QED
  BY InitIInv, StepIInv, PTL DEF Spec

\* NumbersExact: to_js keeps every number of the host, and JS_ToInt32Free, which
\* from_js calls, computes from a number what ECMAScript says.
THEOREM ConversionsNumbers == Spec => []NumbersExact
<1>1. IInv => NumbersExact
  <2> SUFFICES ASSUME IInv PROVE NumbersExact
    OBVIOUS
  <2>1. ASSUME at = "js", trips = 0, origin # Scripted, NEW p \in DOMAIN origin,
               origin[p].kind \in HostNumbers
        PROVE  IsNumber(value[p]) /\ NumberOf(value[p]) = NumberOf(origin[p])
    <3>1. Of(origin, HostParts) /\ value = ToJs(ToEjr(origin))
      BY <2>1 DEF IInv, History
    <3>2. value[p] = PartToJs(PartToEjr(origin[p])) /\ origin[p] \in HostParts
      BY <2>1, <3>1, ValueIn DEF Of
    <3>3. value[p] \in JsNumbers /\ NumberOf(value[p]) = NumberOf(origin[p])
      BY <2>1, <3>2, PartIn
    <3> QED
      BY <3>3, NumberModular
  <2>2. ASSUME at = "js", NEW p \in DOMAIN value, IsNumber(value[p])
        PROVE  ToInt32(value[p]) = Modular(NumberOf(value[p]))
    <3>1. value[p] \in JsParts
      BY <2>2 DEF IInv, TypeOK, Of
    <3>2. value[p] \in JsNumbers
      BY <2>2, <3>1, JsPartCases DEF IsNumber
    <3> QED
      BY <3>2, NumberModular
  <2>3. TypeOK
    BY DEF IInv
  <2> QED
    BY <2>1, <2>2, <2>3 DEF NumbersExact
<1> QED
  BY <1>1, ConversionsInvariant, PTL

\* ComesBack: what from_js gives back is what was passed to to_js, as far as JavaScript
\* and an int can tell, and it is the same on every later trip.
THEOREM ConversionsComeBack == Spec => []ComesBack
<1>1. IInv => ComesBack
  <2> SUFFICES ASSUME IInv PROVE ComesBack
    OBVIOUS
  <2>1. trips \in Nat
    BY DEF IInv, TypeOK
  <2> QED
    BY <2>1 DEF IInv, History, ComesBack
<1> QED
  BY <1>1, ConversionsInvariant, PTL

=============================================================================
