---------------------------- MODULE BusFabric_proof ----------------------------
(***************************************************************************)
(* Theorems about the dual-core bus: it implements the atomic memory, for   *)
(* every width of a word, every number of cells, every timeout and every    *)
(* program.                                                                 *)
(*                                                                          *)
(* First the arithmetic of words (induction over their bits), then what the *)
(* wires of the fabric carry, the invariant, one lemma for each kind of     *)
(* clock edge, and the refinement.                                          *)
(***************************************************************************)
EXTENDS BusFabric, TLAPS, WellFoundedInduction

\* A set of naturals that is not empty has a least element: induction over the bits of a word.
Less == {p \in Nat \X Nat : p[1] < p[2]}

LEMMA LeastElement ==
  ASSUME NEW T \in SUBSET Nat, T # {}
  PROVE  \E n \in T : \A m \in T : n <= m
<1>1. IsWellFoundedOn(Less, Nat)
  BY NatLessThanWellFounded DEF Less, OpToRel
<1>2. PICK n \in T : \A m \in T : ~(<<m, n>> \in Less)
  BY <1>1, WFMin
<1>3. \A m \in T : n <= m
  <2> TAKE m \in T
  <2>1. <<m, n>> \notin Less
    BY <1>2
  <2>2. <<m, n>> \in Nat \X Nat /\ <<m, n>>[1] = m /\ <<m, n>>[2] = n
    OBVIOUS
  <2>3. ~(m < n)
    BY <2>1, <2>2 DEF Less
  <2> QED
    BY <2>3
<1> QED
  BY <1>3

\* What holds for 0, and for n + 1 if it holds for n < m, holds up to m; S is the set of those
\* for which it holds.
LEMMA UpTo ==
  ASSUME NEW m \in Nat, NEW S, 0 \in S, \A n \in 0 .. m - 1 : n \in S => n + 1 \in S
  PROVE  \A n \in 0 .. m : n \in S
<1> DEFINE T == {n \in 0 .. m : n \notin S}
<1> SUFFICES ASSUME T # {} PROVE FALSE
  OBVIOUS
<1>1. PICK n \in T : \A k \in T : n <= k
  <2>1. T \in SUBSET Nat
    OBVIOUS
  <2> HIDE DEF T
  <2> QED
    BY <2>1, LeastElement
<1>2. n - 1 \in 0 .. m - 1 /\ n - 1 \notin T
  BY <1>1
<1>3. n - 1 \in S
  BY <1>2
<1> QED
  BY <1>1, <1>2, <1>3

\* A running sum over the bits exists.
LEMMA SumExists ==
  ASSUME NEW m \in Nat, NEW term, \A n \in 0 .. m - 1 : term[n] \in Int
  PROVE  \E sum \in [0 .. m -> Int] :
           sum = [i \in 0 .. m |-> IF i = 0 THEN 0 ELSE sum[i - 1] + term[i - 1]]
<1> DEFINE Sums(k) == {sum \in [0 .. k -> Int] :
                         sum = [i \in 0 .. k |-> IF i = 0 THEN 0 ELSE sum[i - 1] + term[i - 1]]}
           S == {k \in 0 .. m : Sums(k) # {}}
<1>1. 0 \in S
  <2>1. [i \in 0 .. 0 |-> 0] \in Sums(0)
    OBVIOUS
  <2> QED
    BY <2>1
<1>2. ASSUME NEW k \in 0 .. m - 1, k \in S PROVE k + 1 \in S
  <2>1. PICK sum \in [0 .. k -> Int] :
          sum = [i \in 0 .. k |-> IF i = 0 THEN 0 ELSE sum[i - 1] + term[i - 1]]
    BY <1>2
  <2> DEFINE more == [i \in 0 .. k + 1 |-> IF i = k + 1 THEN sum[k] + term[k] ELSE sum[i]]
  <2>2. sum[k] \in Int /\ term[k] \in Int
    BY <2>1
  <2>3. more \in [0 .. k + 1 -> Int]
    BY <2>1, <2>2
  <2>4. \A i \in 0 .. k : more[i] = sum[i]
    OBVIOUS
  <2>5. \A i \in 0 .. k + 1 : more[i] = IF i = 0 THEN 0 ELSE more[i - 1] + term[i - 1]
    <3> TAKE i \in 0 .. k + 1
    <3>1. CASE i = k + 1
      BY <3>1, <2>4
    <3>2. CASE i \in 0 .. k
      <4>1. sum[i] = IF i = 0 THEN 0 ELSE sum[i - 1] + term[i - 1]
        BY <2>1, <3>2
      <4> QED
        BY <3>2, <4>1, <2>4
    <3> QED
      BY <3>1, <3>2
  <2>6. more \in Sums(k + 1)
    BY <2>3, <2>5
  <2>7. Sums(k + 1) # {}
    BY <2>6
  <2> HIDE DEF Sums
  <2> QED
    BY <2>7
<1>3. m \in S
  <2> HIDE DEF S
  <2>1. \A n \in 0 .. m : n \in S
    BY <1>1, <1>2, UpTo
  <2> QED
    BY <2>1
<1> QED
  BY <1>3

\* The bits of a word, and the sums behind And and ExclusiveOr.
LEMMA BitFacts ==
  ASSUME NEW v \in Word, NEW n \in 0 .. WordBits - 1
  PROVE  Bit(v, n) \in {0, 1} /\ 2^n \in Nat \ {0}
  BY BusAssumption, PowersOfTwo DEF Word, Bit

\* And is what its bits add up to ...
LEMMA AndSum ==
  ASSUME NEW v \in Word, NEW w \in Word
  PROVE  \E sum :
           /\ sum = [i \in 0 .. WordBits |->
                IF i = 0 THEN 0 ELSE sum[i - 1] + (Bit(v, i - 1) * Bit(w, i - 1)) * 2^(i - 1)]
           /\ And(v, w) = IF v = 0 \/ w = 0 THEN 0 ELSE sum[WordBits]
<1> DEFINE Is(s) == s = [i \in 0 .. WordBits |->
                IF i = 0 THEN 0 ELSE s[i - 1] + (Bit(v, i - 1) * Bit(w, i - 1)) * 2^(i - 1)]
           term == [n \in 0 .. WordBits - 1 |-> (Bit(v, n) * Bit(w, n)) * 2^n]
<1>1. \A n \in 0 .. WordBits - 1 : Bit(v, n) \in {0, 1} /\ Bit(w, n) \in {0, 1} /\ 2^n \in Nat
  BY BitFacts
<1>2. \A n \in 0 .. WordBits - 1 : term[n] \in Int
  BY <1>1
<1>3. PICK sum \in [0 .. WordBits -> Int] :
        sum = [i \in 0 .. WordBits |-> IF i = 0 THEN 0 ELSE sum[i - 1] + term[i - 1]]
  <2> HIDE DEF term
  <2> QED
    BY <1>2, SumExists, BusAssumption
<1>4. \A i \in 0 .. WordBits :
        sum[i] = IF i = 0 THEN 0 ELSE sum[i - 1] + (Bit(v, i - 1) * Bit(w, i - 1)) * 2^(i - 1)
  <2> TAKE i \in 0 .. WordBits
  <2>1. sum[i] = IF i = 0 THEN 0 ELSE sum[i - 1] + term[i - 1]
    BY <1>3
  <2>2. i # 0 => i - 1 \in 0 .. WordBits - 1
    BY BusAssumption
  <2>3. i # 0 => term[i - 1] = (Bit(v, i - 1) * Bit(w, i - 1)) * 2^(i - 1)
    BY <2>2
  <2> QED
    BY <2>1, <2>3
<1>5. Is(CHOOSE s : Is(s))
  <2>1. Is(sum)
    BY <1>4
  <2> QED
    BY <2>1
<1>6. And(v, w) = IF v = 0 \/ w = 0 THEN 0 ELSE (CHOOSE s : Is(s))[WordBits]
  BY Zenon DEF And, Bitwise
<1> QED
  <2> HIDE DEF Is
  <2>1. \E s : Is(s) /\ And(v, w) = IF v = 0 \/ w = 0 THEN 0 ELSE s[WordBits]
    BY <1>5, <1>6
  <2> QED
    BY <2>1 DEF Is

\* ... and so is the exclusive or.
LEMMA ExclusiveOrSum ==
  ASSUME NEW v \in Word, NEW w \in Word
  PROVE  \E sum :
           /\ sum = [i \in 0 .. WordBits |->
                IF i = 0 THEN 0 ELSE sum[i - 1] + ((Bit(v, i - 1) + Bit(w, i - 1)) % 2) * 2^(i - 1)]
           /\ ExclusiveOr(v, w) = sum[WordBits]
<1> DEFINE Is(s) == s = [i \in 0 .. WordBits |->
                IF i = 0 THEN 0 ELSE s[i - 1] + ((Bit(v, i - 1) + Bit(w, i - 1)) % 2) * 2^(i - 1)]
           term == [n \in 0 .. WordBits - 1 |-> ((Bit(v, n) + Bit(w, n)) % 2) * 2^n]
<1>1. \A n \in 0 .. WordBits - 1 : Bit(v, n) \in {0, 1} /\ Bit(w, n) \in {0, 1} /\ 2^n \in Nat
  BY BitFacts
<1>2. \A n \in 0 .. WordBits - 1 : term[n] \in Int
  BY <1>1
<1>3. PICK sum \in [0 .. WordBits -> Int] :
        sum = [i \in 0 .. WordBits |-> IF i = 0 THEN 0 ELSE sum[i - 1] + term[i - 1]]
  <2> HIDE DEF term
  <2> QED
    BY <1>2, SumExists, BusAssumption
<1>4. \A i \in 0 .. WordBits :
        sum[i] = IF i = 0 THEN 0 ELSE sum[i - 1] + ((Bit(v, i - 1) + Bit(w, i - 1)) % 2) * 2^(i - 1)
  <2> TAKE i \in 0 .. WordBits
  <2>1. sum[i] = IF i = 0 THEN 0 ELSE sum[i - 1] + term[i - 1]
    BY <1>3
  <2>2. i # 0 => i - 1 \in 0 .. WordBits - 1
    BY BusAssumption
  <2>3. i # 0 => term[i - 1] = ((Bit(v, i - 1) + Bit(w, i - 1)) % 2) * 2^(i - 1)
    BY <2>2
  <2> QED
    BY <2>1, <2>3
<1>5. Is(CHOOSE s : Is(s))
  <2>1. Is(sum)
    BY <1>4
  <2> QED
    BY <2>1
<1>6. ExclusiveOr(v, w) = (CHOOSE s : Is(s))[WordBits]
  BY Zenon DEF ExclusiveOr, Bitwise
<1> QED
  <2> HIDE DEF Is
  <2>1. \E s : Is(s) /\ ExclusiveOr(v, w) = s[WordBits]
    BY <1>5, <1>6
  <2> QED
    BY <2>1 DEF Is

\* The number of words and its half.
LEMMA WordSize ==
  /\ 2^WordBits = 2 * 2^(WordBits - 1)
  /\ 2^(WordBits - 1) \in Nat \ {0} /\ 2^WordBits \in Nat \ {0}
<1>1. WordBits - 1 \in 0 .. WordBits - 1 /\ (WordBits - 1) + 1 = WordBits
  BY BusAssumption
<1> QED
  BY <1>1, PowersOfTwo

\* A remainder is unique.
LEMMA Remainder ==
  ASSUME NEW d \in Nat \ {0}, NEW k \in Nat, NEW r \in 0 .. d - 1
  PROVE  (d * k + r) % d = r
<1> DEFINE n == d * k + r
           q == n \div d
           m == n % d
<1>1. n \in Nat /\ d * k \in Nat
  OBVIOUS
<1>2. q \in Nat /\ m \in 0 .. d - 1 /\ n = d * q + m /\ n = d * k + r
  BY <1>1
<1> HIDE DEF n, q, m
<1>3. CASE q >= k + 1
  <2>1. d * q >= d * (k + 1) /\ d * (k + 1) = d * k + d
    BY <1>2, <1>3
  <2> QED
    BY <1>1, <1>2, <2>1
<1>4. CASE k >= q + 1
  <2>1. d * k >= d * (q + 1) /\ d * (q + 1) = d * q + d
    BY <1>2, <1>4
  <2> QED
    BY <1>1, <1>2, <2>1
<1>5. CASE q = k
  BY <1>1, <1>2, <1>5 DEF m, n
<1> QED
  BY <1>2, <1>3, <1>4, <1>5

\* What the lowest n + 1 bits of a word are worth.
LEMMA LowBits ==
  ASSUME NEW v \in Word, NEW n \in 0 .. WordBits - 1
  PROVE  (v % 2^(n + 1)) = (v % 2^n) + Bit(v, n) * 2^n
<1> DEFINE p == 2^n
           q == v \div p
           k == q \div 2
           m == (v % p)
<1>1. p \in Nat \ {0} /\ 2^(n + 1) = 2 * p /\ v \in Nat
  BY PowersOfTwo, BusAssumption DEF Word
<1>2. q \in Nat /\ m \in 0 .. p - 1 /\ v = p * q + m
  <2> HIDE DEF p
  <2> QED
    BY <1>1
<1>3. Bit(v, n) = q % 2
  BY DEF Bit
<1> HIDE DEF p, m, q
<1>4. k \in Nat /\ (q = 2 * k \/ q = 2 * k + 1)
  BY <1>2
<1> HIDE DEF k
<1>5. CASE q = 2 * k
  <2>1. p * (2 * k) = (2 * p) * k
    BY <1>1, <1>4
  <2>2. v = (2 * p) * k + m /\ q % 2 = 0
    BY <1>2, <1>4, <1>5, <2>1
  <2>3. 2 * p \in Nat \ {0} /\ m \in 0 .. 2 * p - 1 /\ 0 * p = 0
    BY <1>1, <1>2
  <2>4. (v % (2 * p)) = m
    BY <1>4, <2>2, <2>3, Remainder
  <2>5. (v % (2 * p)) = m + Bit(v, n) * p
    BY <1>2, <1>3, <2>2, <2>3, <2>4
  <2> QED
    BY <1>1, <2>5 DEF p, m
<1>6. CASE q = 2 * k + 1
  <2>1. p * (2 * k + 1) = (2 * p) * k + p
    BY <1>1, <1>4
  <2>2. v = (2 * p) * k + (m + p) /\ q % 2 = 1
    BY <1>1, <1>2, <1>4, <1>6, <2>1
  <2>3. 2 * p \in Nat \ {0} /\ m + p \in 0 .. 2 * p - 1
    BY <1>1, <1>2
  <2>4. (v % (2 * p)) = m + p
    BY <1>4, <2>2, <2>3, Remainder
  <2> QED
    BY <1>1, <1>2, <1>3, <2>2, <2>4 DEF p, m
<1> QED
  BY <1>4, <1>5, <1>6

\* One step of the induction over the bits: a bit each, b and c, on top of the words r and t, of
\* their And a and of their exclusive or x.
LEMMA OneMoreBit ==
  ASSUME NEW p \in Nat \ {0}, NEW r \in 0 .. p - 1, NEW t \in 0 .. p - 1, NEW b \in {0, 1},
         NEW c \in {0, 1}, NEW a \in Nat, a <= r, a <= t, r + t - a <= p - 1, NEW x \in 0 .. p - 1
  PROVE  /\ a + (b * c) * p \in Nat
         /\ a + (b * c) * p <= r + b * p /\ a + (b * c) * p <= t + c * p
         /\ (r + b * p) + (t + c * p) - (a + (b * c) * p) <= 2 * p - 1
         /\ x + ((b + c) % 2) * p \in 0 .. 2 * p - 1
<1>1. 0 * p = 0 /\ 1 * p = p
  OBVIOUS
<1>2. CASE b = 0 /\ c = 0
  BY <1>1, <1>2
<1>3. CASE b = 1 /\ c = 0
  <2>1. (b * c) * p = 0 /\ b * p = p /\ c * p = 0 /\ ((b + c) % 2) * p = p
    BY <1>1, <1>3
  <2> QED
    BY <2>1
<1>4. CASE b = 0 /\ c = 1
  <2>1. (b * c) * p = 0 /\ b * p = 0 /\ c * p = p /\ ((b + c) % 2) * p = p
    BY <1>1, <1>4
  <2> QED
    BY <2>1
<1>5. CASE b = 1 /\ c = 1
  <2>1. (b * c) * p = p /\ b * p = p /\ c * p = p /\ ((b + c) % 2) * p = 0
    BY <1>1, <1>5
  <2> QED
    BY <2>1
<1> QED
  BY <1>2, <1>3, <1>4, <1>5

\* Words are closed under the operations on bits.
LEMMA BitwiseInWord ==
  ASSUME NEW v \in Word, NEW w \in Word
  PROVE  And(v, w) \in Word /\ Or(v, w) \in Word /\ ExclusiveOr(v, w) \in Word
<1>1. PICK a :
        /\ a = [i \in 0 .. WordBits |->
             IF i = 0 THEN 0 ELSE a[i - 1] + (Bit(v, i - 1) * Bit(w, i - 1)) * 2^(i - 1)]
        /\ And(v, w) = IF v = 0 \/ w = 0 THEN 0 ELSE a[WordBits]
  BY AndSum
<1>2. PICK x :
        /\ x = [i \in 0 .. WordBits |->
             IF i = 0 THEN 0 ELSE x[i - 1] + ((Bit(v, i - 1) + Bit(w, i - 1)) % 2) * 2^(i - 1)]
        /\ ExclusiveOr(v, w) = x[WordBits]
  BY ExclusiveOrSum
<1> DEFINE Q(i) == 2^i
           V(i) == (v % 2^i)
           W(i) == (w % 2^i)
           P(i) == /\ a[i] \in Nat /\ a[i] <= V(i) /\ a[i] <= W(i)
                   /\ V(i) + W(i) - a[i] <= Q(i) - 1
                   /\ x[i] \in 0 .. Q(i) - 1
           S == {i \in 0 .. WordBits : P(i)}
<1>3. P(0)
  <2>1. a[0] = 0 /\ x[0] = 0
    BY <1>1, <1>2, BusAssumption
  <2>2. Q(0) = 1 /\ V(0) = 0 /\ W(0) = 0
    <3>1. 2^0 = 1
      OBVIOUS
    <3>2. (v % 1) = 0 /\ (w % 1) = 0
      BY DEF Word
    <3> QED
      BY <3>1, <3>2
  <2> HIDE DEF Q, V, W
  <2> QED
    BY <2>1, <2>2
<1>4. ASSUME NEW n \in 0 .. WordBits - 1, P(n) PROVE P(n + 1)
  <2>1. /\ a[n + 1] = a[n] + (Bit(v, n) * Bit(w, n)) * Q(n)
        /\ x[n + 1] = x[n] + ((Bit(v, n) + Bit(w, n)) % 2) * Q(n)
    <3>1. n + 1 \in 0 .. WordBits /\ (n + 1) - 1 = n /\ n + 1 # 0
      BY BusAssumption
    <3> QED
      BY <1>1, <1>2, <3>1
  <2>2. V(n + 1) = V(n) + Bit(v, n) * Q(n) /\ W(n + 1) = W(n) + Bit(w, n) * Q(n)
    BY LowBits
  <2>3. Q(n) \in Nat \ {0} /\ Q(n + 1) = 2 * Q(n)
    BY PowersOfTwo
  <2>4. V(n) \in 0 .. Q(n) - 1 /\ W(n) \in 0 .. Q(n) - 1
    BY <2>3 DEF Word
  <2>5. Bit(v, n) \in {0, 1} /\ Bit(w, n) \in {0, 1}
    BY BitFacts
  <2> HIDE DEF Q, V, W
  <2>6. /\ a[n] \in Nat /\ a[n] <= V(n) /\ a[n] <= W(n) /\ V(n) + W(n) - a[n] <= Q(n) - 1
        /\ x[n] \in 0 .. Q(n) - 1
    BY <1>4
  <2>7. /\ a[n] + (Bit(v, n) * Bit(w, n)) * Q(n) \in Nat
        /\ a[n] + (Bit(v, n) * Bit(w, n)) * Q(n) <= V(n) + Bit(v, n) * Q(n)
        /\ a[n] + (Bit(v, n) * Bit(w, n)) * Q(n) <= W(n) + Bit(w, n) * Q(n)
        /\ (V(n) + Bit(v, n) * Q(n)) + (W(n) + Bit(w, n) * Q(n))
             - (a[n] + (Bit(v, n) * Bit(w, n)) * Q(n)) <= 2 * Q(n) - 1
        /\ x[n] + ((Bit(v, n) + Bit(w, n)) % 2) * Q(n) \in 0 .. 2 * Q(n) - 1
    BY <2>3, <2>4, <2>5, <2>6, OneMoreBit
  <2> QED
    BY <2>1, <2>2, <2>3, <2>7
<1>5. P(WordBits)
  <2>1. WordBits \in Nat /\ WordBits \in 0 .. WordBits /\ 0 \in 0 .. WordBits
    BY BusAssumption
  <2>2. \A n \in 0 .. WordBits - 1 : n \in 0 .. WordBits /\ n + 1 \in 0 .. WordBits
    BY <2>1
  <2> HIDE DEF P
  <2>3. 0 \in S /\ \A n \in 0 .. WordBits - 1 : n \in S => n + 1 \in S
    BY <1>3, <1>4, <2>1, <2>2
  <2> HIDE DEF S
  <2>4. WordBits \in S
    BY <2>1, <2>3, UpTo
  <2> QED
    BY <2>4 DEF S
<1>6. /\ V(WordBits) = v /\ W(WordBits) = w /\ Q(WordBits) \in Nat \ {0}
      /\ v \in 0 .. Q(WordBits) - 1 /\ w \in 0 .. Q(WordBits) - 1
  BY WordSize DEF Word
<1>7. Word = 0 .. Q(WordBits) - 1
  BY DEF Word
<1> HIDE DEF Q, V, W
<1>8. /\ a[WordBits] \in Nat /\ a[WordBits] <= v /\ a[WordBits] <= w
      /\ v + w - a[WordBits] <= Q(WordBits) - 1 /\ x[WordBits] \in 0 .. Q(WordBits) - 1
  BY <1>5, <1>6
<1>9. And(v, w) \in Nat /\ And(v, w) <= v /\ And(v, w) <= w /\ v + w - And(v, w) <= Q(WordBits) - 1
  BY <1>1, <1>6, <1>8
<1>10. v + w - And(v, w) \in 0 .. Q(WordBits) - 1 /\ And(v, w) \in 0 .. Q(WordBits) - 1
  BY <1>6, <1>9
<1> QED
  BY <1>2, <1>7, <1>8, <1>10 DEF Or

\* The signed comparator with a bit more orders words as their two's complement values.
LEMMA TopBit ==
  ASSUME NEW v \in Word
  PROVE  Bit(v, WordBits - 1) = 1 <=> v >= 2^(WordBits - 1)
<1> DEFINE p == 2^(WordBits - 1)
<1>1. p \in Nat \ {0} /\ v \in 0 .. 2 * p - 1
  BY WordSize DEF Word
<1>2. Bit(v, WordBits - 1) = (v \div p) % 2
  BY DEF Bit
<1> HIDE DEF p
<1>3. CASE v < p
  <2>1. v \div p = 0
    BY <1>1, <1>3
  <2> QED
    BY <1>1, <1>2, <1>3, <2>1 DEF p
<1>4. CASE v >= p
  <2>1. v \div p = 1
    <3>1. v = p * 1 + (v - p) /\ v - p \in 0 .. p - 1
      BY <1>1, <1>4
    <3> QED
      BY <1>1, <3>1
  <2> QED
    BY <1>1, <1>2, <1>4, <2>1 DEF p
<1> QED
  BY <1>1, <1>3, <1>4

-------------------------------------------------------------------------------
(* The invariant.                                                            *)

RmwStates == {"S_IDLE", "S_READ_WAIT", "S_EXECUTE", "S_WRITE", "S_WRITE_WAIT"}

TypeOK ==
  /\ setup \in Setups
  /\ cpu \in [Harts -> Units]
  /\ arb_state \in Harts \union {"S_IDLE"} /\ arb_sel_q \in Harts
  /\ arb_lock \in [Harts -> BOOLEAN] /\ arb_pending \in [Harts -> BOOLEAN]
  /\ rmw \in RmwStates /\ cmd \in RmwCodes
  /\ rdata \in Word /\ wdata \in Word /\ alu_res \in Word
  /\ valid \in BOOLEAN /\ sc_fail \in BOOLEAN /\ sc_pend \in BOOLEAN
  /\ keeper \in {"idle", "busy", "error"} /\ keeper_lock \in BOOLEAN /\ keeper_ext \in BOOLEAN
  /\ keeper_cnt \in Nat
  /\ mem \in [Cells -> Word] /\ mem_q \in Word /\ wren \in BOOLEAN /\ rden \in BOOLEAN
  /\ xbus_pending \in BOOLEAN /\ xbus_locked \in BOOLEAN

\* The access of a hart and what it is.
Of(h) == cpu[h].access
IsSc(access) == access.amo /\ access.amoop = SC

UnitInv == \A h \in Harts :
  /\ cpu[h].phase \in {"strobe", "wait"} => Of(h) \in setup.issued /\ (cpu[h].lock <=> Locks(Of(h)))
  /\ cpu[h].phase = "run" => ~cpu[h].lock

-------------------------------------------------------------------------------
(* The wires.                                                                *)

Selected == Arb!sel(core_req)
Strobe == Arb!stb(core_req)
RequestFields == {"stb", "lock", "meta", "rw", "amo", "amoop", "addr", "data"}
Writing == rmw \in {"S_WRITE", "S_WRITE_WAIT"}

\* The arbiter always selects a hart.
LEMMA SelectedHart == TypeOK => Selected \in Harts
  BY BusAssumption DEF TypeOK, Selected, Arb!sel, Arb!First, Arb!Other

\* The request behind the arbiter is the selected hart's ...
LEMMA HostRequest ==
  ASSUME TypeOK
  PROVE  /\ sys1_req.stb <=> Strobe
         /\ sys1_req.lock = cpu[Selected].lock
         /\ sys1_req.rw = Of(Selected).rw
         /\ sys1_req.amo = Of(Selected).amo
         /\ sys1_req.amoop = Of(Selected).amoop
         /\ sys1_req.addr = Of(Selected).addr
         /\ sys1_req.data = Of(Selected).data
         /\ DOMAIN sys1_req = RequestFields
<1>1. Selected \in Harts
  BY SelectedHart
<1>2. core_req[Selected] =
        [stb |-> cpu[Selected].phase = "strobe", lock |-> cpu[Selected].lock, meta |-> Selected,
         rw |-> Of(Selected).rw, amo |-> Of(Selected).amo, amoop |-> Of(Selected).amoop,
         addr |-> Of(Selected).addr, data |-> Of(Selected).data]
  BY <1>1 DEF core_req, Of
<1>3. Arb!DataPort(core_req) = Selected
  BY DEF Arb!DataPort, Selected
<1>4. sys1_req = [core_req[Selected] EXCEPT !.stb = Strobe, !.data = core_req[Selected].data]
  BY <1>3 DEF sys1_req, Arb!x_req, Selected, Strobe
<1>5. sys1_req.stb <=> Strobe
  BY <1>2, <1>4
<1>6. /\ sys1_req.lock = cpu[Selected].lock
      /\ sys1_req.rw = Of(Selected).rw
      /\ sys1_req.amo = Of(Selected).amo
      /\ sys1_req.amoop = Of(Selected).amoop
      /\ sys1_req.addr = Of(Selected).addr
      /\ sys1_req.data = Of(Selected).data
  BY <1>2, <1>4
<1>7. DOMAIN sys1_req = RequestFields
  BY <1>2, <1>4 DEF RequestFields
<1> QED
  BY <1>5, <1>6, <1>7

\* ... behind the read-modify-write controller it may be a write of the result ...
LEMMA MemoryRequest ==
  ASSUME TypeOK
  PROVE  /\ amo_req.stb <=> (rmw = "S_WRITE" \/ Strobe)
         /\ amo_req.lock = cpu[Selected].lock
         /\ amo_req.rw <=> (Writing \/ Of(Selected).rw)
         /\ amo_req.amo = Of(Selected).amo
         /\ amo_req.amoop = Of(Selected).amoop
         /\ amo_req.addr = Of(Selected).addr
         /\ amo_req.data = IF Writing THEN alu_res ELSE Of(Selected).data
         /\ DOMAIN amo_req = RequestFields
<1>1. amo_req = [sys1_req EXCEPT !.data = IF Writing THEN alu_res ELSE sys1_req.data,
                                 !.stb = rmw = "S_WRITE" \/ sys1_req.stb,
                                 !.rw = Writing \/ sys1_req.rw]
  BY DEF amo_req, Rmw!sys_req, Rmw!Strobes, Rmw!Writing, Writing
<1> QED
  BY <1>1, HostRequest DEF RequestFields

\* A store-conditional without a reservation goes no further.
Refuses == Of(Selected).amo /\ Of(Selected).amoop = SC /\ ~valid

\* ... behind the reservation station it may be gone ...
LEMMA SystemRequest ==
  ASSUME TypeOK
  PROVE  /\ sys3_req.stb <=> ((rmw = "S_WRITE" \/ Strobe) /\ ~Refuses)
         /\ sys3_req.lock = cpu[Selected].lock
         /\ sys3_req.rw <=> (Writing \/ Of(Selected).rw)
         /\ sys3_req.addr = Of(Selected).addr
         /\ sys3_req.data = IF Writing THEN alu_res ELSE Of(Selected).data
         /\ DOMAIN sys3_req = RequestFields
<1>1. sys3_req = [amo_req EXCEPT !.stb = amo_req.stb /\ (Rvs!sc(amo_req) => valid)]
  BY DEF sys3_req, Rvs!bus_request
<1>2. Rvs!sc(amo_req) <=> (Of(Selected).amo /\ Of(Selected).amoop = SC)
  BY MemoryRequest DEF Rvs!sc, Rvs!SC, SC
<1> QED
  BY <1>1, <1>2, MemoryRequest DEF RequestFields, Refuses

\* ... and behind the gateway one section sees it.
LEMMA SectionRequests ==
  ASSUME TypeOK
  PROVE  /\ dmem_req.stb <=> (sys3_req.stb /\ Of(Selected).addr \in Cells)
         /\ dmem_req.rw <=> (Writing \/ Of(Selected).rw)
         /\ dmem_req.addr = Of(Selected).addr
         /\ dmem_req.data = IF Writing THEN alu_res ELSE Of(Selected).data
         /\ xbus_req.stb <=> /\ sys3_req.stb /\ setup.x_en
                             /\ Of(Selected).addr \notin Cells \union Holes
         /\ xbus_req.lock = cpu[Selected].lock
         /\ xbus_req.stb \in BOOLEAN
<1>1. /\ dmem_req = [sys3_req EXCEPT !.stb = sys3_req.stb /\ Gate!port_sel(sys3_req.addr) = "dmem"]
      /\ xbus_req = [sys3_req EXCEPT !.stb = sys3_req.stb /\ Gate!port_sel(sys3_req.addr) = "xbus"]
  BY DEF dmem_req, xbus_req, Gate!port_req
<1>2. /\ Gate!port_sel(sys3_req.addr) = "dmem" <=> Of(Selected).addr \in Cells
      /\ Gate!port_sel(sys3_req.addr) = "xbus" <=>
           setup.x_en /\ Of(Selected).addr \notin Cells \union Holes
  BY SystemRequest DEF Gate!port_sel
<1>3. xbus_req.stb \in BOOLEAN
  BY <1>1, SystemRequest DEF RequestFields
<1> QED
  BY <1>1, <1>2, <1>3, SystemRequest DEF RequestFields

\* What comes back up.
Answered(ext) == xbus_pending /\ (ext.err \/ ext.ack)

\* What the external device drives.
LEMMA AnswerTypes ==
  ASSUME TypeOK, NEW ext \in Answers
  PROVE  ext.ack \in BOOLEAN /\ ext.err \in BOOLEAN /\ ext.data \in Word
<1>1. 0 \in Word
  BY WordSize DEF Word
<1>2. CASE ext = rsp_terminate_c
  BY <1>1, <1>2 DEF rsp_terminate_c
<1>3. CASE ext \in [ack : {TRUE}, err : BOOLEAN, data : Word]
  BY <1>3
<1> QED
  BY <1>2, <1>3 DEF Answers

\* The response of the memory, of the external bus or of the monitor ...
LEMMA SystemResponse ==
  ASSUME TypeOK, NEW ext \in Answers
  PROVE  /\ int_rsp(ext).ack <=> (rden \/ wren \/ Answered(ext))
         /\ sys3_rsp(ext).ack <=> (rden \/ wren \/ Answered(ext) \/ keeper = "error")
         /\ sys3_rsp(ext).err <=> ((xbus_pending /\ ext.err) \/ keeper = "error")
         /\ ~rden \/ ~xbus_pending =>
              sys3_rsp(ext).data = IF rden THEN mem_q ELSE IF xbus_pending THEN ext.data ELSE 0
<1> DEFINE d == dmem_rsp
           x == XGate!xbus_rsp(ext)
           r == int_rsp(ext)
           s == sys3_rsp(ext)
<1>1. /\ d.ack <=> (rden \/ wren)
      /\ ~d.err
      /\ d.data = IF rden THEN mem_q ELSE 0
  BY DEF dmem_rsp
<1>2. /\ x.ack <=> Answered(ext)
      /\ x.err <=> (xbus_pending /\ ext.err)
      /\ x.data = IF xbus_pending THEN ext.data ELSE 0
  BY DEF XGate!xbus_rsp, Answered
<1>3. r = [ack |-> d.ack \/ x.ack, err |-> d.err \/ x.err, data |-> Or(d.data, x.data)]
  BY DEF int_rsp, Gate!int_rsp, Or, Gate!Or, And, Gate!And, Bitwise, Gate!Bitwise, Bit, Gate!Bit
<1>4. s = [r EXCEPT !.ack = r.ack \/ keeper = "error", !.err = r.err \/ keeper = "error"]
  BY DEF sys3_rsp, Gate!gateway_rsp, Gate!keeper_err
<1> HIDE DEF d, x, r, s
<1>5. r.ack <=> (d.ack \/ x.ack)
  BY <1>3
<1>6. r.err <=> (d.err \/ x.err)
  BY <1>3
<1>7. r.data = Or(d.data, x.data) /\ DOMAIN r = {"ack", "err", "data"}
  BY <1>3
<1>8. s.ack <=> (r.ack \/ keeper = "error")
  BY <1>4, <1>7
<1>9. s.err <=> (r.err \/ keeper = "error")
  BY <1>4, <1>7
<1>10. s.data = r.data
  BY <1>4, <1>7
<1>11. ASSUME ~rden \/ ~xbus_pending
       PROVE  Or(d.data, x.data) = IF rden THEN mem_q ELSE IF xbus_pending THEN ext.data ELSE 0
  <2>1. mem_q \in Int /\ ext.data \in Int
    BY AnswerTypes DEF TypeOK, Word
  <2>2. d.data = 0 \/ x.data = 0
    BY <1>1, <1>2, <1>11
  <2>3. d.data \in Int /\ x.data \in Int
    BY <1>1, <1>2, <2>1
  <2>4. And(d.data, x.data) = 0
    BY <2>2 DEF And
  <2>5. Or(d.data, x.data) = d.data + x.data
    BY <2>3, <2>4 DEF Or
  <2> QED
    BY <1>1, <1>2, <1>11, <2>1, <2>5
<1>12. r.ack <=> (rden \/ wren \/ Answered(ext))
  BY <1>1, <1>2, <1>5
<1>13. r.err <=> (xbus_pending /\ ext.err)
  BY <1>1, <1>2, <1>6
<1> QED
  BY <1>7, <1>8, <1>9, <1>10, <1>11, <1>12, <1>13 DEF r, s

\* ... and what the controllers and the arbiter make of it.
LEMMA HostResponse ==
  ASSUME TypeOK, NEW ext \in Answers
  PROVE  /\ amo_rsp(ext).ack <=> (sys3_rsp(ext).ack \/ sc_fail)
         /\ amo_rsp(ext).data = IF sc_fail THEN 1 ELSE IF sc_pend THEN 0 ELSE sys3_rsp(ext).data
         /\ sys1_rsp(ext).ack <=> (amo_rsp(ext).ack /\ rmw \in {"S_IDLE", "S_WRITE_WAIT"})
         /\ \A h \in Harts :
              /\ core_rsp(ext)[h].ack <=> (arb_sel_q = h /\ sys1_rsp(ext).ack)
              /\ core_rsp(ext)[h].err <=> /\ arb_sel_q = h /\ sys3_rsp(ext).err
                                          /\ rmw \in {"S_IDLE", "S_WRITE_WAIT"}
              /\ core_rsp(ext)[h].data = IF rmw = "S_IDLE" THEN amo_rsp(ext).data ELSE rdata
              /\ core_rsp(ext)[h].ack \in BOOLEAN /\ core_rsp(ext)[h].err \in BOOLEAN
              /\ core_rsp(ext)[h] = [ack |-> core_rsp(ext)[h].ack, err |-> core_rsp(ext)[h].err,
                                     data |-> core_rsp(ext)[h].data]
<1> DEFINE b == sys3_rsp(ext)
           m == amo_rsp(ext)
           s == sys1_rsp(ext)
           c == core_rsp(ext)
           Passing == rmw \in {"S_IDLE", "S_WRITE_WAIT"}
<1>1. m = [ack |-> b.ack \/ sc_fail, err |-> b.err,
           data |-> IF sc_fail THEN 1 ELSE IF sc_pend THEN 0 ELSE b.data]
  BY DEF amo_rsp, Rvs!rvs_rsp
<1>2. s = [ack |-> m.ack /\ Passing, err |-> m.err /\ Passing,
           data |-> IF rmw = "S_IDLE" THEN m.data ELSE rdata]
  BY DEF sys1_rsp, Rmw!core_rsp, Rmw!Passes
<1>3. ASSUME NEW h \in Harts
      PROVE  c[h] = [s EXCEPT !.ack = arb_sel_q = h /\ s.ack, !.err = arb_sel_q = h /\ s.err]
  BY DEF core_rsp, Arb!rsp_o
<1> HIDE DEF b, m, s, c, Passing
<1>4. m.ack <=> (b.ack \/ sc_fail)
  BY <1>1
<1>5. m.err <=> b.err
  BY <1>1
<1>6. m.data = IF sc_fail THEN 1 ELSE IF sc_pend THEN 0 ELSE b.data
  BY <1>1
<1>7. s.ack <=> (m.ack /\ Passing)
  BY <1>2
<1>8. s.err <=> (m.err /\ Passing)
  BY <1>2
<1>9. s.data = (IF rmw = "S_IDLE" THEN m.data ELSE rdata) /\ DOMAIN s = {"ack", "err", "data"}
  BY <1>2
<1>10. ASSUME NEW h \in Harts
       PROVE  /\ c[h].ack <=> (arb_sel_q = h /\ s.ack)
              /\ c[h].err <=> (arb_sel_q = h /\ s.err)
              /\ c[h].data = s.data
              /\ c[h].ack \in BOOLEAN /\ c[h].err \in BOOLEAN
              /\ c[h] = [ack |-> c[h].ack, err |-> c[h].err, data |-> c[h].data]
  <2>1. c[h] = [s EXCEPT !.ack = arb_sel_q = h /\ s.ack, !.err = arb_sel_q = h /\ s.err]
    BY <1>3
  <2>2. c[h].ack <=> (arb_sel_q = h /\ s.ack)
    BY <1>9, <2>1
  <2>3. c[h].err <=> (arb_sel_q = h /\ s.err)
    BY <1>9, <2>1
  <2>4. c[h].data = s.data
    BY <1>9, <2>1
  <2>5. c[h].ack \in BOOLEAN
    BY <1>9, <2>1
  <2>6. c[h].err \in BOOLEAN
    BY <1>9, <2>1
  <2>7. c[h] = [ack |-> c[h].ack, err |-> c[h].err, data |-> c[h].data]
    BY <1>9, <2>1
  <2> QED
    BY <2>2, <2>3, <2>4, <2>5, <2>6, <2>7
<1> QED
  BY <1>4, <1>5, <1>6, <1>7, <1>8, <1>9, <1>10 DEF b, m, s, c, Passing

\* What an access of a program can be.
LEMMA AccessFacts ==
  ASSUME TypeOK, NEW x \in setup.issued
  PROVE  /\ x.rw \in BOOLEAN /\ x.amo \in BOOLEAN /\ x.amoop \in AmoCodes
         /\ x.addr \in Addresses /\ x.data \in Word
         /\ x.amo => (x.rw <=> x.amoop = SC)
         /\ ~x.amo => x.amoop = SWAP
<1>1. x \in Accesses
  BY SetupAssumption DEF TypeOK
<1>2. 0 \in Word
  BY WordSize DEF Word
<1>3. CASE \E a \in Addresses : x = Load(a)
  BY <1>2, <1>3 DEF Load, Access, AmoCodes, RmwCodes, SWAP
<1>4. CASE \E a \in Addresses, d \in Word : x = Store(a, d)
  BY <1>4 DEF Store, Access, AmoCodes, RmwCodes, SWAP
<1>5. CASE \E a \in Addresses : x = LoadRes(a)
  BY <1>2, <1>5 DEF LoadRes, Access, AmoCodes, LR, SC
<1>6. CASE \E a \in Addresses, d \in Word : x = StoreCond(a, d)
  BY <1>6 DEF StoreCond, Access, AmoCodes, SC
<1>7. CASE \E c \in RmwCodes, a \in Addresses, d \in Word : x = Modify(c, a, d)
  <2>1. PICK c \in RmwCodes, a \in Addresses, d \in Word : x = Modify(c, a, d)
    BY <1>7
  <2>2. c # SC
    BY DEF RmwCodes, SC, SWAP, ADD, XOR, AND, OR, MINU, MAXU, MIN, MAX
  <2> QED
    BY <2>1, <2>2 DEF Modify, Access, AmoCodes
<1> QED
  BY <1>1, <1>3, <1>4, <1>5, <1>6, <1>7 DEF Accesses

\* The codes of the operations that read and write.
LEMMA Codes ==
  ASSUME NEW c \in AmoCodes
  PROVE  c \in RmwCodes <=> c \div 4 # 2
  BY DEF AmoCodes, RmwCodes, SWAP, ADD, XOR, AND, OR, MINU, MAXU, MIN, MAX, LR, SC

\* The comparator's extra bit, clear where it asks for the sign, gives the signed order.
LEMMA ComparesSigned ==
  ASSUME NEW v \in Word, NEW w \in Word
  PROVE  /\ Rmw!cmp_less(MIN, v, w) <=> SignedValue(v) < SignedValue(w)
         /\ Rmw!cmp_less(MAX, v, w) <=> SignedValue(v) < SignedValue(w)
         /\ Rmw!cmp_less(MINU, v, w) <=> v < w
         /\ Rmw!cmp_less(MAXU, v, w) <=> v < w
<1> DEFINE p == 2^(WordBits - 1)
           q == 2^WordBits
<1>1. p \in Nat \ {0} /\ q = 2 * p /\ v \in 0 .. q - 1 /\ w \in 0 .. q - 1
  BY WordSize DEF Word
<1>2. ASSUME NEW u \in Word
      PROVE  /\ Rmw!Biased(u, MIN) = IF u >= p THEN u ELSE u + q
             /\ Rmw!Biased(u, MAX) = IF u >= p THEN u ELSE u + q
             /\ Rmw!Biased(u, MINU) = u + q /\ Rmw!Biased(u, MAXU) = u + q
             /\ SignedValue(u) = IF u >= p THEN u - q ELSE u
  <2>1. MIN \div 8 = 1 /\ MAX \div 8 = 1 /\ MINU \div 8 # 1 /\ MAXU \div 8 # 1
    BY DEF MIN, MAX, MINU, MAXU
  <2>2. Rmw!Bit(u, WordBits - 1) = 1 <=> u >= p
    BY TopBit DEF Bit, Rmw!Bit
  <2> QED
    BY <2>1, <2>2 DEF Rmw!Biased, SignedValue
<1> HIDE DEF p, q
<1> QED
  BY <1>1, <1>2 DEF Rmw!cmp_less

\* The controller's ALU computes the operations of the Zaamo extension, on words of any width.
LEMMA AluComputes ==
  ASSUME NEW c \in RmwCodes, NEW v \in Word, NEW w \in Word
  PROVE  Rmw!amo_alu(c, v, w) = Apply(c, v, w) /\ Apply(c, v, w) \in Word
<1>1. /\ Rmw!And(v, w) = And(v, w) /\ Rmw!Or(v, w) = Or(v, w)
      /\ Rmw!ExclusiveOr(v, w) = ExclusiveOr(v, w)
  BY DEF Rmw!And, And, Rmw!Or, Or, Rmw!ExclusiveOr, ExclusiveOr, Rmw!Bitwise, Bitwise, Rmw!Bit, Bit
<1>2. And(v, w) \in Word /\ Or(v, w) \in Word /\ ExclusiveOr(v, w) \in Word
  BY BitwiseInWord
<1>3. v \in Int /\ w \in Int /\ (v + w) % 2^WordBits \in Word
  <2> DEFINE q == 2^WordBits
  <2>1. q \in Nat \ {0} /\ v \in Int /\ w \in Int /\ Word = 0 .. q - 1
    BY WordSize DEF Word
  <2> HIDE DEF q
  <2>2. (v + w) % q \in 0 .. q - 1
    BY <2>1
  <2> QED
    BY <2>1, <2>2 DEF q
<1>4. /\ Apply(0, v, w) = w
      /\ Apply(1, v, w) = (v + w) % 2^WordBits
      /\ Apply(2, v, w) = ExclusiveOr(v, w)
      /\ Apply(3, v, w) = And(v, w)
      /\ Apply(4, v, w) = Or(v, w)
  BY <1>3 DEF Apply, SWAP, ADD, XOR, AND, OR, MINU, MAXU, MIN, MAX
<1>5. /\ Apply(6, v, w) = IF v < w THEN v ELSE w
      /\ Apply(7, v, w) = IF v > w THEN v ELSE w
      /\ Apply(14, v, w) = IF SignedValue(v) < SignedValue(w) THEN v ELSE w
      /\ Apply(15, v, w) = IF SignedValue(v) > SignedValue(w) THEN v ELSE w
  BY <1>3 DEF Apply, SWAP, ADD, XOR, AND, OR, MINU, MAXU, MIN, MAX
<1>6. /\ Rmw!amo_alu(0, v, w) = w
      /\ Rmw!amo_alu(1, v, w) = (v + w) % 2^WordBits
      /\ Rmw!amo_alu(2, v, w) = Rmw!ExclusiveOr(v, w)
      /\ Rmw!amo_alu(3, v, w) = Rmw!And(v, w)
      /\ Rmw!amo_alu(4, v, w) = Rmw!Or(v, w)
  BY <1>3 DEF Rmw!amo_alu
<1>7. ASSUME NEW k \in {6, 7, 14, 15}
      PROVE  Rmw!amo_alu(k, v, w) =
               IF k % 2 = 1 THEN IF Rmw!cmp_less(k, v, w) THEN w ELSE v
                            ELSE IF Rmw!cmp_less(k, v, w) THEN v ELSE w
  <2>1. Rmw!amo_alu(k, v, w) = Rmw!cmp_res(k, v, w)
    BY <1>3 DEF Rmw!amo_alu
  <2>0. Rmw!cmp_less(k, v, w) \in BOOLEAN
    BY DEF Rmw!cmp_less
  <2>2. CASE k % 2 = 1
    BY <2>0, <2>1, <2>2 DEF Rmw!cmp_res
  <2>3. CASE k % 2 # 1
    BY <2>0, <2>1, <2>3 DEF Rmw!cmp_res
  <2> QED
    BY <2>2, <2>3
<1>8. /\ Rmw!cmp_less(6, v, w) <=> v < w
      /\ Rmw!cmp_less(7, v, w) <=> v < w
      /\ Rmw!cmp_less(14, v, w) <=> SignedValue(v) < SignedValue(w)
      /\ Rmw!cmp_less(15, v, w) <=> SignedValue(v) < SignedValue(w)
  BY ComparesSigned DEF MINU, MAXU, MIN, MAX
<1>9. /\ SignedValue(v) \in Int /\ SignedValue(w) \in Int
      /\ SignedValue(v) = SignedValue(w) => v = w
  <2> DEFINE p == 2^(WordBits - 1)
             q == 2^WordBits
  <2>1. p \in Nat \ {0} /\ q = 2 * p /\ v \in 0 .. q - 1 /\ w \in 0 .. q - 1
    BY WordSize DEF Word
  <2>2. /\ SignedValue(v) = IF v >= p THEN v - q ELSE v
        /\ SignedValue(w) = IF w >= p THEN w - q ELSE w
    BY DEF SignedValue
  <2> HIDE DEF p, q
  <2> QED
    BY <2>1, <2>2
<1>10. CASE c \in {0, 1, 2, 3, 4}
  BY <1>1, <1>2, <1>3, <1>4, <1>6, <1>10
<1>11. CASE c \in {6, 7, 14, 15}
  <2>1. Rmw!amo_alu(6, v, w) = IF v < w THEN v ELSE w
    BY <1>7, <1>8
  <2>2. Rmw!amo_alu(14, v, w) = IF SignedValue(v) < SignedValue(w) THEN v ELSE w
    BY <1>7, <1>8
  <2>3. Rmw!amo_alu(7, v, w) = IF v < w THEN w ELSE v
    BY <1>7, <1>8
  <2>4. Rmw!amo_alu(15, v, w) = IF SignedValue(v) < SignedValue(w) THEN w ELSE v
    BY <1>7, <1>8
  <2> QED
    BY <1>3, <1>5, <1>9, <1>11, <2>1, <2>2, <2>3, <2>4
<1> QED
  BY <1>10, <1>11 DEF RmwCodes, SWAP, ADD, XOR, AND, OR, MINU, MAXU, MIN, MAX

-------------------------------------------------------------------------------
\* Who is served.  A hart that is not waits for its turn exactly if the arbiter remembers it.
Turns == \A h \in Harts :
  IF arb_state = h THEN arb_sel_q = h ELSE arb_pending[h] <=> cpu[h].phase = "wait"

Quiet == rmw = "S_IDLE" /\ ~sc_fail /\ ~sc_pend /\ ~wren /\ ~rden

\* Nothing is under way when no hart is served.
Idle == arb_state = "S_IDLE" =>
  /\ Quiet /\ ~xbus_pending /\ keeper # "busy"
  /\ keeper = "error" => setup.x_en /\ ~keeper_lock /\ cpu[arb_sel_q].phase = "run"

\* The clock after the acknowledge of a locked access.
Closing(h) ==
  /\ cpu[h].phase = "run" /\ arb_lock[h] /\ Quiet
  /\ xbus_pending => xbus_locked
  /\ keeper = "busy" => keeper_lock /\ keeper_cnt = 0

\* An access and the monitor, the memory and the external bus.
Watch(h) ==
  /\ arb_lock[h] <=> cpu[h].lock
  /\ keeper # "idle" => (keeper_lock <=> cpu[h].lock)
  /\ ~setup.x_en /\ ~sc_fail => keeper # "idle"
  /\ xbus_pending => setup.x_en /\ Of(h).addr \in Externals /\ (xbus_locked <=> cpu[h].lock)
  /\ Of(h).addr \notin Cells => ~wren /\ ~rden
  /\ Of(h).addr \in Cells => keeper # "error" /\ ~xbus_pending /\ (keeper = "busy" => ~keeper_ext)

\* A load, store, load-reservate or store-conditional.
Single(h) ==
  /\ rmw = "S_IDLE"
  /\ sc_fail => IsSc(Of(h)) /\ keeper = "idle" /\ ~sc_pend /\ ~wren /\ ~rden /\ ~xbus_pending
  /\ ~sc_fail => (sc_pend <=> IsSc(Of(h)))
  /\ ~sc_fail /\ Of(h).addr \in Cells => /\ rden <=> ~Of(h).rw
                                         /\ wren <=> Of(h).rw
                                         /\ keeper = "busy" => keeper_cnt = 0

\* A read-modify-write and, if it is one of the memory, how far it is.
ReadModifyWrite(h) ==
  /\ rmw # "S_IDLE" /\ ~valid /\ ~sc_fail /\ ~sc_pend
  /\ cmd = Of(h).amoop /\ wdata = Of(h).data
  /\ Of(h).addr \in Cells =>
       /\ rmw = "S_READ_WAIT" => /\ rden /\ ~wren /\ mem_q = mem[Of(h).addr]
                                 /\ keeper = "busy" => keeper_cnt = 0
       /\ rmw = "S_EXECUTE" => /\ ~rden /\ ~wren /\ rdata = mem[Of(h).addr]
                               /\ keeper = "busy" => keeper_cnt = 0
       /\ rmw = "S_WRITE" => /\ ~rden /\ ~wren /\ rdata = mem[Of(h).addr]
                             /\ alu_res = Apply(Of(h).amoop, mem[Of(h).addr], Of(h).data)
                             /\ keeper = "busy" => keeper_cnt <= 1
       /\ rmw = "S_WRITE_WAIT" => wren /\ ~rden

Serving == \A h \in Harts : arb_state = h =>
  IF cpu[h].phase # "wait" THEN Closing(h)
  ELSE Watch(h) /\ IF cpu[h].lock THEN ReadModifyWrite(h) ELSE Single(h)

Inv == TypeOK /\ UnitInv /\ Turns /\ Idle /\ Serving

-------------------------------------------------------------------------------
(* Steps of the parts.                                                       *)

\* A load/store unit.
LEMMA UnitStep ==
  ASSUME TypeOK, UnitInv, NEW h \in Harts, NEW rsp, rsp.ack \in BOOLEAN,
         NEW s \in UnitSteps(cpu[h], rsp)
  PROVE  /\ s \in Units
         /\ s.phase \in {"strobe", "wait"} =>
              s.access \in setup.issued /\ (s.lock <=> Locks(s.access))
         /\ s.phase = "run" => ~s.lock
         /\ cpu[h].phase = "run" => s.phase \in {"run", "fault", "strobe"}
         /\ cpu[h].phase = "fault" => s.phase \in {"run", "fault"}
         /\ cpu[h].phase \in {"strobe", "wait"} =>
              IF rsp.ack THEN s = Running
              ELSE s.phase = "wait" /\ s.access = Of(h) /\ (s.lock <=> cpu[h].lock)
<1> DEFINE u == cpu[h]
<1>1. /\ u \in Units
      /\ u.phase \in {"strobe", "wait"} => u.access \in setup.issued /\ (u.lock <=> Locks(u.access))
      /\ u.phase = "run" => ~u.lock
  BY DEF TypeOK, UnitInv, Of
<1>2. Running \in Units /\ Running.phase = "run" /\ ~Running.lock
  BY DEF Running, Units, Phases
<1>3. Faulty \in Units /\ Faulty.phase = "fault"
  BY DEF Faulty, Units, Phases
<1>4. ASSUME NEW x \in setup.issued
      PROVE  /\ Issue(x) \in Units /\ Issue(x).phase = "strobe" /\ Issue(x).access = x
             /\ Issue(x).lock <=> Locks(x)
  <2>1. x.amo \in BOOLEAN
    BY AccessFacts
  <2>2. Locks(x) \in BOOLEAN
    BY <2>1 DEF Locks
  <2> QED
    BY <2>2 DEF Issue, Units, Phases
<1> HIDE DEF u
<1>5. CASE u.phase = "run"
  <2>1. s \in {u, Faulty} \union {Issue(x) : x \in setup.issued}
    BY <1>5 DEF UnitSteps, u
  <2>2. CASE s = u
    BY <1>1, <1>5, <2>2 DEF u
  <2>3. CASE s = Faulty
    BY <1>3, <1>5, <2>3 DEF u
  <2>4. CASE \E x \in setup.issued : s = Issue(x)
    BY <1>4, <1>5, <2>4 DEF u
  <2> QED
    BY <2>1, <2>2, <2>3, <2>4
<1>6. CASE u.phase = "fault"
  <2>1. s \in {[u EXCEPT !.lock = u.lock /\ ~rsp.ack], Running}
    BY <1>6 DEF UnitSteps, u
  <2>2. [u EXCEPT !.lock = u.lock /\ ~rsp.ack] \in Units
        /\ [u EXCEPT !.lock = u.lock /\ ~rsp.ack].phase = "fault"
    BY <1>1, <1>6 DEF Units
  <2> QED
    BY <1>2, <1>6, <2>1, <2>2 DEF u
<1>7. CASE u.phase \in {"strobe", "wait"}
  <2>1. s = IF rsp.ack THEN Running ELSE [u EXCEPT !.phase = "wait"]
    BY <1>7 DEF UnitSteps, u, Done
  <2>2. /\ [u EXCEPT !.phase = "wait"] \in Units
        /\ [u EXCEPT !.phase = "wait"].phase = "wait"
        /\ [u EXCEPT !.phase = "wait"].access = u.access
        /\ [u EXCEPT !.phase = "wait"].lock = u.lock
    BY <1>1 DEF Units, Phases
  <2>3. CASE rsp.ack
    BY <1>2, <1>7, <2>1, <2>3 DEF u
  <2>4. CASE ~rsp.ack
    BY <1>1, <1>7, <2>1, <2>2, <2>4 DEF u, Of
  <2> QED
    BY <2>3, <2>4
<1> QED
  BY <1>1, <1>5, <1>6, <1>7 DEF Units, Phases, u

\* Who is on the bus: a strobe is the first clock of a service.
LEMMA WhoAsks ==
  ASSUME Inv
  PROVE  /\ Strobe <=> /\ arb_state = "S_IDLE"
                       /\ \E h \in Harts : cpu[h].phase \in {"strobe", "wait"}
         /\ Strobe => cpu[Selected].phase \in {"strobe", "wait"}
         /\ arb_state # "S_IDLE" => arb_state \in Harts /\ Selected = arb_state
<1>1. CASE arb_state # "S_IDLE"
  <2>1. arb_state \in Harts /\ Selected = arb_state
    BY <1>1 DEF Inv, TypeOK, Selected, Arb!sel
  <2>2. cpu[arb_state].phase \in {"wait", "run"}
    BY <2>1 DEF Inv, Serving, Closing
  <2>3. core_req[arb_state].stb <=> cpu[arb_state].phase = "strobe"
    BY <2>1 DEF core_req
  <2>4. ~Strobe
    BY <1>1, <2>2, <2>3 DEF Strobe, Arb!stb
  <2> QED
    BY <1>1, <2>1, <2>4
<1>2. CASE arb_state = "S_IDLE"
  <2>1. ASSUME NEW h \in Harts
        PROVE  Arb!Requested(h, core_req) <=> cpu[h].phase \in {"strobe", "wait"}
    <3>1. core_req[h].stb <=> cpu[h].phase = "strobe"
      BY DEF core_req
    <3>2. arb_pending[h] <=> cpu[h].phase = "wait"
      BY <1>2, BusAssumption DEF Inv, Turns
    <3> QED
      BY <3>1, <3>2 DEF Arb!Requested
  <2>2. Strobe <=> \E h \in Harts : Arb!Requested(h, core_req)
    BY <1>2, BusAssumption DEF Strobe, Arb!stb, Arb!Ports
  <2>3. Strobe => Arb!Requested(Selected, core_req)
    BY <1>2, <2>2, BusAssumption DEF Selected, Arb!sel, Arb!First, Arb!Other
  <2> QED
    BY <1>2, <2>1, <2>2, <2>3, SelectedHart DEF Inv
<1> QED
  BY <1>1, <1>2

\* A hart that waits for its turn gets no acknowledge.
LEMMA NoAnswer ==
  ASSUME Inv, NEW ext \in Answers, NEW h \in Harts, arb_state # h,
         cpu[h].phase \in {"strobe", "wait"}
  PROVE  ~core_rsp(ext)[h].ack
<1>1. CASE arb_state = "S_IDLE"
  <2>1. keeper # "error" \/ arb_sel_q # h
    BY <1>1 DEF Inv, Idle
  <2>2. ~rden /\ ~wren /\ ~sc_fail /\ ~xbus_pending
    BY <1>1 DEF Inv, Idle, Quiet
  <2>3. sys1_rsp(ext).ack => keeper = "error"
    BY <2>2, SystemResponse, HostResponse DEF Answered, Inv
  <2> QED
    BY <2>1, <2>3, HostResponse DEF Inv
<1>2. CASE arb_state # "S_IDLE"
  <2>1. arb_state \in Harts /\ arb_sel_q = arb_state
    BY <1>2 DEF Inv, TypeOK, Turns
  <2> QED
    BY <2>1, HostResponse DEF Inv
<1> QED
  BY <1>1, <1>2

\* The registers of the arbiter and the units.
LEMMA ArbiterEdge ==
  ASSUME Inv, NEW ext \in Answers, Edge(ext)
  PROVE  /\ setup' = setup
         /\ cpu' \in [Harts -> Units]
         /\ \A h \in Harts : cpu'[h] \in UnitSteps(cpu[h], core_rsp(ext)[h])
         /\ \A h \in Harts :
              got'[h] = IF cpu[h].phase \in {"strobe", "wait"} /\ core_rsp(ext)[h].ack
                          THEN core_rsp(ext)[h] ELSE rsp_terminate_c
         /\ arb_state' =
              IF arb_state = "S_IDLE" THEN (IF Strobe THEN Selected ELSE "S_IDLE")
              ELSE IF (IF arb_lock[arb_state] THEN ~cpu[arb_state].lock ELSE sys1_rsp(ext).ack)
                THEN "S_IDLE" ELSE arb_state
         /\ arb_sel_q' = Selected
         /\ arb_lock' = IF arb_state = "S_IDLE" THEN [h \in Harts |-> cpu[h].lock] ELSE arb_lock
         /\ arb_pending' = [h \in Harts |-> /\ arb_state # h
                                            /\ arb_pending[h] \/ cpu[h].phase = "strobe"]
<1>1. /\ \E s \in UnitSteps(cpu["a"], core_rsp(ext)["a"]),
             t \in UnitSteps(cpu["b"], core_rsp(ext)["b"]) :
           cpu' = [h \in Harts |-> IF h = "a" THEN s ELSE t]
      /\ got' = [h \in Harts |->
           IF cpu[h].phase \in {"strobe", "wait"} /\ core_rsp(ext)[h].ack
             THEN core_rsp(ext)[h] ELSE rsp_terminate_c]
      /\ Arb!arbiter_sync(core_req, sys1_rsp(ext))
      /\ setup' = setup
  BY Zenon DEF Edge
<1>2. \A h \in Harts : cpu'[h] \in UnitSteps(cpu[h], core_rsp(ext)[h])
  BY <1>1, BusAssumption
<1>3. \A h \in Harts : core_rsp(ext)[h].ack \in BOOLEAN
  BY HostResponse DEF Inv
<1>4. \A h \in Harts : cpu'[h] \in Units
  BY <1>2, <1>3, UnitStep DEF Inv
<1>5. cpu' \in [Harts -> Units]
  BY <1>1, <1>4
<1>6. Harts = Arb!Ports
  BY BusAssumption DEF Arb!Ports
<1>7. \A h \in Harts : core_req[h].lock = cpu[h].lock
  BY DEF core_req
<1>8. \A h \in Harts : core_req[h].stb <=> cpu[h].phase = "strobe"
  BY DEF core_req
<1>9. arb_state' = IF arb_state = "S_IDLE" THEN (IF Strobe THEN Selected ELSE "S_IDLE")
                   ELSE IF Arb!Released(arb_state, core_req, sys1_rsp(ext))
                     THEN "S_IDLE" ELSE arb_state
  BY <1>1 DEF Arb!arbiter_sync, Strobe, Selected
<1>10. arb_state # "S_IDLE" =>
         (Arb!Released(arb_state, core_req, sys1_rsp(ext)) <=>
            IF arb_lock[arb_state] THEN ~cpu[arb_state].lock ELSE sys1_rsp(ext).ack)
  BY <1>7, WhoAsks DEF Arb!Released
<1>11. arb_sel_q' = Selected
  BY <1>1 DEF Arb!arbiter_sync, Selected
<1>12. arb_lock' = IF arb_state = "S_IDLE" THEN [h \in Harts |-> cpu[h].lock] ELSE arb_lock
  <2>1. arb_lock' = IF arb_state = "S_IDLE" THEN [h \in Harts |-> core_req[h].lock] ELSE arb_lock
    BY <1>1, <1>6 DEF Arb!arbiter_sync
  <2> QED
    BY <1>7, <2>1
<1>13. arb_pending' = [h \in Harts |-> /\ arb_state # h
                                       /\ arb_pending[h] \/ cpu[h].phase = "strobe"]
  <2>1. arb_pending' = [h \in Harts |-> /\ arb_state # h
                                        /\ arb_pending[h] \/ core_req[h].stb]
    BY <1>1, <1>6 DEF Arb!arbiter_sync, Arb!Remember
  <2> QED
    BY <1>8, <2>1
<1> QED
  BY <1>1, <1>2, <1>5, <1>9, <1>10, <1>11, <1>12, <1>13

\* The clocks in which the fabric below the arbiter sees a strobe.
Down == (rmw = "S_WRITE" \/ Strobe) /\ ~Refuses

\* The registers of the two controllers of atomics.
LEMMA AtomicsEdge ==
  ASSUME Inv, NEW ext \in Answers, Edge(ext)
  PROVE  /\ rmw' = IF rmw = "S_IDLE"
                     THEN IF Strobe /\ cpu[Selected].lock THEN "S_READ_WAIT" ELSE rmw
                   ELSE IF rmw = "S_READ_WAIT" THEN (IF amo_rsp(ext).ack THEN "S_EXECUTE" ELSE rmw)
                   ELSE IF rmw = "S_EXECUTE" THEN "S_WRITE"
                   ELSE IF rmw = "S_WRITE" THEN "S_WRITE_WAIT"
                   ELSE IF amo_rsp(ext).ack THEN "S_IDLE" ELSE rmw
         /\ IF rmw = "S_IDLE" /\ Strobe /\ cpu[Selected].lock
              THEN cmd' = Of(Selected).amoop /\ wdata' = Of(Selected).data
              ELSE cmd' = cmd /\ wdata' = wdata
         /\ rdata' = IF rmw = "S_READ_WAIT" THEN amo_rsp(ext).data ELSE rdata
         /\ alu_res' = Apply(cmd, rdata, wdata)
         /\ valid' = IF rmw = "S_WRITE" \/ Strobe
                       THEN Of(Selected).amo /\ Of(Selected).amoop = LR ELSE valid
         /\ sc_fail' = ((rmw = "S_WRITE" \/ Strobe) /\ Refuses)
         /\ sc_pend' = IF (rmw = "S_WRITE" \/ Strobe) /\ IsSc(Of(Selected)) /\ valid THEN TRUE
                       ELSE IF sys3_rsp(ext).ack THEN FALSE ELSE sc_pend
<1>1. /\ Rmw!arbiter_comb(sys1_req, amo_rsp(ext))
      /\ Rvs!rvs_control(amo_req)
      /\ Rvs!sc_result(amo_req, sys3_rsp(ext))
  BY Zenon DEF Edge
<1>2. Rmw!IsRmw(sys1_req) <=> Strobe /\ cpu[Selected].lock
  <2>1. Rmw!IsRmw(sys1_req) <=>
          Strobe /\ Of(Selected).amo /\ Of(Selected).amoop \div 4 # 2
    BY HostRequest DEF Rmw!IsRmw, Inv
  <2>2. ASSUME Strobe
        PROVE  cpu[Selected].lock <=> Of(Selected).amo /\ Of(Selected).amoop \div 4 # 2
    <3>1. Of(Selected) \in setup.issued /\ (cpu[Selected].lock <=> Locks(Of(Selected)))
      BY <2>2, WhoAsks, SelectedHart DEF Inv, UnitInv
    <3>2. Of(Selected).amoop \in AmoCodes
      BY <3>1, AccessFacts DEF Inv
    <3> QED
      BY <3>1, <3>2, Codes DEF Locks
  <2> QED
    BY <2>1, <2>2
<1>3. rmw \in RmwStates /\ cmd \in RmwCodes /\ rdata \in Word /\ wdata \in Word
  BY DEF Inv, TypeOK
<1>4. rmw' = IF rmw = "S_IDLE" THEN (IF Strobe /\ cpu[Selected].lock THEN "S_READ_WAIT" ELSE rmw)
             ELSE IF rmw = "S_READ_WAIT" THEN (IF amo_rsp(ext).ack THEN "S_EXECUTE" ELSE rmw)
             ELSE IF rmw = "S_EXECUTE" THEN "S_WRITE"
             ELSE IF rmw = "S_WRITE" THEN "S_WRITE_WAIT"
             ELSE IF amo_rsp(ext).ack THEN "S_IDLE" ELSE rmw
  BY <1>1, <1>2, <1>3 DEF Rmw!arbiter_comb, Rmw!AfterRead, RmwStates
<1>5. IF rmw = "S_IDLE" /\ Strobe /\ cpu[Selected].lock
        THEN cmd' = Of(Selected).amoop /\ wdata' = Of(Selected).data
        ELSE cmd' = cmd /\ wdata' = wdata
  BY <1>1, <1>2, HostRequest DEF Rmw!arbiter_comb, Inv
<1>6. rdata' = IF rmw = "S_READ_WAIT" THEN amo_rsp(ext).data ELSE rdata
  BY <1>1 DEF Rmw!arbiter_comb
<1>7. alu_res' = Apply(cmd, rdata, wdata)
  <2>1. alu_res' = Rmw!amo_alu(cmd, rdata, wdata)
    BY <1>1 DEF Rmw!arbiter_comb
  <2> QED
    BY <1>3, <2>1, AluComputes
<1>8. /\ Rvs!sc(amo_req) <=> IsSc(Of(Selected))
      /\ Rvs!lr(amo_req) <=> Of(Selected).amo /\ Of(Selected).amoop = LR
      /\ amo_req.stb <=> rmw = "S_WRITE" \/ Strobe
  BY MemoryRequest DEF Rvs!sc, Rvs!lr, Rvs!SC, Rvs!LR, SC, LR, IsSc, Inv
<1>9. valid' = IF rmw = "S_WRITE" \/ Strobe
                 THEN Of(Selected).amo /\ Of(Selected).amoop = LR ELSE valid
  BY <1>1, <1>8 DEF Rvs!rvs_control, Rvs!lr
<1>10. sc_fail' = ((rmw = "S_WRITE" \/ Strobe) /\ Refuses)
  <2>1. sc_fail' = (amo_req.stb /\ Rvs!sc(amo_req) /\ ~valid)
    BY <1>1 DEF Rvs!sc_result
  <2> QED
    BY <1>8, <2>1 DEF Refuses, IsSc
<1>11. sc_pend' = IF (rmw = "S_WRITE" \/ Strobe) /\ IsSc(Of(Selected)) /\ valid THEN TRUE
                  ELSE IF sys3_rsp(ext).ack THEN FALSE ELSE sc_pend
  BY <1>1, <1>8 DEF Rvs!sc_result
<1> QED
  BY <1>4, <1>5, <1>6, <1>7, <1>9, <1>10, <1>11

\* The registers of the bus monitor.
LEMMA MonitorEdge ==
  ASSUME Inv, NEW ext \in Answers, Edge(ext)
  PROVE  /\ keeper = "idle" =>
              /\ keeper' = IF Down THEN "busy" ELSE "idle"
              /\ keeper_lock' = cpu[Selected].lock /\ keeper_cnt' = 0
              /\ keeper_ext' => Of(Selected).addr \notin Cells
              /\ keeper_ext' \in BOOLEAN
         /\ keeper = "busy" =>
              /\ keeper' \in {"idle", "busy", "error"}
              /\ keeper' = "error" <=> Gate!Expired
              /\ keeper' = "idle" =>
                   IF keeper_lock THEN ~cpu[Selected].lock ELSE int_rsp(ext).ack
              /\ (IF keeper_lock THEN ~cpu[Selected].lock ELSE int_rsp(ext).ack) => keeper' # "busy"
              /\ keeper_lock' = keeper_lock /\ keeper_ext' = keeper_ext
              /\ keeper_cnt' \in Nat /\ (int_rsp(ext).ack => keeper_cnt' = 0)
              /\ keeper_cnt' <= keeper_cnt + 1
         /\ keeper = "error" =>
              /\ keeper' = IF ~keeper_lock \/ ~cpu[Selected].lock THEN "idle" ELSE "error"
              /\ keeper_lock' = keeper_lock /\ keeper_ext' = keeper_ext /\ keeper_cnt' = keeper_cnt
<1>1. Gate!bus_monitor(sys3_req, int_rsp(ext))
  BY Zenon DEF Edge
<1>2. /\ sys3_req.stb <=> Down
      /\ sys3_req.lock = cpu[Selected].lock
      /\ sys3_req.addr = Of(Selected).addr
  BY SystemRequest DEF Inv, Down
<1>3. keeper_cnt \in Nat /\ Gate!CntValues \in Nat \ {0}
  BY GatewayAssumption DEF Inv, TypeOK, Gate!CntValues
<1>4. (keeper_cnt + 1) % Gate!CntValues \in Nat
      /\ (keeper_cnt + 1) % Gate!CntValues <= keeper_cnt + 1
  <2> DEFINE m == Gate!CntValues
             n == keeper_cnt + 1
  <2>1. n \in Nat /\ m \in Nat \ {0}
    BY <1>3
  <2> HIDE DEF m, n
  <2>2. (n % m) \in 0 .. m - 1 /\ n \div m \in Nat /\ n = m * (n \div m) + (n % m)
    BY <2>1
  <2>3. m * (n \div m) \in Nat
    BY <2>1, <2>2
  <2>4. (n % m) <= n
    BY <2>1, <2>2, <2>3
  <2> QED
    BY <2>2, <2>4 DEF m, n
<1>5. CASE keeper = "idle"
  <2>1. /\ keeper' = IF Down THEN "busy" ELSE "idle"
        /\ keeper_lock' = cpu[Selected].lock /\ keeper_cnt' = 0
        /\ keeper_ext' = (Gate!port_sel(Of(Selected).addr) = "xbus")
    BY <1>1, <1>2, <1>5 DEF Gate!bus_monitor
  <2>2. Gate!port_sel(Of(Selected).addr) = "xbus" => Of(Selected).addr \notin Cells
    BY DEF Gate!port_sel
  <2> QED
    BY <1>5, <2>1, <2>2
<1>6. CASE keeper = "busy"
  <2>1. /\ keeper_cnt' = IF int_rsp(ext).ack THEN 0 ELSE (keeper_cnt + 1) % Gate!CntValues
        /\ keeper' = IF Gate!Expired THEN "error"
                     ELSE IF (IF keeper_lock THEN ~sys3_req.lock ELSE int_rsp(ext).ack) THEN "idle"
                     ELSE "busy"
        /\ keeper_lock' = keeper_lock /\ keeper_ext' = keeper_ext
    BY <1>1, <1>6 DEF Gate!bus_monitor
  <2>2. /\ keeper_cnt' \in Nat /\ (int_rsp(ext).ack => keeper_cnt' = 0)
        /\ keeper_cnt' <= keeper_cnt + 1
    BY <1>3, <1>4, <2>1
  <2> QED
    BY <1>2, <1>6, <2>1, <2>2
<1>7. CASE keeper = "error"
  <2>1. /\ keeper' = IF Gate!ErrorOver(sys3_req) THEN "idle" ELSE "error"
        /\ keeper_lock' = keeper_lock /\ keeper_ext' = keeper_ext /\ keeper_cnt' = keeper_cnt
    BY <1>1, <1>7 DEF Gate!bus_monitor
  <2> QED
    BY <1>2, <1>7, <2>1 DEF Gate!ErrorOver
<1> QED
  BY <1>5, <1>6, <1>7

\* A count below two does not expire inside.
LEMMA NotExpired ==
  ASSUME keeper_cnt \in {0, 1}, ~keeper_ext
  PROVE  ~Gate!Expired
<1>1. CASE TmoInt = 0
  BY <1>1 DEF Gate!Expired
<1>2. CASE TmoInt > 1
  <2>1. TmoInt \in Nat /\ keeper_cnt \in 0 .. TmoInt - 1
    BY <1>2, GatewayAssumption
  <2>2. keeper_cnt \div TmoInt = 0
    BY <1>2, <2>1
  <2> QED
    BY <2>2 DEF Gate!Expired
<1> QED
  BY <1>1, <1>2, GatewayAssumption

\* A count of zero does not expire.
LEMMA ZeroNotExpired ==
  ASSUME keeper_cnt = 0
  PROVE  ~Gate!Expired
<1>1. \A t \in Nat : t > 0 => 0 \div t = 0
  OBVIOUS
<1>2. TmoInt > 0 => (keeper_cnt \div TmoInt) % 2 = 0
  BY <1>1, GatewayAssumption
<1>3. TmoExt > 0 => (keeper_cnt \div TmoExt) % 2 = 0
  BY <1>1, GatewayAssumption
<1> QED
  BY <1>2, <1>3 DEF Gate!Expired

\* The registers of the external bus gate and of the data memory.
LEMMA MemoryEdge ==
  ASSUME Inv, NEW ext \in Answers, Edge(ext)
  PROVE  /\ xbus_pending' =
              IF xbus_pending
                THEN ~(keeper = "error" \/ IF xbus_locked THEN ~cpu[Selected].lock
                                           ELSE ext.err \/ ext.ack)
                ELSE Down /\ setup.x_en /\ Of(Selected).addr \notin Cells \union Holes
         /\ xbus_locked' = IF xbus_pending THEN xbus_locked
                           ELSE /\ Down /\ setup.x_en
                                /\ Of(Selected).addr \notin Cells \union Holes
                                /\ cpu[Selected].lock
         /\ mem' = IF Down /\ Of(Selected).addr \in Cells /\ (Writing \/ Of(Selected).rw)
                     THEN [mem EXCEPT ![Of(Selected).addr] =
                             IF Writing THEN alu_res ELSE Of(Selected).data]
                     ELSE mem
         /\ mem_q' = IF Down /\ Of(Selected).addr \in Cells THEN mem[Of(Selected).addr] ELSE mem_q
         /\ wren' = (Down /\ Of(Selected).addr \in Cells /\ (Writing \/ Of(Selected).rw))
         /\ rden' = (Down /\ Of(Selected).addr \in Cells /\ ~(Writing \/ Of(Selected).rw))
<1>1. XGate!xbus_arbiter(xbus_req, Gate!keeper_err, ext) /\ dmem
  BY Zenon DEF Edge
<1>2. /\ dmem_req.stb <=> Down /\ Of(Selected).addr \in Cells
      /\ dmem_req.rw <=> (Writing \/ Of(Selected).rw)
      /\ dmem_req.addr = Of(Selected).addr
      /\ dmem_req.data = IF Writing THEN alu_res ELSE Of(Selected).data
      /\ xbus_req.stb <=> /\ Down /\ setup.x_en
                          /\ Of(Selected).addr \notin Cells \union Holes
      /\ xbus_req.lock = cpu[Selected].lock
  BY SectionRequests, SystemRequest DEF Inv, Down
<1>3. xbus_pending' =
        IF xbus_pending
          THEN ~(keeper = "error" \/ IF xbus_locked THEN ~cpu[Selected].lock
                                     ELSE ext.err \/ ext.ack)
          ELSE Down /\ setup.x_en /\ Of(Selected).addr \notin Cells \union Holes
  <2>1. xbus_pending' = IF xbus_pending THEN ~XGate!Ends(xbus_req, Gate!keeper_err, ext)
                                        ELSE xbus_req.stb
    BY <1>1 DEF XGate!xbus_arbiter
  <2>2. XGate!Ends(xbus_req, Gate!keeper_err, ext) <=>
          (keeper = "error" \/ IF xbus_locked THEN ~cpu[Selected].lock ELSE ext.err \/ ext.ack)
    BY <1>2 DEF XGate!Ends, Gate!keeper_err
  <2>3. xbus_req.stb \in BOOLEAN
    BY SectionRequests DEF Inv
  <2>4. CASE xbus_pending
    BY <2>1, <2>2, <2>4
  <2>5. CASE ~xbus_pending
    BY <1>2, <2>1, <2>3, <2>5
  <2> QED
    BY <2>4, <2>5
<1>4. xbus_locked' = IF xbus_pending THEN xbus_locked
                     ELSE /\ Down /\ setup.x_en
                          /\ Of(Selected).addr \notin Cells \union Holes
                          /\ cpu[Selected].lock
  BY <1>1, <1>2 DEF XGate!xbus_arbiter
<1>5. /\ mem' = IF dmem_req.stb /\ dmem_req.rw
                  THEN [mem EXCEPT ![dmem_req.addr] = dmem_req.data] ELSE mem
      /\ mem_q' = IF dmem_req.stb THEN mem[dmem_req.addr] ELSE mem_q
      /\ wren' = (dmem_req.stb /\ dmem_req.rw)
      /\ rden' = (dmem_req.stb /\ ~dmem_req.rw)
  BY <1>1 DEF dmem
<1>6. mem' = IF Down /\ Of(Selected).addr \in Cells /\ (Writing \/ Of(Selected).rw)
               THEN [mem EXCEPT ![Of(Selected).addr] =
                       IF Writing THEN alu_res ELSE Of(Selected).data]
               ELSE mem
  BY <1>2, <1>5
<1>7. mem_q' = IF Down /\ Of(Selected).addr \in Cells THEN mem[Of(Selected).addr] ELSE mem_q
  BY <1>2, <1>5
<1>8. wren' = (Down /\ Of(Selected).addr \in Cells /\ (Writing \/ Of(Selected).rw))
  BY <1>2, <1>5
<1>9. rden' = (Down /\ Of(Selected).addr \in Cells /\ ~(Writing \/ Of(Selected).rw))
  BY <1>2, <1>5
<1> QED
  BY <1>3, <1>4, <1>6, <1>7, <1>8, <1>9

\* What the harts do at an edge: one waits on unless it is the one served and the fabric answers.
LEMMA HartsNext ==
  ASSUME Inv, NEW ext \in Answers, Edge(ext), NEW h \in Harts
  PROVE  /\ cpu[h].phase = "run" => cpu'[h].phase \in {"run", "fault", "strobe"}
         /\ cpu[h].phase = "fault" => cpu'[h].phase \in {"run", "fault"}
         /\ cpu[h].phase \in {"strobe", "wait"} =>
              IF arb_state = h /\ sys1_rsp(ext).ack THEN cpu'[h] = Running
              ELSE /\ cpu'[h].phase = "wait" /\ cpu'[h].access = Of(h)
                   /\ cpu'[h].lock <=> cpu[h].lock
         /\ cpu'[h].phase \in {"strobe", "wait"} =>
              cpu'[h].access \in setup'.issued /\ (cpu'[h].lock <=> Locks(cpu'[h].access))
         /\ cpu'[h].phase = "run" => ~cpu'[h].lock
<1>1. TypeOK /\ UnitInv /\ setup' = setup
  BY ArbiterEdge DEF Inv
<1>2. core_rsp(ext)[h].ack \in BOOLEAN /\ cpu'[h] \in UnitSteps(cpu[h], core_rsp(ext)[h])
  BY <1>1, ArbiterEdge, HostResponse
<1>3. arb_state = h => (core_rsp(ext)[h].ack <=> sys1_rsp(ext).ack)
  <2>1. arb_state = h => arb_sel_q = h
    BY DEF Inv, Turns
  <2> QED
    BY <1>1, <2>1, HostResponse
<1>4. arb_state # h /\ cpu[h].phase \in {"strobe", "wait"} => ~core_rsp(ext)[h].ack
  BY NoAnswer
<1> DEFINE rsp == core_rsp(ext)[h]
           s == cpu'[h]
<1> HIDE DEF rsp, s
<1>5. /\ s.phase \in {"strobe", "wait"} =>
           s.access \in setup.issued /\ (s.lock <=> Locks(s.access))
      /\ s.phase = "run" => ~s.lock
      /\ cpu[h].phase = "run" => s.phase \in {"run", "fault", "strobe"}
      /\ cpu[h].phase = "fault" => s.phase \in {"run", "fault"}
      /\ cpu[h].phase \in {"strobe", "wait"} =>
           IF rsp.ack THEN s = Running
           ELSE s.phase = "wait" /\ s.access = Of(h) /\ (s.lock <=> cpu[h].lock)
  <2>1. rsp.ack \in BOOLEAN /\ s \in UnitSteps(cpu[h], rsp)
    BY <1>2 DEF rsp, s
  <2> QED
    BY <1>1, <2>1, UnitStep
<1> QED
  BY <1>1, <1>3, <1>4, <1>5 DEF rsp, s

\* Each part of the invariant survives an edge.
LEMMA UnitsNext ==
  ASSUME Inv, NEW ext \in Answers, Edge(ext)
  PROVE  UnitInv'
<1> SUFFICES ASSUME NEW h \in Harts
             PROVE  /\ cpu'[h].phase \in {"strobe", "wait"} =>
                         /\ cpu'[h].access \in setup'.issued
                         /\ cpu'[h].lock <=> Locks(cpu'[h].access)
                    /\ cpu'[h].phase = "run" => ~cpu'[h].lock
  BY DEF UnitInv, Of, Locks
<1> QED
  BY HartsNext

\* The arbiter remembers whom it leaves waiting.
LEMMA TurnsNext ==
  ASSUME Inv, NEW ext \in Answers, Edge(ext)
  PROVE  Turns'
<1> SUFFICES ASSUME NEW h \in Harts
             PROVE  IF arb_state' = h THEN arb_sel_q' = h
                    ELSE arb_pending'[h] <=> cpu'[h].phase = "wait"
  BY DEF Turns
<1>0. "S_IDLE" \notin Harts
  BY BusAssumption
<1>1. /\ arb_sel_q' = Selected
      /\ arb_pending'[h] <=> (arb_state # h /\ (arb_pending[h] \/ cpu[h].phase = "strobe"))
  BY ArbiterEdge
<1>2. arb_state' = IF arb_state = "S_IDLE" THEN (IF Strobe THEN Selected ELSE "S_IDLE")
                   ELSE IF (IF arb_lock[arb_state] THEN ~cpu[arb_state].lock
                                                   ELSE sys1_rsp(ext).ack)
                     THEN "S_IDLE" ELSE arb_state
  BY ArbiterEdge
<1>3. cpu[h].phase \in {"run", "strobe", "wait", "fault"}
  BY DEF Inv, TypeOK, Units, Phases
<1>4. arb_state' = h => arb_sel_q' = h
  BY <1>0, <1>1, <1>2, WhoAsks
<1>5. CASE arb_state # h
  <2>1. arb_pending[h] <=> cpu[h].phase = "wait"
    BY <1>5 DEF Inv, Turns
  <2>2. cpu'[h].phase = "wait" <=> cpu[h].phase \in {"strobe", "wait"}
    BY <1>3, <1>5, HartsNext
  <2> QED
    BY <1>1, <1>4, <1>5, <2>1, <2>2
<1>6. CASE arb_state = h /\ cpu[h].phase # "wait"
  <2>1. cpu[h].phase = "run"
    BY <1>6 DEF Inv, Serving, Closing
  <2>2. cpu'[h].phase # "wait"
    BY <2>1, HartsNext
  <2> QED
    BY <1>1, <1>4, <1>6, <2>2
<1>7. CASE arb_state = h /\ cpu[h].phase = "wait"
  <2>1. arb_lock[h] <=> cpu[h].lock
    BY <1>7 DEF Inv, Serving, Watch
  <2>2. arb_state' = h \/ sys1_rsp(ext).ack
    BY <1>0, <1>2, <1>7, <2>1
  <2>3. sys1_rsp(ext).ack => cpu'[h].phase = "run"
    BY <1>7, HartsNext DEF Running
  <2> QED
    BY <1>1, <1>4, <1>7, <2>2, <2>3
<1> QED
  BY <1>5, <1>6, <1>7

\* Nothing is asked and nothing is under way.
LEMMA IdleStays ==
  ASSUME Inv, NEW ext \in Answers, Edge(ext), arb_state = "S_IDLE", ~Strobe
  PROVE  arb_state' = "S_IDLE" /\ Idle'
<1>1. /\ Quiet /\ ~xbus_pending /\ keeper # "busy"
      /\ keeper = "error" => ~keeper_lock
  BY DEF Inv, Idle
<1>2. arb_state' = "S_IDLE"
  BY ArbiterEdge
<1>3. ~Down
  BY <1>1 DEF Down, Quiet
<1>4. rmw' = "S_IDLE" /\ ~sc_fail' /\ ~sc_pend'
  BY <1>1, AtomicsEdge DEF Quiet
<1>5. ~wren' /\ ~rden' /\ ~xbus_pending'
  BY <1>1, <1>3, MemoryEdge
<1>6. keeper' = "idle"
  <2>1. keeper \in {"idle", "error"}
    BY <1>1 DEF Inv, TypeOK
  <2> QED
    BY <1>1, <1>3, <2>1, MonitorEdge
<1> QED
  BY <1>2, <1>4, <1>5, <1>6 DEF Idle, Quiet

\* A locked access is over.
LEMMA Closes ==
  ASSUME Inv, NEW ext \in Answers, Edge(ext), NEW h \in Harts, arb_state = h,
         cpu[h].phase # "wait"
  PROVE  arb_state' = "S_IDLE" /\ Idle' /\ mem' = mem /\ valid' = valid
<1>1. Closing(h) /\ Selected = h /\ "S_IDLE" \notin Harts
  BY WhoAsks, BusAssumption DEF Inv, Serving
<1>2. ~Strobe /\ ~Down
  BY <1>1, WhoAsks DEF Closing, Quiet, Down
<1>3. ~cpu[h].lock
  BY <1>1 DEF Inv, UnitInv, Closing
<1>4. arb_state' = "S_IDLE"
  BY <1>1, <1>3, ArbiterEdge DEF Closing
<1>5. rmw' = "S_IDLE" /\ ~sc_fail' /\ ~sc_pend' /\ valid' = valid
  BY <1>1, <1>2, AtomicsEdge DEF Closing, Quiet
<1>6. ~wren' /\ ~rden' /\ ~xbus_pending' /\ mem' = mem
  BY <1>1, <1>2, <1>3, MemoryEdge DEF Closing
<1>7. keeper' = "idle"
  <2>1. keeper = "busy" => ~Gate!Expired
    BY <1>1, ZeroNotExpired DEF Closing
  <2>2. keeper \in {"idle", "busy", "error"}
    BY DEF Inv, TypeOK
  <2>3. keeper = "busy" => keeper_lock
    BY <1>1 DEF Closing
  <2> QED
    BY <1>1, <1>2, <1>3, <2>1, <2>2, <2>3, MonitorEdge
<1> QED
  BY <1>4, <1>5, <1>6, <1>7 DEF Idle, Quiet

\* The arbiter grants the bus: the first clock of an access.
LEMMA Grants ==
  ASSUME Inv, NEW ext \in Answers, Edge(ext), arb_state = "S_IDLE", Strobe,
         NEW h \in Harts, h = Selected
  PROVE  /\ arb_state' = h /\ cpu[h].phase \in {"strobe", "wait"}
         /\ cpu'[h].phase = "wait" /\ cpu'[h].access = Of(h)
         /\ cpu'[h].lock <=> cpu[h].lock
         /\ Watch(h)'
         /\ cpu[h].lock => ReadModifyWrite(h)'
         /\ ~cpu[h].lock => Single(h)'
<1> DEFINE a == Of(h)
<1>1. /\ rmw = "S_IDLE" /\ ~sc_fail /\ ~sc_pend /\ ~wren /\ ~rden
      /\ ~xbus_pending /\ keeper \in {"idle", "error"}
      /\ keeper = "error" => setup.x_en /\ ~keeper_lock
  BY DEF Inv, TypeOK, Idle, Quiet
<1>2. h \in Harts /\ cpu[h].phase \in {"strobe", "wait"}
  BY WhoAsks, SelectedHart DEF Inv
<1>3. arb_state' = h /\ setup' = setup /\ (arb_lock'[h] <=> cpu[h].lock)
  BY <1>2, ArbiterEdge
<1>4. arb_state # h
  BY <1>2, BusAssumption
<1>5. cpu'[h].phase = "wait" /\ cpu'[h].access = a /\ (cpu'[h].lock <=> cpu[h].lock)
  BY <1>2, <1>4, HartsNext
<1>6. /\ a \in setup.issued /\ a.rw \in BOOLEAN /\ a.amo \in BOOLEAN /\ a.addr \in Addresses
      /\ cpu[h].lock <=> Locks(a)
      /\ a.amo => (a.rw <=> a.amoop = SC)
  BY <1>2, AccessFacts DEF Inv, UnitInv
<1>7. Locks(a) => a.amo /\ ~IsSc(a) /\ a.amoop # LR /\ ~a.rw
  BY <1>6 DEF Locks, IsSc, RmwCodes, LR, SC, SWAP, ADD, XOR, AND, OR, MINU, MAXU, MIN, MAX
<1>8. Down <=> ~Refuses
  BY DEF Down
<1>9. Refuses <=> IsSc(a) /\ ~valid
  BY DEF Refuses, IsSc
<1>10. /\ rmw' = IF cpu[h].lock THEN "S_READ_WAIT" ELSE "S_IDLE"
       /\ cpu[h].lock => cmd' = a.amoop /\ wdata' = a.data
       /\ valid' <=> a.amo /\ a.amoop = LR
       /\ sc_fail' <=> Refuses
       /\ ~Refuses => (sc_pend' <=> IsSc(a))
       /\ Refuses => ~sc_pend'
  <2>1. /\ rmw' = IF cpu[h].lock THEN "S_READ_WAIT" ELSE "S_IDLE"
        /\ cpu[h].lock => cmd' = a.amoop /\ wdata' = a.data
        /\ valid' <=> a.amo /\ a.amoop = LR
        /\ sc_fail' <=> Refuses
    BY <1>1, AtomicsEdge
  <2>2. ~sc_pend /\ sc_pend' = IF IsSc(a) /\ valid THEN TRUE
                               ELSE IF sys3_rsp(ext).ack THEN FALSE ELSE sc_pend
    BY <1>1, AtomicsEdge
  <2> QED
    BY <1>9, <2>1, <2>2
<1>11. Writing <=> FALSE
  BY <1>1 DEF Writing
<1>12. /\ wren' <=> ~Refuses /\ a.addr \in Cells /\ a.rw
       /\ rden' <=> ~Refuses /\ a.addr \in Cells /\ ~a.rw
       /\ xbus_pending' <=> ~Refuses /\ setup.x_en /\ a.addr \notin Cells \union Holes
       /\ xbus_pending' => (xbus_locked' <=> cpu[h].lock)
  BY <1>1, <1>8, <1>11, MemoryEdge
<1>13. ~Refuses /\ a.addr \in Cells => mem_q' = mem[a.addr] /\ (~a.rw => mem' = mem)
  BY <1>8, <1>11, MemoryEdge
<1>14. /\ keeper' \in {"idle", "busy"}
       /\ keeper' = "busy" => /\ ~Refuses /\ (keeper_lock' <=> cpu[h].lock) /\ keeper_cnt' = 0
                              /\ keeper_ext' => a.addr \notin Cells
       /\ ~setup.x_en /\ ~Refuses => keeper' = "busy"
  BY <1>1, <1>8, MonitorEdge
<1>15. Watch(h)'
  <2>1. ~setup'.x_en /\ ~sc_fail' => keeper' # "idle"
    BY <1>3, <1>10, <1>14
  <2>2. xbus_pending' => /\ setup'.x_en /\ cpu'[h].access.addr \in Externals
                         /\ xbus_locked' <=> cpu'[h].lock
    BY <1>3, <1>5, <1>6, <1>12 DEF Addresses
  <2>3. cpu'[h].access.addr \notin Cells => ~wren' /\ ~rden'
    BY <1>5, <1>12
  <2>4. cpu'[h].access.addr \in Cells =>
          keeper' # "error" /\ ~xbus_pending' /\ (keeper' = "busy" => ~keeper_ext')
    BY <1>5, <1>12, <1>14
  <2>5. (arb_lock'[h] <=> cpu'[h].lock) /\ (keeper' # "idle" => (keeper_lock' <=> cpu'[h].lock))
    BY <1>3, <1>5, <1>14
  <2> QED
    BY <2>1, <2>2, <2>3, <2>4, <2>5 DEF Watch, Of
<1>16. cpu[h].lock => ReadModifyWrite(h)'
  <2> SUFFICES ASSUME cpu[h].lock PROVE ReadModifyWrite(h)'
    OBVIOUS
  <2>1. Locks(a) /\ ~IsSc(a) /\ a.amoop # LR /\ ~a.rw /\ ~Refuses
    BY <1>6, <1>7, <1>9
  <2>2. /\ rmw' = "S_READ_WAIT" /\ ~valid' /\ ~sc_fail' /\ ~sc_pend'
        /\ cmd' = a.amoop /\ wdata' = a.data
    BY <1>10, <2>1
  <2>3. a.addr \in Cells =>
          rden' /\ ~wren' /\ mem_q' = mem'[a.addr] /\ (keeper' = "busy" => keeper_cnt' = 0)
    BY <1>12, <1>13, <1>14, <2>1
  <2> QED
    BY <1>5, <2>2, <2>3 DEF ReadModifyWrite, Of
<1>17. ~cpu[h].lock => Single(h)'
  <2> SUFFICES ASSUME ~cpu[h].lock PROVE Single(h)'
    OBVIOUS
  <2>1. rmw' = "S_IDLE"
    BY <1>10
  <2>2. sc_fail' => IsSc(a) /\ keeper' = "idle" /\ ~sc_pend' /\ ~wren' /\ ~rden' /\ ~xbus_pending'
    BY <1>9, <1>10, <1>12, <1>14
  <2>3. ~sc_fail' => (sc_pend' <=> IsSc(a))
    BY <1>10
  <2>4. ~sc_fail' /\ a.addr \in Cells =>
          /\ rden' <=> ~a.rw
          /\ wren' <=> a.rw
          /\ keeper' = "busy" => keeper_cnt' = 0
    BY <1>10, <1>12, <1>14
  <2> QED
    BY <1>5, <2>1, <2>2, <2>3, <2>4 DEF Single, Of, IsSc
<1> QED
  BY <1>2, <1>3, <1>5, <1>15, <1>16, <1>17

\* What holds in every clock of a service.
LEMMA Serves ==
  ASSUME Inv, NEW h \in Harts, Served(h)
  PROVE  /\ "S_IDLE" \notin Harts /\ arb_state = h /\ arb_sel_q = h /\ cpu[h].phase = "wait"
         /\ Selected = h /\ ~Strobe /\ Watch(h)
         /\ Of(h) \in setup.issued /\ (cpu[h].lock <=> Locks(Of(h)))
         /\ IF cpu[h].lock THEN ReadModifyWrite(h) ELSE Single(h)
<1>1. arb_state = h /\ cpu[h].phase = "wait" /\ "S_IDLE" \notin Harts
  BY BusAssumption DEF Served
<1>2. arb_sel_q = h
  BY <1>1 DEF Inv, Turns
<1>3. Selected = h /\ ~Strobe
  BY <1>1, WhoAsks
<1>4. Watch(h) /\ IF cpu[h].lock THEN ReadModifyWrite(h) ELSE Single(h)
  BY <1>1 DEF Inv, Serving
<1>5. Of(h) \in setup.issued /\ (cpu[h].lock <=> Locks(Of(h)))
  BY <1>1 DEF Inv, UnitInv
<1> QED
  BY <1>1, <1>2, <1>3, <1>4, <1>5

\* An access that is no read-modify-write ends with the first acknowledge.
LEMMA SingleEnds ==
  ASSUME Inv, NEW ext \in Answers, Edge(ext), NEW h \in Harts, Served(h),
         ~cpu[h].lock, sys1_rsp(ext).ack
  PROVE  arb_state' = "S_IDLE" /\ Idle' /\ mem' = mem /\ valid' = valid
<1>1. /\ "S_IDLE" \notin Harts /\ arb_state = h /\ Selected = h /\ ~Strobe /\ cpu[h].phase = "wait"
      /\ Watch(h) /\ Single(h)
  BY Serves
<1>2. /\ ~arb_lock[h] /\ rmw = "S_IDLE" /\ ~Down
      /\ keeper # "idle" => ~keeper_lock
  BY <1>1 DEF Watch, Single, Down
<1>3. arb_state' = "S_IDLE" /\ setup' = setup /\ arb_sel_q' = h
  BY <1>1, <1>2, ArbiterEdge
<1>4. cpu'[h].phase = "run"
  BY <1>1, HartsNext DEF Running
<1>5. sys3_rsp(ext).ack \/ sc_fail
  BY <1>2, HostResponse DEF Inv
<1>6. sys3_rsp(ext).ack <=> (rden \/ wren \/ Answered(ext) \/ keeper = "error")
  BY SystemResponse DEF Inv
<1>7. rmw' = "S_IDLE" /\ ~sc_fail' /\ ~sc_pend' /\ valid' = valid
  <2>1. sc_fail => ~sc_pend
    BY <1>1 DEF Single
  <2> QED
    BY <1>1, <1>2, <1>5, <2>1, AtomicsEdge
<1>8. ~wren' /\ ~rden' /\ mem' = mem
  BY <1>2, MemoryEdge
<1>9. ~xbus_pending'
  <2>1. xbus_pending => Of(h).addr \in Externals /\ ~xbus_locked
    BY <1>1 DEF Watch
  <2>2. xbus_pending => ~wren /\ ~rden /\ ~sc_fail
    BY <1>1, <2>1, BusAssumption DEF Watch, Single
  <2>3. xbus_pending => keeper = "error" \/ ext.err \/ ext.ack
    BY <1>5, <1>6, <2>2 DEF Answered
  <2> QED
    BY <1>2, <2>1, <2>3, MemoryEdge
<1>10. keeper' # "busy" /\ (keeper' = "error" => setup.x_en /\ ~keeper_lock')
  <2>1. CASE keeper = "idle"
    BY <1>2, <2>1, MonitorEdge
  <2>2. CASE keeper = "error"
    BY <1>2, <2>2, MonitorEdge
  <2>3. CASE keeper = "busy"
    <3>1. ~sc_fail
      BY <1>1, <2>3 DEF Single
    <3>2. int_rsp(ext).ack
      BY <1>5, <1>6, <2>3, <3>1, SystemResponse DEF Inv
    <3>3. keeper' # "busy" /\ keeper_lock' = keeper_lock /\ (keeper' = "error" <=> Gate!Expired)
      BY <1>2, <2>3, <3>2, MonitorEdge
    <3>4. ASSUME Gate!Expired PROVE setup.x_en
      <4>1. Of(h).addr \notin Cells
        <5>1. SUFFICES ASSUME Of(h).addr \in Cells PROVE FALSE
          OBVIOUS
        <5>2. keeper_cnt = 0
          BY <1>1, <2>3, <3>1, <5>1 DEF Single
        <5> QED
          BY <3>4, <5>2, ZeroNotExpired
      <4>2. ~wren /\ ~rden
        BY <1>1, <4>1 DEF Watch
      <4>3. xbus_pending
        BY <1>5, <1>6, <2>3, <3>1, <4>2 DEF Answered
      <4> QED
        BY <1>1, <4>3 DEF Watch
    <3> QED
      BY <1>2, <2>3, <3>3, <3>4
  <2>4. keeper \in {"idle", "busy", "error"}
    BY DEF Inv, TypeOK
  <2> QED
    BY <2>1, <2>2, <2>3, <2>4
<1> QED
  BY <1>3, <1>4, <1>7, <1>8, <1>9, <1>10 DEF Idle, Quiet

\* Until then it is one outside the memory, and the monitor goes on watching it.
LEMMA SingleWaits ==
  ASSUME Inv, NEW ext \in Answers, Edge(ext), NEW h \in Harts, Served(h),
         ~cpu[h].lock, ~sys1_rsp(ext).ack
  PROVE  /\ arb_state' = h /\ Watch(h)' /\ Single(h)' /\ mem' = mem /\ valid' = valid
         /\ Of(h).addr \notin Cells /\ ~sc_fail /\ ~sc_fail'
         /\ cpu'[h].phase = "wait" /\ cpu'[h].access = Of(h) /\ ~cpu'[h].lock
<1>1. /\ "S_IDLE" \notin Harts /\ arb_state = h /\ Selected = h /\ ~Strobe /\ cpu[h].phase = "wait"
      /\ Watch(h) /\ Single(h)
  BY Serves
<1>2. /\ ~arb_lock[h] /\ rmw = "S_IDLE" /\ ~Down
      /\ keeper # "idle" => ~keeper_lock
  BY <1>1 DEF Watch, Single, Down
<1>3. arb_state' = h /\ setup' = setup /\ ~arb_lock'[h]
  BY <1>1, <1>2, ArbiterEdge
<1>4. cpu'[h].phase = "wait" /\ cpu'[h].access = Of(h) /\ ~cpu'[h].lock
  BY <1>1, HartsNext
<1>5. ~sys3_rsp(ext).ack /\ ~sc_fail
  BY <1>2, HostResponse DEF Inv
<1>6. ~rden /\ ~wren /\ ~Answered(ext) /\ keeper # "error" /\ ~int_rsp(ext).ack
  BY <1>5, SystemResponse DEF Inv
<1>7. Of(h).addr \notin Cells
  BY <1>1, <1>5, <1>6 DEF Single
<1>8. rmw' = "S_IDLE" /\ ~sc_fail' /\ sc_pend' = sc_pend /\ valid' = valid
  BY <1>1, <1>2, <1>5, AtomicsEdge
<1>9. ~wren' /\ ~rden' /\ mem' = mem
  BY <1>2, MemoryEdge
<1>10. /\ xbus_pending' => xbus_pending
       /\ xbus_pending => xbus_locked' = xbus_locked
  BY <1>2, MemoryEdge
<1>11. /\ keeper # "idle" => keeper' # "idle"
       /\ keeper' # "idle" => ~keeper_lock'
  <2>1. keeper \in {"idle", "busy"}
    BY <1>6 DEF Inv, TypeOK
  <2> QED
    BY <1>2, <1>6, <2>1, MonitorEdge
<1>12. Watch(h)'
  BY <1>1, <1>3, <1>4, <1>5, <1>7, <1>9, <1>10, <1>11 DEF Watch, Of
<1>13. Single(h)'
  BY <1>1, <1>4, <1>5, <1>7, <1>8 DEF Single, Of, IsSc
<1> QED
  BY <1>3, <1>4, <1>5, <1>7, <1>8, <1>9, <1>12, <1>13

\* A read-modify-write ends with the acknowledge of its write; the lock is still up then.
LEMMA LockedEnds ==
  ASSUME Inv, NEW ext \in Answers, Edge(ext), NEW h \in Harts, Served(h),
         cpu[h].lock, sys1_rsp(ext).ack
  PROVE  /\ arb_state' = h /\ cpu'[h].phase # "wait" /\ Closing(h)'
         /\ mem' = mem /\ ~valid /\ ~valid' /\ rmw = "S_WRITE_WAIT"
<1>1. /\ "S_IDLE" \notin Harts /\ arb_state = h /\ Selected = h /\ ~Strobe /\ cpu[h].phase = "wait"
      /\ Watch(h) /\ ReadModifyWrite(h)
  BY Serves
<1>2. /\ arb_lock[h] /\ (keeper # "idle" => keeper_lock)
      /\ ~valid /\ ~sc_fail /\ ~sc_pend /\ rmw # "S_IDLE"
  BY <1>1 DEF Watch, ReadModifyWrite
<1>3. rmw = "S_WRITE_WAIT" /\ amo_rsp(ext).ack /\ sys3_rsp(ext).ack
  BY <1>2, HostResponse DEF Inv
<1>4. ~Down
  BY <1>1, <1>3 DEF Down
<1>5. arb_state' = h /\ arb_lock' = arb_lock
  BY <1>1, <1>2, ArbiterEdge
<1>6. cpu'[h].phase = "run"
  BY <1>1, HartsNext DEF Running
<1>7. rmw' = "S_IDLE" /\ ~sc_fail' /\ ~sc_pend' /\ ~valid'
  BY <1>1, <1>2, <1>3, AtomicsEdge
<1>8. ~wren' /\ ~rden' /\ mem' = mem
  BY <1>4, MemoryEdge
<1>9. xbus_pending' => xbus_locked'
  BY <1>1, <1>4, MemoryEdge DEF Watch
<1>10. keeper' = "busy" => keeper_lock' /\ keeper_cnt' = 0
  <2>1. SUFFICES ASSUME keeper' = "busy" PROVE keeper_lock' /\ keeper_cnt' = 0
    OBVIOUS
  <2>2. keeper \in {"idle", "busy", "error"}
    BY DEF Inv, TypeOK
  <2>3. keeper = "busy"
    BY <1>4, <2>1, <2>2, MonitorEdge
  <2>4. int_rsp(ext).ack
    BY <1>3, <2>3, SystemResponse DEF Inv
  <2> QED
    BY <1>2, <2>3, <2>4, MonitorEdge
<1> QED
  BY <1>2, <1>3, <1>5, <1>6, <1>7, <1>8, <1>9, <1>10 DEF Closing, Quiet

\* Until then it reads, computes and writes, and no timeout strikes in between.
LEMMA LockedWaits ==
  ASSUME Inv, NEW ext \in Answers, Edge(ext), NEW h \in Harts, Served(h),
         cpu[h].lock, ~sys1_rsp(ext).ack
  PROVE  /\ arb_state' = h /\ Watch(h)' /\ ReadModifyWrite(h)'
         /\ cpu'[h].phase = "wait" /\ cpu'[h].access = Of(h) /\ cpu'[h].lock
         /\ IF rmw = "S_WRITE" /\ Of(h).addr \in Cells
              THEN /\ mem' = [mem EXCEPT ![Of(h).addr] =
                                Apply(Of(h).amoop, mem[Of(h).addr], Of(h).data)]
                   /\ rdata = mem[Of(h).addr] /\ rdata' = rdata /\ rmw' = "S_WRITE_WAIT"
              ELSE mem' = mem
         /\ rmw # "S_WRITE" => rmw' # "S_WRITE_WAIT" \/ rmw = "S_WRITE_WAIT"
         /\ Of(h).addr \in Cells => rmw # "S_WRITE_WAIT"
<1> DEFINE a == Of(h)
           in == a.addr \in Cells
<1>1. /\ "S_IDLE" \notin Harts /\ arb_state = h /\ Selected = h /\ ~Strobe /\ cpu[h].phase = "wait"
      /\ Watch(h) /\ ReadModifyWrite(h) /\ a \in setup.issued /\ Locks(a)
  BY Serves
<1>2. /\ arb_lock[h] /\ (keeper # "idle" => keeper_lock) /\ ~valid /\ ~sc_fail /\ ~sc_pend
      /\ rmw # "S_IDLE" /\ rmw \in RmwStates
  BY <1>1 DEF Watch, ReadModifyWrite, Inv, TypeOK
<1>3. /\ a.rw \in BOOLEAN /\ a.amo \in BOOLEAN /\ a.addr \in Addresses
      /\ ~IsSc(a) /\ a.amoop # LR /\ ~a.rw
  <2>1. /\ a.rw \in BOOLEAN /\ a.amo \in BOOLEAN /\ a.addr \in Addresses
        /\ a.amo => (a.rw <=> a.amoop = SC)
    BY <1>1, AccessFacts DEF Inv
  <2> QED
    BY <1>1, <2>1
      DEF Locks, IsSc, RmwCodes, LR, SC, SWAP, ADD, XOR, AND, OR, MINU, MAXU, MIN, MAX
<1>4. /\ Down <=> rmw = "S_WRITE"
      /\ ~Refuses
  BY <1>1, <1>3 DEF Down, Refuses, IsSc
<1>5. arb_state' = h /\ arb_lock' = arb_lock /\ setup' = setup
  BY <1>1, <1>2, ArbiterEdge
<1>6. cpu'[h].phase = "wait" /\ cpu'[h].access = a /\ cpu'[h].lock
  BY <1>1, HartsNext
<1>7. ~valid' /\ ~sc_fail' /\ ~sc_pend'
  BY <1>1, <1>2, <1>3, <1>4, AtomicsEdge
<1>8. rmw = "S_WRITE_WAIT" => ~amo_rsp(ext).ack
  BY HostResponse DEF Inv
<1>9. amo_rsp(ext).ack <=> (rden \/ wren \/ Answered(ext) \/ keeper = "error")
  BY <1>2, HostResponse, SystemResponse DEF Inv
<1>10. /\ cmd' = cmd /\ wdata' = wdata /\ cmd = a.amoop /\ wdata = a.data
       /\ rdata' = IF rmw = "S_READ_WAIT" THEN amo_rsp(ext).data ELSE rdata
       /\ alu_res' = Apply(cmd, rdata, wdata)
  BY <1>1, <1>2, AtomicsEdge DEF ReadModifyWrite
<1>11. rmw' = IF rmw = "S_READ_WAIT" THEN (IF amo_rsp(ext).ack THEN "S_EXECUTE" ELSE rmw)
              ELSE IF rmw = "S_EXECUTE" THEN "S_WRITE"
              ELSE "S_WRITE_WAIT"
  BY <1>2, <1>8, AtomicsEdge DEF RmwStates
<1>12. /\ wren' <=> rmw = "S_WRITE" /\ in
       /\ ~rden'
       /\ mem' = IF rmw = "S_WRITE" /\ in THEN [mem EXCEPT ![a.addr] = alu_res] ELSE mem
  BY <1>1, <1>4, MemoryEdge DEF Writing
<1>13. /\ xbus_pending' => xbus_pending \/ (setup.x_en /\ a.addr \in Externals)
       /\ xbus_pending' => xbus_locked'
  <2>1. xbus_pending => xbus_locked
    BY <1>1 DEF Watch
  <2> QED
    BY <1>1, <1>3, <2>1, MemoryEdge DEF Addresses
<1>14. keeper \in {"idle", "busy", "error"} /\ keeper_cnt \in Nat
  BY DEF Inv, TypeOK
<1>15. /\ keeper # "idle" => keeper' # "idle"
       /\ keeper' # "idle" => keeper_lock'
       /\ keeper = "idle" => (keeper' = "busy" => keeper_cnt' = 0 /\ (keeper_ext' => ~in))
       /\ keeper = "idle" => keeper' \in {"idle", "busy"}
       /\ keeper = "busy" => /\ keeper' = "error" => Gate!Expired
                             /\ keeper_ext' = keeper_ext
                             /\ int_rsp(ext).ack => keeper_cnt' = 0
                             /\ keeper_cnt' <= keeper_cnt + 1
  BY <1>1, <1>2, <1>14, MonitorEdge
<1>16. in => rmw # "S_WRITE_WAIT"
  BY <1>1, <1>8, <1>9 DEF ReadModifyWrite
<1>17. ASSUME in
       PROVE  /\ keeper' # "error" /\ (keeper' = "busy" => ~keeper_ext')
              /\ rmw = "S_READ_WAIT" => (keeper' = "busy" => keeper_cnt' = 0)
              /\ rmw = "S_EXECUTE" => (keeper' = "busy" => keeper_cnt' <= 1)
  <2>1. keeper # "error" /\ (keeper = "busy" => ~keeper_ext)
    BY <1>1, <1>17 DEF Watch
  <2>2. CASE keeper = "idle"
    BY <1>15, <1>17, <2>2
  <2>3. CASE keeper = "busy"
    <3>1. /\ rmw \in {"S_READ_WAIT", "S_EXECUTE"} => keeper_cnt = 0
          /\ rmw = "S_WRITE" => keeper_cnt <= 1
      BY <1>1, <1>17, <2>3 DEF ReadModifyWrite
    <3>2. keeper_cnt \in {0, 1}
      BY <1>2, <1>14, <1>16, <1>17, <3>1 DEF RmwStates
    <3>3. ~Gate!Expired
      BY <2>1, <2>3, <3>2, NotExpired
    <3>4. rmw = "S_READ_WAIT" => rden
      BY <1>1, <1>17 DEF ReadModifyWrite
    <3>5. rmw = "S_READ_WAIT" => int_rsp(ext).ack
      BY <3>4, SystemResponse DEF Inv
    <3> QED
      BY <1>14, <1>15, <2>1, <2>3, <3>1, <3>3, <3>5
  <2> QED
    BY <1>14, <2>1, <2>2, <2>3
<1>18. Watch(h)'
  <2>1. (arb_lock'[h] <=> cpu'[h].lock) /\ (keeper' # "idle" => (keeper_lock' <=> cpu'[h].lock))
    BY <1>2, <1>5, <1>6, <1>15
  <2>2. ~setup'.x_en /\ ~sc_fail' => keeper' # "idle"
    BY <1>1, <1>2, <1>5, <1>15 DEF Watch
  <2>3. xbus_pending' => /\ setup'.x_en /\ cpu'[h].access.addr \in Externals
                         /\ xbus_locked' <=> cpu'[h].lock
    BY <1>1, <1>5, <1>6, <1>13 DEF Watch
  <2>4. cpu'[h].access.addr \notin Cells => ~wren' /\ ~rden'
    BY <1>6, <1>12
  <2>5. in => ~xbus_pending'
    BY <1>1, <1>13, BusAssumption DEF Watch
  <2>6. cpu'[h].access.addr \in Cells =>
          keeper' # "error" /\ ~xbus_pending' /\ (keeper' = "busy" => ~keeper_ext')
    BY <1>6, <1>17, <2>5
  <2> QED
    BY <2>1, <2>2, <2>3, <2>4, <2>6 DEF Watch, Of
<1>19. ASSUME in, rmw = "S_READ_WAIT"
       PROVE  rmw' = "S_EXECUTE" /\ rdata' = mem'[a.addr]
  <2>1. rden /\ ~xbus_pending /\ mem_q = mem[a.addr]
    BY <1>1, <1>19 DEF ReadModifyWrite, Watch
  <2>2. amo_rsp(ext).data = mem_q
    BY <1>2, <2>1, HostResponse, SystemResponse DEF Inv
  <2> QED
    BY <1>9, <1>10, <1>11, <1>12, <1>19, <2>1, <2>2
<1>20. ASSUME in, rmw = "S_EXECUTE"
       PROVE  /\ rmw' = "S_WRITE" /\ rdata' = mem'[a.addr]
              /\ alu_res' = Apply(a.amoop, mem'[a.addr], a.data)
  <2>1. rdata = mem[a.addr]
    BY <1>1, <1>20 DEF ReadModifyWrite
  <2> QED
    BY <1>10, <1>11, <1>12, <1>20, <2>1
<1>21. ASSUME in, rmw = "S_WRITE"
       PROVE  /\ rmw' = "S_WRITE_WAIT" /\ rdata = mem[a.addr] /\ rdata' = rdata
              /\ alu_res = Apply(a.amoop, mem[a.addr], a.data)
  BY <1>1, <1>10, <1>11, <1>21 DEF ReadModifyWrite
<1>22. ReadModifyWrite(h)'
  <2>1. rmw' # "S_IDLE"
    BY <1>2, <1>11
  <2>2. in => /\ rmw' = "S_READ_WAIT" => FALSE
              /\ rmw' = "S_EXECUTE" => rmw = "S_READ_WAIT"
              /\ rmw' = "S_WRITE" => rmw = "S_EXECUTE"
              /\ rmw' = "S_WRITE_WAIT" => rmw = "S_WRITE"
    BY <1>2, <1>11, <1>16, <1>19, <1>20, <1>21 DEF RmwStates
  <2>3. in => /\ rmw' = "S_EXECUTE" => /\ ~rden' /\ ~wren' /\ rdata' = mem'[a.addr]
                                       /\ keeper' = "busy" => keeper_cnt' = 0
              /\ rmw' = "S_WRITE" => /\ ~rden' /\ ~wren' /\ rdata' = mem'[a.addr]
                                     /\ alu_res' = Apply(a.amoop, mem'[a.addr], a.data)
                                     /\ keeper' = "busy" => keeper_cnt' <= 1
              /\ rmw' = "S_WRITE_WAIT" => wren' /\ ~rden'
    BY <1>12, <1>17, <1>19, <1>20, <2>2
  <2> QED
    BY <1>6, <1>7, <1>10, <2>1, <2>2, <2>3 DEF ReadModifyWrite, Of
<1>23. IF rmw = "S_WRITE" /\ in
         THEN /\ mem' = [mem EXCEPT ![a.addr] = Apply(a.amoop, mem[a.addr], a.data)]
              /\ rdata = mem[a.addr] /\ rdata' = rdata /\ rmw' = "S_WRITE_WAIT"
         ELSE mem' = mem
  BY <1>12, <1>21
<1>24. rmw # "S_WRITE" => rmw' # "S_WRITE_WAIT" \/ rmw = "S_WRITE_WAIT"
  BY <1>2, <1>11 DEF RmwStates
<1> QED
  BY <1>5, <1>6, <1>16, <1>18, <1>22, <1>23, <1>24

\* What a hart receives is a word.
LEMMA DataInWord ==
  ASSUME TypeOK, NEW ext \in Answers
  PROVE  amo_rsp(ext).data \in Word
<1>1. 0 \in Word /\ 1 \in Word
  BY WordSize DEF Word
<1>2. /\ dmem_rsp.data \in Word
      /\ XGate!xbus_rsp(ext).data \in Word
  <2>1. dmem_rsp.data = IF rden THEN mem_q ELSE 0
    BY DEF dmem_rsp
  <2>2. XGate!xbus_rsp(ext).data = IF xbus_pending THEN ext.data ELSE 0
    BY DEF XGate!xbus_rsp
  <2>3. ext.data \in Word
    BY AnswerTypes
  <2> QED
    BY <1>1, <2>1, <2>2, <2>3 DEF TypeOK
<1>3. sys3_rsp(ext).data = Or(dmem_rsp.data, XGate!xbus_rsp(ext).data)
  <2> DEFINE r == int_rsp(ext)
  <2>1. r = [ack  |-> dmem_rsp.ack \/ XGate!xbus_rsp(ext).ack,
             err  |-> dmem_rsp.err \/ XGate!xbus_rsp(ext).err,
             data |-> Or(dmem_rsp.data, XGate!xbus_rsp(ext).data)]
    BY DEF int_rsp, Gate!int_rsp, Or, Gate!Or, And, Gate!And, Bitwise, Gate!Bitwise, Bit, Gate!Bit
  <2>2. sys3_rsp(ext) = [r EXCEPT !.ack = r.ack \/ keeper = "error",
                                  !.err = r.err \/ keeper = "error"]
    BY DEF sys3_rsp, Gate!gateway_rsp, Gate!keeper_err
  <2> HIDE DEF r
  <2> QED
    BY <2>1, <2>2
<1>4. sys3_rsp(ext).data \in Word
  BY <1>2, <1>3, BitwiseInWord
<1> QED
  BY <1>1, <1>4, HostResponse

\* Every register keeps its type.
LEMMA TypesNext ==
  ASSUME Inv, NEW ext \in Answers, Edge(ext)
  PROVE  TypeOK'
<1>1. TypeOK /\ Selected \in Harts
  BY SelectedHart DEF Inv
<1>2. /\ setup' \in Setups /\ cpu' \in [Harts -> Units]' /\ arb_sel_q' \in Harts
      /\ arb_state' \in Harts \union {"S_IDLE"}
      /\ arb_lock' \in [Harts -> BOOLEAN] /\ arb_pending' \in [Harts -> BOOLEAN]
  <2>1. setup' = setup /\ cpu' \in [Harts -> Units]
    BY ArbiterEdge
  <2>2. Units' = Units
    BY <2>1 DEF Units
  <2>3. arb_sel_q' \in Harts /\ arb_state' \in Harts \union {"S_IDLE"}
    BY <1>1, ArbiterEdge DEF TypeOK
  <2>4. \A h \in Harts : cpu[h].lock \in BOOLEAN
    BY <1>1 DEF TypeOK, Units
  <2>5. arb_lock' \in [Harts -> BOOLEAN]
    BY <1>1, <2>4, ArbiterEdge DEF TypeOK
  <2>6. arb_pending' \in [Harts -> BOOLEAN]
    BY ArbiterEdge
  <2> QED
    BY <1>1, <2>1, <2>2, <2>3, <2>5, <2>6 DEF TypeOK
<1>3. Strobe => /\ Of(Selected).data \in Word
                /\ cpu[Selected].lock => Of(Selected).amoop \in RmwCodes
  <2>1. SUFFICES ASSUME Strobe
                 PROVE  /\ Of(Selected).data \in Word
                        /\ cpu[Selected].lock => Of(Selected).amoop \in RmwCodes
    OBVIOUS
  <2>2. Of(Selected) \in setup.issued /\ (cpu[Selected].lock <=> Locks(Of(Selected)))
    BY <1>1, <2>1, WhoAsks DEF Inv, UnitInv
  <2> QED
    BY <1>1, <2>2, AccessFacts DEF Locks
<1>4. /\ rmw' \in RmwStates /\ cmd' \in RmwCodes /\ rdata' \in Word /\ wdata' \in Word
      /\ alu_res' \in Word
  <2>1. rmw' \in RmwStates
    BY <1>1, AtomicsEdge DEF TypeOK, RmwStates
  <2>2. cmd' \in RmwCodes /\ wdata' \in Word
    BY <1>1, <1>3, AtomicsEdge DEF TypeOK
  <2>3. rdata' \in Word
    BY <1>1, DataInWord, AtomicsEdge DEF TypeOK
  <2>4. alu_res' \in Word
    BY <1>1, AluComputes, AtomicsEdge DEF TypeOK
  <2> QED
    BY <2>1, <2>2, <2>3, <2>4
<1>5. valid' \in BOOLEAN /\ sc_fail' \in BOOLEAN /\ sc_pend' \in BOOLEAN
  <2>1. valid' \in BOOLEAN
    <3>1. Rvs!rvs_control(amo_req)
      BY Zenon DEF Edge
    <3>2. Rvs!lr(amo_req) \in BOOLEAN
      <4>1. CASE amo_req.amo
        BY <4>1 DEF Rvs!lr
      <4>2. CASE ~amo_req.amo
        BY <4>2 DEF Rvs!lr
      <4> QED
        BY <4>1, <4>2
    <3>3. valid' = IF amo_req.stb THEN Rvs!lr(amo_req) ELSE valid
      BY <3>1 DEF Rvs!rvs_control
    <3> QED
      BY <1>1, <3>2, <3>3 DEF TypeOK
  <2>2. sc_fail' \in BOOLEAN
    BY AtomicsEdge
  <2>3. sc_pend' \in BOOLEAN
    BY <1>1, AtomicsEdge DEF TypeOK
  <2> QED
    BY <2>1, <2>2, <2>3
<1>6. keeper' \in {"idle", "busy", "error"} /\ keeper_lock' \in BOOLEAN /\ keeper_ext' \in BOOLEAN
      /\ keeper_cnt' \in Nat
  <2>1. cpu[Selected].lock \in BOOLEAN
    BY <1>1 DEF TypeOK, Units
  <2>2. keeper \in {"idle", "busy", "error"} /\ keeper_lock \in BOOLEAN /\ keeper_ext \in BOOLEAN
        /\ keeper_cnt \in Nat
    BY <1>1 DEF TypeOK
  <2> QED
    BY <2>1, <2>2, MonitorEdge
<1>7. mem' \in [Cells -> Word] /\ mem_q' \in Word
  <2>1. Down /\ ~Writing => Of(Selected).data \in Word
    BY <1>3 DEF Down, Writing
  <2>2. Down => (IF Writing THEN alu_res ELSE Of(Selected).data) \in Word
    BY <1>1, <2>1 DEF TypeOK
  <2>3. mem' \in [Cells -> Word]
    BY <1>1, <2>2, MemoryEdge DEF TypeOK
  <2>4. mem_q' \in Word
    BY <1>1, MemoryEdge DEF TypeOK
  <2> QED
    BY <2>3, <2>4
<1>8. wren' \in BOOLEAN /\ rden' \in BOOLEAN /\ xbus_pending' \in BOOLEAN
  BY MemoryEdge
<1>9. xbus_locked' \in BOOLEAN
  <2>1. cpu[Selected].lock \in BOOLEAN
    BY <1>1 DEF TypeOK, Units
  <2> QED
    BY <1>1, <2>1, MemoryEdge DEF TypeOK
<1> QED
  BY <1>2, <1>4, <1>5, <1>6, <1>7, <1>8, <1>9 DEF TypeOK

\* The invariant survives every clock edge.
LEMMA Stepped ==
  ASSUME Inv, NEW ext \in Answers, Edge(ext)
  PROVE  Inv'
<1>0. "S_IDLE" \notin Harts
  BY BusAssumption
<1>1. Idle' /\ Serving'
  <2>1. CASE arb_state = "S_IDLE" /\ ~Strobe
    BY <1>0, <2>1, IdleStays DEF Serving
  <2>2. CASE arb_state = "S_IDLE" /\ Strobe
    <3>1. PICK h \in Harts : h = Selected
      BY SelectedHart DEF Inv
    <3>2. arb_state' = h /\ cpu'[h].phase = "wait"
      BY <2>2, <3>1, Grants
    <3>3. /\ Watch(h)' /\ (cpu'[h].lock <=> cpu[h].lock)
          /\ cpu[h].lock => ReadModifyWrite(h)'
          /\ ~cpu[h].lock => Single(h)'
      BY <2>2, <3>1, Grants
    <3>4. Serving'
      BY <3>2, <3>3 DEF Serving
    <3> QED
      BY <1>0, <3>2, <3>4 DEF Idle
  <2>3. ASSUME NEW h \in Harts, arb_state = h, cpu[h].phase # "wait"
        PROVE  Idle' /\ Serving'
    BY <1>0, <2>3, Closes DEF Serving
  <2>4. ASSUME NEW h \in Harts, Served(h), ~cpu[h].lock
        PROVE  Idle' /\ Serving'
    <3>1. CASE sys1_rsp(ext).ack
      BY <1>0, <2>4, <3>1, SingleEnds DEF Serving
    <3>2. CASE ~sys1_rsp(ext).ack
      <4>1. /\ arb_state' = h /\ Watch(h)' /\ Single(h)'
            /\ cpu'[h].phase = "wait" /\ ~cpu'[h].lock
        BY <2>4, <3>2, SingleWaits
      <4> QED
        BY <1>0, <4>1 DEF Serving, Idle
    <3> QED
      BY <3>1, <3>2
  <2>5. ASSUME NEW h \in Harts, Served(h), cpu[h].lock
        PROVE  Idle' /\ Serving'
    <3>1. CASE sys1_rsp(ext).ack
      <4>1. arb_state' = h /\ cpu'[h].phase # "wait" /\ Closing(h)'
        BY <2>5, <3>1, LockedEnds
      <4> QED
        BY <1>0, <4>1 DEF Serving, Idle
    <3>2. CASE ~sys1_rsp(ext).ack
      <4>1. /\ arb_state' = h /\ Watch(h)' /\ ReadModifyWrite(h)'
            /\ cpu'[h].phase = "wait" /\ cpu'[h].lock
        BY <2>5, <3>2, LockedWaits
      <4> QED
        BY <1>0, <4>1 DEF Serving, Idle
    <3> QED
      BY <3>1, <3>2
  <2> QED
    BY <2>1, <2>2, <2>3, <2>4, <2>5 DEF Inv, TypeOK, Served
<1> QED
  BY <1>1, TypesNext, UnitsNext, TurnsNext DEF Inv

\* The invariant holds after a reset.
LEMMA Started == Init => Inv
<1> SUFFICES ASSUME Init PROVE Inv
  OBVIOUS
<1>1. Harts = Arb!Ports /\ Harts = {"a", "b"} /\ 0 \in Word
  BY BusAssumption, WordSize DEF Arb!Ports, Word
<1>2. Running \in Units /\ Running.phase = "run" /\ ~Running.lock
  BY DEF Running, Units, Phases
<1>3. \A h \in Harts : cpu[h] = Running
  BY DEF Init
<1>4. TypeOK
  <2>1. setup \in Setups /\ cpu \in [Harts -> Units] /\ mem \in [Cells -> Word]
        /\ mem_q \in Word /\ wren \in BOOLEAN /\ rden \in BOOLEAN
    BY <1>1, <1>2 DEF Init
  <2>2. arb_state \in Harts \union {"S_IDLE"} /\ arb_sel_q \in Harts
        /\ arb_lock \in [Harts -> BOOLEAN] /\ arb_pending \in [Harts -> BOOLEAN]
    BY <1>1 DEF Init, Arb!SwitchInit
  <2>3. /\ rmw \in RmwStates /\ cmd \in RmwCodes
        /\ rdata \in Word /\ wdata \in Word /\ alu_res \in Word
    BY <1>1 DEF Init, Rmw!RmwInit, RmwStates, RmwCodes, Rmw!SWAP, SWAP
  <2>4. /\ valid \in BOOLEAN /\ sc_fail \in BOOLEAN /\ sc_pend \in BOOLEAN
        /\ keeper \in {"idle", "busy", "error"} /\ keeper_lock \in BOOLEAN /\ keeper_ext \in BOOLEAN
        /\ keeper_cnt \in Nat /\ xbus_pending \in BOOLEAN /\ xbus_locked \in BOOLEAN
    BY DEF Init, Rvs!RvsInit, Gate!GatewayInit, XGate!XbusInit
  <2> QED
    BY <2>1, <2>2, <2>3, <2>4 DEF TypeOK
<1>5. UnitInv
  BY <1>2, <1>3 DEF UnitInv
<1>6. arb_state = "S_IDLE" /\ \A h \in Harts : ~arb_pending[h]
  BY <1>1 DEF Init, Arb!SwitchInit
<1>7. Turns /\ Serving
  BY <1>1, <1>2, <1>3, <1>6 DEF Turns, Serving
<1>8. Idle
  BY DEF Init, Idle, Quiet, Rmw!RmwInit, Rvs!RvsInit, Gate!GatewayInit, XGate!XbusInit
<1> QED
  BY <1>4, <1>5, <1>7, <1>8 DEF Inv

\* It holds as long as no register changes.
LEMMA Unmoved == ASSUME Inv, UNCHANGED vars PROVE Inv'
  BY DEF Inv, TypeOK, UnitInv, Turns, Idle, Serving, Closing, Watch, Single, ReadModifyWrite, Quiet,
         Units, Of, IsSc, Locks, vars, arbVars

\* Every reachable state of the fabric satisfies the invariant.
THEOREM FabricInvariant == Spec => []Inv
<1>1. Inv /\ [Next]_vars => Inv'
  BY Stepped, Unmoved DEF Next
<1> QED
  BY <1>1, Started, PTL DEF Spec

\* Without an external bus the monitor watches every access of the hart being served
\* (WatchedInside), so that none can hang unnoticed.
THEOREM AccessesWatched == Spec => []WatchedInside
<1>1. Inv => WatchedInside
  <2> SUFFICES ASSUME Inv, ~setup.x_en, NEW h \in Harts, Served(h)
               PROVE  sc_fail \/ keeper # "idle"
    BY DEF WatchedInside, EveryAccessIsWatched
  <2> QED
    BY Serves DEF Watch
<1> QED
  BY <1>1, FabricInvariant, PTL

-------------------------------------------------------------------------------
(* The fabric implements the atomic memory.                                  *)

Answer(d) == Atomic!Answer(d)

\* How far the access of a hart is, by the registers of the controllers alone.
View(h) ==
  IF ~Served(h)
    THEN IF cpu[h].phase \in {"strobe", "wait"} THEN Atomic!Asked(Of(h)) ELSE Atomic!Free
  ELSE IF sc_fail THEN Atomic!Performed(Of(h), Answer(1))
  ELSE IF Of(h).addr \notin Cells THEN Atomic!Open(Of(h))
  ELSE IF ~cpu[h].lock
    THEN Atomic!Performed(Of(h), Answer(IF Of(h).rw THEN 0 ELSE mem_q))
  ELSE IF rmw = "S_WRITE_WAIT" THEN Atomic!Performed(Of(h), Answer(rdata))
  ELSE Atomic!Asked(Of(h))

\* The answer to an access that has taken effect is due, whatever the external bus says.
LEMMA AnswerDue ==
  ASSUME Inv, NEW ext \in Answers, NEW h \in Harts, Served(h)
  PROVE  /\ sc_fail => core_rsp(ext)[h] = Answer(1)
         /\ ~sc_fail /\ Of(h).addr \in Cells /\ ~cpu[h].lock =>
              core_rsp(ext)[h] = Answer(IF Of(h).rw THEN 0 ELSE mem_q)
         /\ Of(h).addr \in Cells /\ cpu[h].lock /\ rmw = "S_WRITE_WAIT" =>
              core_rsp(ext)[h] = Answer(rdata)
<1> DEFINE r == core_rsp(ext)[h]
<1>1. /\ arb_sel_q = h /\ Watch(h) /\ Of(h) \in setup.issued
      /\ IF cpu[h].lock THEN ReadModifyWrite(h) ELSE Single(h)
  BY Serves
<1>2. /\ r.ack <=> sys1_rsp(ext).ack
      /\ r.err <=> sys3_rsp(ext).err /\ rmw \in {"S_IDLE", "S_WRITE_WAIT"}
      /\ r.data = IF rmw = "S_IDLE" THEN amo_rsp(ext).data ELSE rdata
      /\ r.ack \in BOOLEAN /\ r.err \in BOOLEAN
      /\ r = [ack |-> r.ack, err |-> r.err, data |-> r.data]
  BY <1>1, HostResponse DEF Inv
<1>3. /\ amo_rsp(ext).ack <=> (rden \/ wren \/ Answered(ext) \/ keeper = "error" \/ sc_fail)
      /\ sys3_rsp(ext).err <=> ((xbus_pending /\ ext.err) \/ keeper = "error")
      /\ sys1_rsp(ext).ack <=> (amo_rsp(ext).ack /\ rmw \in {"S_IDLE", "S_WRITE_WAIT"})
  BY SystemResponse, HostResponse DEF Inv
<1> HIDE DEF r
<1>4. ASSUME NEW d, r.ack, ~r.err, r.data = d PROVE r = Answer(d)
  BY <1>2, <1>4 DEF Answer, Atomic!Answer
<1>5. ASSUME sc_fail PROVE r = Answer(1)
  <2>1. Single(h)
    BY <1>1, <1>5 DEF ReadModifyWrite
  <2>2. rmw = "S_IDLE" /\ keeper = "idle" /\ ~xbus_pending
    BY <1>5, <2>1 DEF Single
  <2>3. amo_rsp(ext).data = 1
    BY <1>5, HostResponse DEF Inv
  <2> QED
    BY <1>2, <1>3, <1>4, <1>5, <2>2, <2>3
<1>6. ASSUME ~sc_fail, Of(h).addr \in Cells, ~cpu[h].lock
      PROVE  r = Answer(IF Of(h).rw THEN 0 ELSE mem_q)
  <2>1. /\ rmw = "S_IDLE" /\ keeper # "error" /\ ~xbus_pending
        /\ sc_pend <=> IsSc(Of(h))
        /\ rden <=> ~Of(h).rw
        /\ wren <=> Of(h).rw
    BY <1>1, <1>6 DEF Single, Watch
  <2>2. IsSc(Of(h)) => Of(h).rw
    BY <1>1, AccessFacts DEF IsSc, Inv
  <2>3. sys3_rsp(ext).data = IF rden THEN mem_q ELSE 0
    BY <2>1, SystemResponse DEF Inv
  <2>4. amo_rsp(ext).data = IF sc_pend THEN 0 ELSE sys3_rsp(ext).data
    BY <1>6, HostResponse DEF Inv
  <2>5. r.data = IF Of(h).rw THEN 0 ELSE mem_q
    BY <1>2, <2>1, <2>2, <2>3, <2>4
  <2>6. r.ack /\ ~r.err
    BY <1>2, <1>3, <2>1
  <2> QED
    BY <1>4, <2>5, <2>6
<1>7. ASSUME Of(h).addr \in Cells, cpu[h].lock, rmw = "S_WRITE_WAIT"
      PROVE  r = Answer(rdata)
  <2>1. keeper # "error" /\ ~xbus_pending /\ wren
    BY <1>1, <1>7 DEF ReadModifyWrite, Watch
  <2> QED
    BY <1>2, <1>3, <1>4, <1>7, <2>1
<1> QED
  BY <1>5, <1>6, <1>7 DEF r

\* That is what Progress says.
LEMMA Views == Inv => \A h \in Harts : Progress(h) = View(h)
<1> SUFFICES ASSUME Inv, NEW h \in Harts PROVE Progress(h) = View(h)
  OBVIOUS
<1>1. CASE ~Served(h)
  BY <1>1 DEF Progress, View, TookEffect, Of, Atomic!Asked, Atomic!Free
<1>2. CASE Served(h)
  <2>1. IF cpu[h].lock THEN rmw # "S_IDLE" /\ ~sc_fail ELSE rmw = "S_IDLE"
    BY <1>2, Serves DEF ReadModifyWrite, Single
  <2>2. TookEffect(h) <=>
          (Of(h).addr \in Cells => rmw \in {"S_IDLE", "S_WRITE_WAIT"})
    BY <1>2 DEF TookEffect, Of
  <2>3. rsp_terminate_c \in Answers
    BY DEF Answers
  <2>4. cpu[h].phase = "wait"
    BY <1>2 DEF Served
  <2>5. Progress(h) =
          IF TookEffect(h)
            THEN IF Of(h).addr \in Cells \/ sc_fail
              THEN Atomic!Performed(Of(h), core_rsp(rsp_terminate_c)[h])
              ELSE Atomic!Open(Of(h))
            ELSE Atomic!Asked(Of(h))
    BY <2>4 DEF Progress, Of, Atomic!Performed, Atomic!Open, Atomic!Asked
  <2>6. CASE sc_fail
    <3>1. TookEffect(h) /\ core_rsp(rsp_terminate_c)[h] = Answer(1)
      BY <1>2, <2>1, <2>2, <2>3, <2>6, AnswerDue
    <3> QED
      BY <1>2, <2>5, <2>6, <3>1 DEF View
  <2>7. CASE ~sc_fail /\ Of(h).addr \notin Cells
    BY <1>2, <2>2, <2>5, <2>7 DEF View
  <2>8. CASE ~sc_fail /\ Of(h).addr \in Cells /\ ~cpu[h].lock
    <3>1. TookEffect(h)
          /\ core_rsp(rsp_terminate_c)[h] = Answer(IF Of(h).rw THEN 0 ELSE mem_q)
      BY <1>2, <2>1, <2>2, <2>3, <2>8, AnswerDue
    <3> QED
      BY <1>2, <2>5, <2>8, <3>1 DEF View
  <2>9. CASE ~sc_fail /\ Of(h).addr \in Cells /\ cpu[h].lock
    <3>1. TookEffect(h) <=> rmw = "S_WRITE_WAIT"
      BY <2>1, <2>2, <2>9
    <3>2. rmw = "S_WRITE_WAIT" => core_rsp(rsp_terminate_c)[h] = Answer(rdata)
      BY <1>2, <2>3, <2>9, AnswerDue
    <3> QED
      BY <1>2, <2>5, <2>9, <3>1, <3>2 DEF View
  <2> QED
    BY <2>6, <2>7, <2>8, <2>9
<1> QED
  BY <1>1, <1>2

\* And it is after a step.
LEMMA ViewsNext == Inv' => \A h \in Harts : Progress(h)' = View(h)'
<1> DEFINE P == \A h \in Harts : Progress(h) = View(h)
<1>1. Inv => P
  BY Views
<1>2. Inv' => P'
  BY <1>1, PTL
<1> QED
  BY <1>2

\* A hart that is neither served nor granted asks, waits for its turn or does nothing.
LEMMA OthersAreLocal ==
  ASSUME Inv, Inv', NEW ext \in Answers, Edge(ext), NEW h \in Harts, ~Served(h),
         ~(arb_state = "S_IDLE" /\ Strobe /\ h = Selected)
  PROVE  Atomic!Local(h)
<1> DEFINE op == [g \in Harts |-> Progress(g)]
<1>0. "S_IDLE" \notin Harts
  BY BusAssumption
<1>1. op[h] = View(h) /\ op'[h] = View(h)'
  <2>1. op[h] = Progress(h) /\ op'[h] = Progress(h)'
    OBVIOUS
  <2> QED
    BY <2>1, Views, ViewsNext
<1>2. View(h) = IF cpu[h].phase \in {"strobe", "wait"} THEN Atomic!Asked(Of(h)) ELSE Atomic!Free
  BY DEF View
<1>3. got'[h] = rsp_terminate_c
  <2>1. arb_state = h => cpu[h].phase = "run"
    BY DEF Inv, Serving, Closing, Served
  <2>2. cpu[h].phase \in {"strobe", "wait"} => ~core_rsp(ext)[h].ack
    BY <2>1, NoAnswer
  <2> QED
    BY <2>2, ArbiterEdge
<1>4. cpu'[h].phase = "wait" => arb_state' # h
  <2>1. CASE arb_state = h
    <3>1. cpu[h].phase = "run"
      BY <2>1 DEF Inv, Serving, Closing, Served
    <3> QED
      BY <3>1, HartsNext
  <2>2. CASE arb_state # h
    BY <1>0, <2>2, ArbiterEdge
  <2> QED
    BY <2>1, <2>2
<1>5. View(h)' = IF cpu'[h].phase \in {"strobe", "wait"}
                   THEN Atomic!Asked(cpu'[h].access) ELSE Atomic!Free
  BY <1>4 DEF View, Served, Of
<1>6. cpu[h].phase \in {"run", "strobe", "wait", "fault"}
  BY DEF Inv, TypeOK, Units, Phases
<1>7. CASE cpu[h].phase \in {"strobe", "wait"}
  <2>1. arb_state # h
    BY <1>7 DEF Inv, Serving, Closing, Served
  <2>2. cpu'[h].phase = "wait" /\ cpu'[h].access = Of(h)
    BY <1>7, <2>1, HartsNext
  <2>3. op'[h] = op[h]
    BY <1>1, <1>2, <1>5, <1>7, <2>2
  <2> QED
    BY <1>3, <2>3 DEF Atomic!Local, Atomic!Stay, Atomic!rsp_terminate_c, rsp_terminate_c
<1>8. CASE cpu[h].phase \in {"run", "fault"} /\ cpu'[h].phase \in {"run", "fault"}
  <2>1. op'[h] = op[h]
    BY <1>1, <1>2, <1>5, <1>8
  <2> QED
    BY <1>3, <2>1 DEF Atomic!Local, Atomic!Stay, Atomic!rsp_terminate_c, rsp_terminate_c
<1>9. CASE cpu[h].phase \in {"run", "fault"} /\ cpu'[h].phase = "strobe"
  <2>1. op[h] = Atomic!Free
    BY <1>1, <1>2, <1>9
  <2>2. op'[h] = Atomic!Asked(cpu'[h].access)
    BY <1>1, <1>5, <1>9
  <2>3. cpu'[h].access \in Accesses
    <3>1. cpu'[h].access \in setup'.issued /\ setup' = setup
      BY <1>9, HartsNext, ArbiterEdge
    <3> QED
      BY <3>1, SetupAssumption DEF Inv, TypeOK
  <2> QED
    BY <1>3, <2>1, <2>2, <2>3 DEF Atomic!Local, Atomic!Ask, Atomic!rsp_terminate_c, rsp_terminate_c
<1>10. cpu[h].phase \in {"run", "fault"} => cpu'[h].phase \in {"run", "fault", "strobe"}
  BY HartsNext
<1> QED
  BY <1>6, <1>7, <1>8, <1>9, <1>10

\* The two modules say the same of an access.
LEMMA SameAccess ==
  ASSUME NEW a
  PROVE  /\ Atomic!IsAmo(a) <=> Locks(a)
         /\ Atomic!IsSc(a) <=> IsSc(a)
         /\ Atomic!IsLr(a) <=> a.amo /\ a.amoop = LR
         /\ Atomic!Refused(a) <=> IsSc(a) /\ ~valid
         /\ Atomic!Internal(a) <=> a.addr \in Cells
<1>1. Atomic!RmwCodes = RmwCodes /\ Atomic!LR = LR /\ Atomic!SC = SC
  BY DEF Atomic!RmwCodes, RmwCodes, Atomic!LR, LR, Atomic!SC, SC,
         Atomic!SWAP, SWAP, Atomic!ADD, ADD, Atomic!XOR, XOR, Atomic!AND, AND, Atomic!OR, OR, Atomic!MINU, MINU,
         Atomic!MAXU, MAXU,
         Atomic!MIN, MIN, Atomic!MAX, MAX
<1> QED
  BY <1>1 DEF Atomic!IsAmo, Locks, Atomic!IsSc, IsSc, Atomic!IsLr, Atomic!Refused, Atomic!Internal

\* The operations too are those of the fabric's module.
LEMMA SameOperations ==
  ASSUME NEW c, NEW v, NEW w
  PROVE  Atomic!Apply(c, v, w) = Apply(c, v, w)
<1>1. Atomic!And(v, w) = And(v, w) /\ Atomic!ExclusiveOr(v, w) = ExclusiveOr(v, w)
  BY DEF Atomic!And, And, Atomic!ExclusiveOr, ExclusiveOr, Atomic!Bitwise, Bitwise, Atomic!Bit, Bit
<1>2. Atomic!Or(v, w) = Or(v, w)
  BY <1>1 DEF Atomic!Or, Or
<1>3. Atomic!SignedValue(v) = SignedValue(v) /\ Atomic!SignedValue(w) = SignedValue(w)
  BY DEF Atomic!SignedValue, SignedValue
<1> QED
  BY <1>1, <1>2, <1>3
    DEF Atomic!Apply, Apply, Atomic!SWAP, SWAP, Atomic!ADD, ADD,
        Atomic!XOR, XOR, Atomic!AND, AND, Atomic!OR, OR, Atomic!MINU, MINU,
         Atomic!MAXU, MAXU,
        Atomic!MIN, MIN, Atomic!MAX, MAX

\* What a step of the memory needs of the fabric's.
LEMMA Performs ==
  ASSUME NEW h \in Harts, NEW a,
         Progress(h) = Atomic!Asked(a), Progress(h)' = Atomic!Effect(a),
         mem' = Atomic!After(a), valid' <=> a.amo /\ a.amoop = LR, valid' \in BOOLEAN,
         got'[h] = rsp_terminate_c
  PROVE  Atomic!Perform(h)
<1>1. Atomic!Asked(a).status = "asked" /\ Atomic!Asked(a).access = a
  BY DEF Atomic!Asked
<1>2. valid' = Atomic!IsLr(a)
  <2>1. Atomic!IsLr(a) \in BOOLEAN
    <3>1. CASE a.amo
      BY <3>1 DEF Atomic!IsLr
    <3>2. CASE ~a.amo
      BY <3>2 DEF Atomic!IsLr
    <3> QED
      BY <3>1, <3>2
  <2> QED
    BY <2>1, SameAccess
<1> QED
  BY <1>1, <1>2 DEF Atomic!Perform, Atomic!rsp_terminate_c, rsp_terminate_c

\* Steps of a hart that leave the memory alone: it waits,
LEMMA Stays ==
  ASSUME NEW h \in Harts, Progress(h)' = Progress(h), got'[h] = rsp_terminate_c
  PROVE  Atomic!Local(h)
  BY DEF Atomic!Local, Atomic!Stay, Atomic!rsp_terminate_c, rsp_terminate_c

\* it gets the result of an access that has taken effect,
LEMMA RepliesResult ==
  ASSUME NEW h \in Harts, NEW a, NEW r, Progress(h) = Atomic!Performed(a, r),
         Progress(h)' = Atomic!Free, got'[h] = r
  PROVE  Atomic!Local(h)
<1>1. Atomic!Performed(a, r).status = "performed" /\ Atomic!Performed(a, r).result = r
  BY DEF Atomic!Performed
<1> QED
  BY <1>1 DEF Atomic!Local, Atomic!Reply

\* or the answer to one outside the memory.
LEMMA RepliesOpen ==
  ASSUME NEW h \in Harts, NEW a, Progress(h) = Atomic!Open(a), Progress(h)' = Atomic!Free,
         got'[h] \in Atomic!Responses,
         a.addr \in Holes \union (IF setup.x_en THEN {} ELSE Externals) => got'[h].err
  PROVE  Atomic!Local(h)
<1>1. Atomic!Open(a).status = "open" /\ Atomic!Open(a).access = a
  BY DEF Atomic!Open
<1> QED
  BY <1>1 DEF Atomic!Local, Atomic!Reply

\* A granted access takes effect, unless it is a read-modify-write of the memory: that one only
\* takes the reservation.
LEMMA GrantStep ==
  ASSUME Inv, Inv', NEW ext \in Answers, Edge(ext), arb_state = "S_IDLE", Strobe,
         NEW h \in Harts, h = Selected
  PROVE  Atomic!Perform(h) \/ (Atomic!Local(h) /\ mem' = mem /\ Atomic!Reservation)
<1> DEFINE a == Of(h)
           Modifies == cpu[h].lock /\ a.addr \in Cells
<1>1. /\ arb_state' = h /\ cpu[h].phase \in {"strobe", "wait"} /\ cpu'[h].phase = "wait"
      /\ cpu'[h].access = a /\ (cpu'[h].lock <=> cpu[h].lock)
      /\ cpu[h].lock => ReadModifyWrite(h)'
      /\ ~cpu[h].lock => Single(h)'
  BY Grants
<1>2. ~Served(h) /\ Served(h)'
  <2>1. arb_state # h
    BY BusAssumption
  <2> QED
    BY <1>1, <2>1 DEF Served
<1>3. rmw = "S_IDLE" /\ ~Writing
  BY DEF Inv, Idle, Quiet, Writing
<1>4. /\ a \in setup.issued /\ (cpu[h].lock <=> Locks(a)) /\ a.rw \in BOOLEAN /\ a.amo \in BOOLEAN
      /\ a.amo => (a.rw <=> a.amoop = SC)
  BY <1>1, AccessFacts DEF Inv, UnitInv
<1>5. Locks(a) => a.amo /\ ~IsSc(a) /\ a.amoop # LR /\ ~a.rw
  BY <1>4 DEF Locks, IsSc, RmwCodes, LR, SC, SWAP, ADD, XOR, AND, OR, MINU, MAXU, MIN, MAX
<1>6. Refuses <=> IsSc(a) /\ ~valid
  BY DEF Refuses, IsSc
<1>7. /\ valid' = (a.amo /\ a.amoop = LR)
      /\ sc_fail' <=> Refuses
      /\ cpu[h].lock => rmw' = "S_READ_WAIT"
  BY <1>3, AtomicsEdge
<1>8. got'[h] = rsp_terminate_c
  <2>1. ~core_rsp(ext)[h].ack
    BY <1>1, BusAssumption, NoAnswer
  <2> QED
    BY <2>1, ArbiterEdge
<1>9. Progress(h) = Atomic!Asked(a)
  BY <1>1, <1>2, Views DEF View
<1>10. Down <=> ~Refuses
  BY DEF Down
<1>11. mem \in [Cells -> Word]
  BY DEF Inv, TypeOK
<1>12. CASE ~Modifies
  <2>1. mem' = Atomic!After(a)
    <3>1. Atomic!After(a) = IF a.addr \in Cells /\ ~Refuses
                              THEN [mem EXCEPT ![a.addr] = Atomic!NewWord(a, mem[a.addr])] ELSE mem
      BY <1>6, SameAccess DEF Atomic!After
    <3>2. a.addr \in Cells =>
            Atomic!NewWord(a, mem[a.addr]) = IF a.rw THEN a.data ELSE mem[a.addr]
      BY <1>4, <1>12, SameAccess DEF Atomic!NewWord
    <3>3. mem' = IF ~Refuses /\ a.addr \in Cells /\ a.rw
                   THEN [mem EXCEPT ![a.addr] = a.data] ELSE mem
      BY <1>3, <1>10, MemoryEdge
    <3>4. ASSUME a.addr \in Cells, ~Refuses, a.rw PROVE mem' = Atomic!After(a)
      BY <3>1, <3>2, <3>3, <3>4
    <3>5. ASSUME a.addr \in Cells, ~Refuses, ~a.rw PROVE mem' = Atomic!After(a)
      <4>1. mem' = mem
        BY <3>3, <3>5
      <4>2. Atomic!After(a) = [mem EXCEPT ![a.addr] = mem[a.addr]]
        BY <3>1, <3>2, <3>5
      <4> QED
        BY <1>11, <4>1, <4>2
    <3>6. ASSUME a.addr \notin Cells \/ Refuses PROVE mem' = Atomic!After(a)
      BY <3>1, <3>3, <3>6
    <3> QED
      BY <3>4, <3>5, <3>6
  <2>2. Progress(h)' = Atomic!Effect(a)
    <3>1. Atomic!Effect(a) =
            IF Refuses THEN Atomic!Performed(a, Answer(1))
            ELSE IF a.addr \notin Cells THEN Atomic!Open(a)
            ELSE Atomic!Performed(a, Answer(IF a.rw THEN 0 ELSE mem[a.addr]))
      BY <1>6, SameAccess DEF Atomic!Effect, Answer
    <3>2. Progress(h)' =
            IF sc_fail' THEN Atomic!Performed(a, Answer(1))
            ELSE IF a.addr \notin Cells THEN Atomic!Open(a)
            ELSE Atomic!Performed(a, Answer(IF a.rw THEN 0 ELSE mem_q'))
      BY <1>1, <1>2, <1>12, ViewsNext DEF View, Of, Answer
    <3>3. ~Refuses /\ a.addr \in Cells => mem_q' = mem[a.addr]
      BY <1>10, MemoryEdge
    <3> QED
      BY <1>7, <3>1, <3>2, <3>3
  <2> QED
    BY <1>7, <1>8, <1>9, <2>1, <2>2, Performs
<1>13. CASE Modifies
  <2>1. Progress(h)' = Atomic!Asked(a)
    <3>1. ~sc_fail'
      BY <1>4, <1>5, <1>6, <1>7, <1>13
    <3> QED
      BY <1>1, <1>2, <1>7, <1>13, <3>1, ViewsNext DEF View, Of
  <2>2. Atomic!Local(h)
    BY <1>8, <1>9, <2>1, Stays
  <2>3. mem' = mem
    BY <1>3, <1>4, <1>5, <1>13, MemoryEdge
  <2>4. Atomic!Reservation
    <3>1. Atomic!Asked(a).status = "asked" /\ Atomic!Asked(a).access = a
      BY DEF Atomic!Asked
    <3>2. Atomic!IsAmo(a) /\ valid' = FALSE
      BY <1>4, <1>5, <1>7, <1>13, SameAccess
    <3> QED
      BY <1>9, <3>1, <3>2 DEF Atomic!Reservation
  <2> QED
    BY <2>2, <2>3, <2>4
<1> QED
  BY <1>12, <1>13

\* The answer to an access outside the memory, where the external bus or the monitor gives it.
LEMMA OpenAnswer ==
  ASSUME Inv, NEW ext \in Answers, NEW h \in Harts, Served(h), sys1_rsp(ext).ack,
         ~sc_fail, Of(h).addr \notin Cells
  PROVE  /\ core_rsp(ext)[h] \in Atomic!Responses
         /\ Of(h).addr \in Holes \union (IF setup.x_en THEN {} ELSE Externals) =>
              core_rsp(ext)[h].err
<1>1. arb_sel_q = h /\ Watch(h)
  BY Serves
<1>2. TypeOK /\ Atomic!Word = Word
  BY DEF Inv, Atomic!Word, Word
<1>3. core_rsp(ext)[h].data \in Word
  BY <1>2, DataInWord, HostResponse DEF TypeOK
<1>4. core_rsp(ext)[h].ack = TRUE /\ core_rsp(ext)[h].err \in BOOLEAN
  BY <1>1, <1>2, HostResponse
<1>5. core_rsp(ext)[h] \in [ack : {TRUE}, err : BOOLEAN, data : Word]
  <2>1. core_rsp(ext)[h] = [ack |-> core_rsp(ext)[h].ack, err |-> core_rsp(ext)[h].err,
                            data |-> core_rsp(ext)[h].data]
    BY <1>2, HostResponse
  <2> QED
    BY <1>3, <1>4, <2>1
<1>6. ASSUME Of(h).addr \in Holes \union (IF setup.x_en THEN {} ELSE Externals)
      PROVE  core_rsp(ext)[h].err
  <2>1. ~xbus_pending /\ ~rden /\ ~wren
    BY <1>1, <1>6, BusAssumption DEF Watch
  <2>2. sys1_rsp(ext).ack => keeper = "error" /\ rmw \in {"S_IDLE", "S_WRITE_WAIT"}
    BY <1>2, <2>1, SystemResponse, HostResponse DEF Answered
  <2> QED
    BY <1>1, <1>2, <2>2, SystemResponse, HostResponse
<1> QED
  BY <1>2, <1>5, <1>6 DEF Atomic!Responses

\* The access of the hart being served is answered, waits, or writes.
LEMMA ServiceStep ==
  ASSUME Inv, Inv', NEW ext \in Answers, Edge(ext), NEW h \in Harts, Served(h)
  PROVE  Atomic!Perform(h) \/ (Atomic!Local(h) /\ mem' = mem /\ Atomic!Reservation)
<1> DEFINE a == Of(h)
<1>1. /\ arb_state = h /\ arb_sel_q = h /\ cpu[h].phase = "wait" /\ Watch(h)
      /\ IF cpu[h].lock THEN ReadModifyWrite(h) ELSE Single(h)
      /\ a \in setup.issued /\ (cpu[h].lock <=> Locks(a))
  BY Serves
<1>2. core_rsp(ext)[h].ack <=> sys1_rsp(ext).ack
  BY <1>1, HostResponse DEF Inv
<1>3. got'[h] = IF sys1_rsp(ext).ack THEN core_rsp(ext)[h] ELSE rsp_terminate_c
  BY <1>1, <1>2, ArbiterEdge
<1>4. ASSUME valid' = valid PROVE Atomic!Reservation
  BY <1>4 DEF Atomic!Reservation
<1>5. CASE sys1_rsp(ext).ack
  <2>1. mem' = mem /\ valid' = valid /\ (cpu[h].lock => rmw = "S_WRITE_WAIT" /\ ~sc_fail)
    <3>1. CASE cpu[h].lock
      <4>1. mem' = mem /\ ~valid /\ ~valid' /\ rmw = "S_WRITE_WAIT"
        BY <1>5, <3>1, LockedEnds
      <4>2. valid \in BOOLEAN /\ valid' \in BOOLEAN
        BY DEF Inv, TypeOK
      <4> QED
        BY <1>1, <3>1, <4>1, <4>2 DEF ReadModifyWrite
    <3>2. CASE ~cpu[h].lock
      BY <1>5, <3>2, SingleEnds
    <3> QED
      BY <3>1, <3>2
  <2>2. Progress(h)' = Atomic!Free
    <3>1. cpu'[h].phase = "run"
      BY <1>1, <1>5, HartsNext DEF Running
    <3> QED
      BY <3>1, ViewsNext DEF View, Served
  <2>3. got'[h] = core_rsp(ext)[h]
    BY <1>3, <1>5
  <2>4. CASE ~sc_fail /\ a.addr \notin Cells
    <3>1. Progress(h) = Atomic!Open(a)
      BY <2>4, Views DEF View
    <3> QED
      BY <1>4, <1>5, <2>1, <2>2, <2>3, <2>4, <3>1, OpenAnswer, RepliesOpen
  <2>5. CASE sc_fail \/ a.addr \in Cells
    <3>1. Progress(h) = Atomic!Performed(a, core_rsp(ext)[h])
      BY <2>1, <2>5, Views, AnswerDue DEF View
    <3> QED
      BY <1>4, <2>1, <2>2, <2>3, <3>1, RepliesResult
  <2> QED
    BY <2>4, <2>5
<1>6. CASE ~sys1_rsp(ext).ack /\ ~cpu[h].lock
  <2>1. /\ arb_state' = h /\ mem' = mem /\ valid' = valid
        /\ a.addr \notin Cells /\ ~sc_fail /\ ~sc_fail'
        /\ cpu'[h].phase = "wait" /\ cpu'[h].access = a
    BY <1>6, SingleWaits
  <2>2. Progress(h) = Atomic!Open(a)
    BY <2>1, Views DEF View
  <2>3. Progress(h)' = Atomic!Open(a)
    BY <2>1, ViewsNext DEF View, Served, Of
  <2> QED
    BY <1>3, <1>4, <1>6, <2>1, <2>2, <2>3, Stays
<1>7. CASE ~sys1_rsp(ext).ack /\ cpu[h].lock
  <2>1. /\ arb_state' = h /\ cpu'[h].phase = "wait" /\ cpu'[h].access = a /\ cpu'[h].lock
        /\ ReadModifyWrite(h)'
        /\ IF rmw = "S_WRITE" /\ a.addr \in Cells
             THEN /\ mem' = [mem EXCEPT ![a.addr] = Apply(a.amoop, mem[a.addr], a.data)]
                  /\ rdata = mem[a.addr] /\ rdata' = rdata /\ rmw' = "S_WRITE_WAIT"
             ELSE mem' = mem
        /\ rmw # "S_WRITE" => rmw' # "S_WRITE_WAIT" \/ rmw = "S_WRITE_WAIT"
        /\ a.addr \in Cells => rmw # "S_WRITE_WAIT"
    BY <1>7, LockedWaits
  <2>2. ~sc_fail /\ ~valid /\ ~sc_fail' /\ ~valid'
    BY <1>1, <1>7, <2>1 DEF ReadModifyWrite
  <2>3. valid \in BOOLEAN /\ valid' \in BOOLEAN
    BY DEF Inv, TypeOK
  <2>4. Served(h)'
    BY <2>1 DEF Served
  <2>5. CASE a.addr \notin Cells
    <3>1. Progress(h) = Atomic!Open(a) /\ Progress(h)' = Atomic!Open(a)
      BY <2>1, <2>2, <2>4, <2>5, Views, ViewsNext DEF View, Of
    <3> QED
      BY <1>3, <1>4, <1>7, <2>1, <2>2, <2>3, <2>5, <3>1, Stays
  <2>6. CASE a.addr \in Cells /\ rmw # "S_WRITE"
    <3>1. Progress(h) = Atomic!Asked(a) /\ Progress(h)' = Atomic!Asked(a)
      BY <1>7, <2>1, <2>2, <2>4, <2>6, Views, ViewsNext DEF View, Of
    <3> QED
      BY <1>3, <1>4, <1>7, <2>1, <2>2, <2>3, <2>6, <3>1, Stays
  <2>7. CASE a.addr \in Cells /\ rmw = "S_WRITE"
    <3>1. ~IsSc(a) /\ a.amoop # LR /\ ~a.rw
      <4>1. a.amo /\ a.rw \in BOOLEAN /\ (a.rw <=> a.amoop = SC) /\ a.amoop \in RmwCodes
        BY <1>1, <1>7, AccessFacts DEF Locks, Inv
      <4> QED
        BY <4>1 DEF IsSc, RmwCodes, LR, SC, SWAP, ADD, XOR, AND, OR, MINU, MAXU, MIN, MAX
    <3>2. Progress(h) = Atomic!Asked(a)
      BY <1>7, <2>2, <2>7, Views DEF View
    <3>3. Progress(h)' = Atomic!Performed(a, Answer(rdata'))
      BY <2>1, <2>2, <2>4, <2>7, ViewsNext DEF View, Of, Answer
    <3>4. Atomic!Effect(a) = Atomic!Performed(a, Answer(mem[a.addr]))
      BY <2>7, <3>1, SameAccess DEF Atomic!Effect, Answer
    <3>5. Atomic!After(a) = [mem EXCEPT ![a.addr] = Apply(a.amoop, mem[a.addr], a.data)]
      <4>1. Atomic!NewWord(a, mem[a.addr]) = Apply(a.amoop, mem[a.addr], a.data)
        BY <1>1, <1>7, SameAccess, SameOperations DEF Atomic!NewWord
      <4> QED
        BY <2>7, <3>1, <4>1, SameAccess DEF Atomic!After
    <3>6. Progress(h)' = Atomic!Effect(a)
      BY <2>1, <2>7, <3>3, <3>4
    <3>7. mem' = Atomic!After(a)
      BY <2>1, <2>7, <3>5
    <3>8. got'[h] = rsp_terminate_c /\ (valid' <=> a.amo /\ a.amoop = LR) /\ valid' \in BOOLEAN
      BY <1>3, <1>7, <2>2, <2>3, <3>1
    <3> QED
      BY <3>2, <3>6, <3>7, <3>8, Performs
  <2> QED
    BY <2>5, <2>6, <2>7
<1> QED
  BY <1>5, <1>6, <1>7

\* A clock edge is a step of the atomic memory, in which at most one access takes effect.
LEMMA AtomicStep ==
  ASSUME Inv, Inv', NEW ext \in Answers, Edge(ext)
  PROVE  Atomic!Next
<1> DEFINE Granted(h) == arb_state = "S_IDLE" /\ Strobe /\ h = Selected
           Acts(h) == Served(h) \/ Granted(h)
<1>1. \A h \in Harts : ~Acts(h) => Atomic!Local(h)
  BY OthersAreLocal
<1>2. \A h \in Harts : Acts(h) =>
        Atomic!Perform(h) \/ (Atomic!Local(h) /\ mem' = mem /\ Atomic!Reservation)
  BY GrantStep, ServiceStep
<1>3. \A g, h \in Harts : Acts(g) /\ Acts(h) => g = h
  BY BusAssumption DEF Served
<1>4. (\A h \in Harts : ~Acts(h)) => mem' = mem /\ valid' = valid
  <2> SUFFICES ASSUME \A h \in Harts : ~Acts(h) PROVE mem' = mem /\ valid' = valid
    OBVIOUS
  <2>1. CASE arb_state = "S_IDLE"
    <3>1. ~Strobe
      BY <2>1, SelectedHart DEF Inv
    <3>2. rmw = "S_IDLE"
      BY <2>1 DEF Inv, Idle, Quiet
    <3> QED
      BY <3>1, <3>2, AtomicsEdge, MemoryEdge DEF Down
  <2>2. CASE arb_state # "S_IDLE"
    <3>1. arb_state \in Harts /\ cpu[arb_state].phase # "wait"
      BY <2>2 DEF Inv, TypeOK, Served
    <3> QED
      BY <3>1, Closes
  <2> QED
    BY <2>1, <2>2
<1>5. \/ \E h \in Harts : Atomic!Perform(h) /\ \A g \in Harts \ {h} : Atomic!Local(g)
      \/ (\A h \in Harts : Atomic!Local(h)) /\ UNCHANGED mem /\ Atomic!Reservation
  <2>1. CASE \A h \in Harts : ~Acts(h)
    <3>1. Atomic!Reservation
      BY <1>4, <2>1 DEF Atomic!Reservation
    <3> QED
      BY <1>1, <1>4, <2>1, <3>1
  <2>2. CASE \E h \in Harts : Acts(h)
    <3>1. PICK h \in Harts : Acts(h)
      BY <2>2
    <3>2. \A g \in Harts \ {h} : Atomic!Local(g)
      <4>1. \A g \in Harts \ {h} : ~Acts(g)
        BY <1>3, <3>1
      <4> QED
        BY <1>1, <4>1
    <3>3. Atomic!Perform(h) \/ (Atomic!Local(h) /\ mem' = mem /\ Atomic!Reservation)
      BY <1>2, <3>1
    <3> HIDE DEF Acts
    <3> QED
      BY <3>2, <3>3
  <2> QED
    BY <2>1, <2>2
<1>6. UNCHANGED (Holes \union (IF setup.x_en THEN {} ELSE Externals))
  BY ArbiterEdge
<1>7. /\ got' = [h \in Harts |-> got'[h]]
      /\ [h \in Harts |-> Progress(h)]' = [h \in Harts |-> ([g \in Harts |-> Progress(g)]')[h]]
  <2>1. got' = [h \in Harts |-> IF cpu[h].phase \in {"strobe", "wait"} /\ core_rsp(ext)[h].ack
                                  THEN core_rsp(ext)[h] ELSE rsp_terminate_c]
    BY Zenon DEF Edge
  <2> QED
    BY <2>1
<1> QED
  BY <1>5, <1>6, <1>7 DEF Atomic!Next

\* After a reset the memory is the abstract one's, and nothing is asked.
LEMMA AtomicStart == Init => Atomic!Init
<1> SUFFICES ASSUME Init PROVE Atomic!Init
  OBVIOUS
<1>1. \A h \in Harts : Progress(h) = Atomic!Free
  <2>1. \A h \in Harts : cpu[h].phase = "run"
    BY DEF Init, Running
  <2> QED
    BY <2>1 DEF Progress, TookEffect, Served, Atomic!Free
<1>2. [h \in Harts |-> Progress(h)] = [h \in Harts |-> Atomic!Free]
  BY <1>1
<1>3. mem \in [Cells -> Word] /\ got = [h \in Harts |-> rsp_terminate_c] /\ valid = FALSE
  BY DEF Init, Rvs!RvsInit
<1>4. Holes \union (IF setup.x_en THEN {} ELSE Externals) \subseteq Addresses \ Cells
  BY BusAssumption DEF Addresses
<1> QED
  BY <1>2, <1>3, <1>4
    DEF Atomic!Init, Atomic!Word, Word, Atomic!Addresses, Addresses, Atomic!rsp_terminate_c,
        rsp_terminate_c

\* An edge that changes no register leaves the atomic memory alone.
LEMMA AtomicStutter == UNCHANGED vars => UNCHANGED Atomic!vars
<1> SUFFICES ASSUME UNCHANGED vars PROVE UNCHANGED Atomic!vars
  OBVIOUS
<1>1. \A h \in Harts : Progress(h)' = Progress(h)
  BY DEF vars, arbVars, Progress, TookEffect, Served, core_rsp, sys1_rsp, amo_rsp, sys3_rsp,
         int_rsp, dmem_rsp, XGate!xbus_rsp, Arb!rsp_o, Rmw!core_rsp, Rmw!Passes, Rvs!rvs_rsp,
         Gate!gateway_rsp, Gate!keeper_err, Gate!int_rsp
<1> QED
  BY <1>1 DEF vars, Atomic!vars

\* The fabric implements the atomic memory (AccessesAreAtomic): every load, store, LR, SC and
\* read-modify-write of the two harts takes effect in one step between its request and its
\* response, which is that step's result; for every width of a word, every set of addresses, every
\* timeout but one of a single clock, with and without an external bus.
THEOREM FabricImplementsAtomicMemory == Spec => AccessesAreAtomic
<1>1. Inv /\ Inv' /\ [Next]_vars => [Atomic!Next]_Atomic!vars
  BY AtomicStep, AtomicStutter DEF Next
<1> QED
  BY <1>1, FabricInvariant, AtomicStart, PTL DEF Spec, Atomic!Spec, AccessesAreAtomic

--------------------------------------------------------------------------------
(* The read-modify-write controller by itself (AmoOperations), between a host *)
(* and a memory that answers when it likes, also with errors.                 *)

VARIABLES request, current, busy

Bench == INSTANCE AmoOperations WITH arbiter <- rmw

BenchSpec == Bench!Init /\ [][Bench!Next]_Bench!vars

\* The property of module AmoOperations.
ActsAsReference == Bench!ActsAsReference

\* The controller has the operation and the operand of the request.
Latched == request.lock /\ ~request.stb /\ cmd = request.amoop /\ wdata = request.data

\* A request is on until the write is answered; the word that was read stays the one in the memory.
BenchInv ==
  /\ current \in Word /\ wdata \in Word /\ rdata \in Word
  /\ cmd \in RmwCodes
  /\ \/ request = Bench!NoRequest
     \/ \E stb \in BOOLEAN, code \in RmwCodes, operand \in Word :
          request = [Bench!Modify(code, operand) EXCEPT !.stb = stb]
  /\ \/ rmw = "S_IDLE" /\ ~busy /\ (request.lock => request.stb)
     \/ rmw = "S_READ_WAIT" /\ busy /\ Latched
     \/ rmw = "S_EXECUTE" /\ ~busy /\ Latched /\ rdata = current
     \/ /\ rmw = "S_WRITE" /\ ~busy /\ Latched /\ rdata = current
        /\ alu_res = Apply(cmd, rdata, wdata)
     \/ rmw = "S_WRITE_WAIT" /\ busy /\ Latched /\ rdata = current

\* What a host asks for.
LEMMA BenchRequest ==
  ASSUME BenchInv
  PROVE  /\ request.lock \in BOOLEAN /\ request.stb \in BOOLEAN
         /\ request.stb => request.lock
         /\ request.lock => request.amoop \in RmwCodes /\ request.data \in Word
         /\ Bench!IsRmw(request) <=> request.stb
         /\ Bench!HostWaits <=> request.lock
         /\ DOMAIN request = {"stb", "rw", "amo", "amoop", "addr", "data", "lock", "meta"}
<1>1. CASE request = Bench!NoRequest
  BY <1>1 DEF Bench!NoRequest, Bench!Modify, Bench!IsRmw, Bench!HostWaits
<1>2. CASE \E stb \in BOOLEAN, code \in RmwCodes, operand \in Word :
             request = [Bench!Modify(code, operand) EXCEPT !.stb = stb]
  <2>1. PICK stb \in BOOLEAN, code \in RmwCodes, operand \in Word :
          request = [Bench!Modify(code, operand) EXCEPT !.stb = stb]
    BY <1>2
  <2>2. code \div 4 # 2
    BY Codes DEF AmoCodes
  <2>3. /\ request.stb = stb /\ request.lock /\ request.amo
        /\ request.amoop = code /\ request.data = operand
        /\ DOMAIN request = {"stb", "rw", "amo", "amoop", "addr", "data", "lock", "meta"}
    BY <2>1 DEF Bench!Modify
  <2> QED
    BY <2>2, <2>3 DEF Bench!IsRmw, Bench!HostWaits
<1> QED
  BY <1>1, <1>2 DEF BenchInv

\* The memory answers only if it owes an answer, and then with its word.
LEMMA BenchAnswer ==
  ASSUME BenchInv, NEW answer \in Bench!Answers
  PROVE  /\ answer.ack \in BOOLEAN /\ answer.data \in Word
         /\ answer.ack => busy /\ answer.data = current
<1>1. 0 \in Word
  BY WordSize DEF Word
<1>2. CASE answer = Bench!rsp_terminate_c
  BY <1>1, <1>2 DEF Bench!rsp_terminate_c
<1>3. CASE busy /\ answer \in [ack : {TRUE}, err : BOOLEAN, data : {current}]
  BY <1>3 DEF BenchInv
<1> QED
  BY <1>2, <1>3 DEF Bench!Answers

\* The controller of the bench is the one of the fabric.
LEMMA BenchAlu ==
  ASSUME NEW c \in RmwCodes, NEW v \in Word, NEW w \in Word
  PROVE  /\ Bench!amo_alu(c, v, w) = Apply(c, v, w)
         /\ Bench!Apply(c, v, w) = Apply(c, v, w)
<1>1. Bench!amo_alu(c, v, w) = Rmw!amo_alu(c, v, w)
  BY DEF Bench!amo_alu, Rmw!amo_alu, Bench!cmp_res, Rmw!cmp_res, Bench!cmp_less, Rmw!cmp_less,
         Bench!Biased, Rmw!Biased, Bench!And, Rmw!And, Bench!Or, Rmw!Or, Bench!ExclusiveOr,
         Rmw!ExclusiveOr, Bench!Bitwise, Rmw!Bitwise, Bench!Bit, Rmw!Bit
<1>2. Bench!Apply(c, v, w) = Apply(c, v, w)
  BY DEF Bench!Apply, Apply, Bench!SWAP, SWAP, Bench!ADD, ADD, Bench!XOR, XOR, Bench!AND, AND,
         Bench!OR, OR, Bench!MINU, MINU, Bench!MAXU, MAXU, Bench!MIN, MIN, Bench!MAX, MAX,
         Bench!SignedValue, SignedValue, Bench!And, And, Bench!Or, Or, Bench!ExclusiveOr,
         ExclusiveOr, Bench!Bitwise, Bitwise, Bench!Bit, Bit
<1> QED
  BY <1>1, <1>2, AluComputes

LEMMA BenchStart == Bench!Init => BenchInv
<1>1. 0 \in Word /\ SWAP \in RmwCodes
  BY WordSize DEF Word, RmwCodes
<1> QED
  BY <1>1 DEF Bench!Init, Bench!RmwInit, Bench!NoRequest, Bench!Modify, BenchInv, Bench!SWAP, SWAP

LEMMA BenchStep ==
  ASSUME BenchInv, NEW answer \in Bench!Answers, Bench!Edge(answer)
  PROVE  BenchInv'
<1> DEFINE Asked == \E code \in RmwCodes, operand \in Word : request' = Bench!Modify(code, operand)
<1> USE BenchRequest, BenchAnswer
<1>0. Bench!RmwCodes = RmwCodes /\ Bench!Word = Word
  BY DEF Bench!RmwCodes, RmwCodes, Bench!Word, Word, Bench!SWAP, SWAP, Bench!ADD, ADD, Bench!XOR,
         XOR, Bench!AND, AND, Bench!OR, OR, Bench!MINU, MINU, Bench!MAXU, MAXU, Bench!MIN, MIN,
         Bench!MAX, MAX
<1>1. /\ rmw' = CASE rmw = "S_IDLE"       -> IF request.stb THEN "S_READ_WAIT" ELSE rmw
                  [] rmw = "S_READ_WAIT"  -> IF answer.ack THEN "S_EXECUTE" ELSE rmw
                  [] rmw = "S_EXECUTE"    -> "S_WRITE"
                  [] rmw = "S_WRITE"      -> "S_WRITE_WAIT"
                  [] rmw = "S_WRITE_WAIT" -> IF answer.ack THEN "S_IDLE" ELSE rmw
      /\ cmd' = IF rmw = "S_IDLE" /\ request.stb THEN request.amoop ELSE cmd
      /\ wdata' = IF rmw = "S_IDLE" /\ request.stb THEN request.data ELSE wdata
      /\ rdata' = IF rmw = "S_READ_WAIT" THEN answer.data ELSE rdata
      /\ alu_res' = Bench!amo_alu(cmd, rdata, wdata)
  BY DEF Bench!Edge, Bench!arbiter_comb, Bench!AfterRead
<1>2. alu_res' = Apply(cmd, rdata, wdata)
  BY <1>1, BenchAlu DEF BenchInv
<1>3. busy' = (rmw = "S_WRITE" \/ request.stb \/ (busy /\ ~answer.ack))
  <2>1. Bench!sys_req(request).stb = (rmw = "S_WRITE" \/ request.stb)
    BY DEF Bench!sys_req, Bench!Strobes
  <2> QED
    BY <2>1 DEF Bench!Edge
<1>4. Bench!core_rsp(answer).ack <=> (answer.ack /\ rmw \in {"S_IDLE", "S_WRITE_WAIT"})
  BY DEF Bench!core_rsp, Bench!Passes
<1>5. \/ ~request.lock /\ Asked /\ current' \in Word
      \/ /\ request.lock /\ current' = current
         /\ request' = IF answer.ack /\ rmw \in {"S_IDLE", "S_WRITE_WAIT"}
                         THEN Bench!NoRequest ELSE [request EXCEPT !.stb = FALSE]
  BY <1>0, <1>4 DEF Bench!Edge
<1>6. current' \in Word /\ wdata' \in Word /\ rdata' \in Word /\ cmd' \in RmwCodes
  BY <1>1, <1>5 DEF BenchInv
<1>7. CASE ~request.lock
  <2>1. Asked /\ rmw = "S_IDLE" /\ ~busy /\ ~request.stb
    BY <1>5, <1>7 DEF BenchInv, Latched
  <2>2. PICK code \in RmwCodes, operand \in Word : request' = Bench!Modify(code, operand)
    BY <2>1
  <2>3. request'.stb = TRUE /\ request' = [Bench!Modify(code, operand) EXCEPT !.stb = request'.stb]
    BY <2>2 DEF Bench!Modify
  <2>4. rmw' = "S_IDLE" /\ ~busy'
    BY <1>1, <1>3, <2>1
  <2> QED
    <3>1. \E stb \in BOOLEAN, c \in RmwCodes, o \in Word :
            request' = [Bench!Modify(c, o) EXCEPT !.stb = stb]
      <4>1. request'.stb \in BOOLEAN
        BY <2>3
      <4> QED
        BY <2>3, <4>1, Zenon
    <3> QED
      BY <1>6, <2>3, <2>4, <3>1 DEF BenchInv
<1>8. CASE request.lock /\ answer.ack /\ rmw \in {"S_IDLE", "S_WRITE_WAIT"}
  <2>1. rmw = "S_WRITE_WAIT" /\ ~request.stb
    BY <1>8 DEF BenchInv, Latched
  <2>2. request' = Bench!NoRequest /\ ~request'.lock
    BY <1>5, <1>8 DEF Bench!NoRequest, Bench!Modify
  <2>3. rmw' = "S_IDLE" /\ ~busy'
    BY <1>1, <1>3, <1>8, <2>1
  <2> QED
    BY <1>6, <2>2, <2>3 DEF BenchInv
<1>9. CASE request.lock /\ ~(answer.ack /\ rmw \in {"S_IDLE", "S_WRITE_WAIT"})
  <2>1. request' = [request EXCEPT !.stb = FALSE] /\ current' = current
    BY <1>5, <1>9
  <2>2. /\ request'.lock /\ ~request'.stb
        /\ request'.amoop = request.amoop /\ request'.data = request.data
    BY <1>9, <2>1
  <2>3. \E stb \in BOOLEAN, code \in RmwCodes, operand \in Word :
          request' = [Bench!Modify(code, operand) EXCEPT !.stb = stb]
    <3>1. PICK stb \in BOOLEAN, code \in RmwCodes, operand \in Word :
            request = [Bench!Modify(code, operand) EXCEPT !.stb = stb]
      BY <1>9 DEF BenchInv, Bench!NoRequest, Bench!Modify
    <3>2. request' = [Bench!Modify(code, operand) EXCEPT !.stb = FALSE]
      BY <2>1, <3>1 DEF Bench!Modify
    <3> QED
      BY <3>2
  <2>4. CASE rmw = "S_IDLE"
    BY <1>1, <1>3, <1>6, <1>9, <2>2, <2>3, <2>4 DEF BenchInv, Latched
  <2>5. CASE rmw = "S_READ_WAIT"
    BY <1>1, <1>3, <1>6, <1>9, <2>1, <2>2, <2>3, <2>5 DEF BenchInv, Latched
  <2>6. CASE rmw = "S_EXECUTE"
    BY <1>1, <1>2, <1>3, <1>6, <1>9, <2>1, <2>2, <2>3, <2>6 DEF BenchInv, Latched
  <2>7. CASE rmw = "S_WRITE"
    BY <1>1, <1>3, <1>6, <1>9, <2>1, <2>2, <2>3, <2>7 DEF BenchInv, Latched
  <2>8. CASE rmw = "S_WRITE_WAIT"
    BY <1>1, <1>3, <1>6, <1>9, <2>1, <2>2, <2>3, <2>8 DEF BenchInv, Latched
  <2> QED
    BY <2>4, <2>5, <2>6, <2>7, <2>8 DEF BenchInv
<1> QED
  BY <1>7, <1>8, <1>9

LEMMA BenchActs == BenchInv => ActsAsReference
<1> SUFFICES ASSUME BenchInv PROVE ActsAsReference
  OBVIOUS
<1> USE BenchRequest, BenchAnswer
<1>1. ASSUME rmw = "S_WRITE"
      PROVE  /\ Bench!sys_req(request).stb /\ Bench!sys_req(request).rw
             /\ Bench!sys_req(request).data = Bench!Apply(request.amoop, current, request.data)
  <2>1. /\ alu_res = Apply(cmd, rdata, wdata) /\ rdata = current
        /\ cmd = request.amoop /\ wdata = request.data
    BY <1>1 DEF BenchInv, Latched
  <2>2. alu_res = Bench!Apply(request.amoop, current, request.data)
    BY <2>1, BenchAlu DEF BenchInv
  <2>3. Bench!sys_req(request) = [request EXCEPT !.data = alu_res, !.stb = TRUE, !.rw = TRUE]
    BY <1>1 DEF Bench!sys_req, Bench!Writing, Bench!Strobes
  <2> QED
    BY <2>2, <2>3
<1>2. ASSUME NEW answer \in Bench!Answers, Bench!core_rsp(answer).ack
      PROVE  rmw = "S_WRITE_WAIT" /\ Bench!core_rsp(answer).data = current
  <2>1. answer.ack /\ rmw \in {"S_IDLE", "S_WRITE_WAIT"}
    BY <1>2 DEF Bench!core_rsp, Bench!Passes
  <2>2. rmw = "S_WRITE_WAIT" /\ rdata = current
    BY <2>1 DEF BenchInv
  <2> QED
    BY <2>2 DEF Bench!core_rsp
<1> QED
  BY <1>1, <1>2 DEF ActsAsReference, Bench!ActsAsReference

\* The controller by itself writes the operation of the Zaamo extension applied to the word it has
\* read, and answers once that is written (ActsAsReference): words of any width, any operation and
\* operands, a memory that answers after any time, with errors too.
THEOREM AmoActsAsReference == BenchSpec => []ActsAsReference
<1>1. BenchInv /\ [Bench!Next]_Bench!vars => BenchInv'
  <2>1. BenchInv /\ UNCHANGED Bench!vars => BenchInv'
    BY DEF Bench!vars, Bench!rmwVars, BenchInv, Latched
  <2> QED
    BY <2>1, BenchStep DEF Bench!Next
<1> QED
  BY <1>1, BenchStart, BenchActs, PTL DEF BenchSpec
================================================================================
