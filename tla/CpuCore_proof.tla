----------------------------- MODULE CpuCore_proof ------------------------------
(***************************************************************************)
(* Theorems about the control unit with its frontend, for every width of an *)
(* address, every configuration, program and surroundings.                  *)
(***************************************************************************)
EXTENDS CpuCore, TLAPS, SequenceTheorems, WellFoundedInduction

-------------------------------------------------------------------------------
(* Addresses.                                                                *)

LEMMA ModRange ==
  ASSUME NEW N \in Nat \ {0}, NEW x \in Nat
  PROVE  /\ x % N \in 0 .. N - 1
         /\ x < N => x % N = x
OBVIOUS

LEMMA MulBound == ASSUME NEW N \in Nat, NEW j \in Nat \ {0} PROVE j * N >= N
OBVIOUS

LEMMA ModUnique ==
  ASSUME NEW N \in Nat \ {0}, NEW k \in Nat, NEW r \in 0 .. N - 1
  PROVE  (k * N + r) % N = r
<1> DEFINE z == k * N + r
<1>1. z \in Nat
  OBVIOUS
<1> HIDE DEF z
<1>2. z = (z \div N) * N + (z % N) /\ z \div N \in Nat /\ z % N \in 0 .. N - 1
  BY <1>1
<1>3. (k - (z \div N)) * N = (z % N) - r
  BY <1>1, <1>2 DEF z
<1>4. ASSUME k > z \div N PROVE FALSE
  <2>1. k - (z \div N) \in Nat \ {0}
    BY <1>2, <1>4
  <2>2. (k - (z \div N)) * N >= N
    BY <2>1, MulBound
  <2> QED
    BY <1>2, <1>3, <2>2
<1>5. ASSUME k < z \div N PROVE FALSE
  <2>1. (z \div N) - k \in Nat \ {0}
    BY <1>2, <1>5
  <2>2. ((z \div N) - k) * N >= N
    BY <2>1, MulBound
  <2>3. ((z \div N) - k) * N = r - (z % N)
    BY <1>1, <1>2 DEF z
  <2> QED
    BY <1>2, <2>2, <2>3
<1>6. k - (z \div N) = 0
  BY <1>2, <1>4, <1>5
<1> QED
  BY <1>1, <1>2, <1>6 DEF z

LEMMA ModAdd ==
  ASSUME NEW N \in Nat \ {0}, NEW x \in Nat, NEW y \in Nat
  PROVE  ((x % N) + y) % N = (x + y) % N
<1> DEFINE z == (x % N) + y
<1>1. x = (x \div N) * N + (x % N) /\ x \div N \in Nat /\ z \in Nat
  OBVIOUS
<1>2. z = (z \div N) * N + (z % N) /\ z \div N \in Nat /\ z % N \in 0 .. N - 1
  BY <1>1
<1>3. x + y = ((x \div N) + (z \div N)) * N + (z % N)
  <2>1. x + y = (x \div N) * N + z
    BY <1>1
  <2> QED
    BY <1>1, <1>2, <2>1
<1>4. (x \div N) + (z \div N) \in Nat
  BY <1>1, <1>2
<1>5. (x + y) % N = z % N
  BY <1>2, <1>3, <1>4, ModUnique
<1> QED
  BY <1>5

LEMMA ModParity ==
  ASSUME NEW N \in Nat \ {0}, N % 2 = 0, NEW x \in Nat
  PROVE  (x % N) % 2 = x % 2
<1>1. PICK h \in Nat : N = 2 * h
  OBVIOUS
<1>2. x = (x \div N) * N + (x % N) /\ x \div N \in Nat /\ x % N \in Nat
  OBVIOUS
<1>3. (x \div N) * N = 2 * ((x \div N) * h)
  BY <1>1, <1>2
<1>4. (x \div N) * h \in Nat
  BY <1>1, <1>2
<1> QED
  BY <1>2, <1>3, <1>4

\* Going on from an address.
LEMMA AfterFacts ==
  /\ \A p \in Pcs, n \in Nat : After(p, n) \in Pcs
  /\ \A p \in Pcs : After(p, 0) = p
  /\ \A p \in Pcs, m, n \in Nat : After(After(p, m), n) = After(p, m + n)
  /\ \A p \in Pcs, n \in Nat : After(p, n) % 2 = (p + n) % 2
<1> DEFINE N == 2^PcBits
<1>1. N \in Nat \ {0} /\ N % 2 = 0
  BY CoreAssumption DEF CoreAssumption
<1>2. Pcs = 0 .. N - 1 /\ \A p \in Pcs, n \in Nat : After(p, n) = (p + n) % N
  BY DEF Pcs, After
<1> HIDE DEF N
<1>3. \A p \in Pcs, n \in Nat : After(p, n) \in Pcs
  <2> SUFFICES ASSUME NEW p \in Pcs, NEW n \in Nat PROVE (p + n) % N \in Pcs
    BY <1>2
  <2>1. p + n \in Nat
    BY <1>1, <1>2
  <2> QED
    BY <1>1, <1>2, <2>1, ModRange
<1>4. \A p \in Pcs : After(p, 0) = p
  <2> SUFFICES ASSUME NEW p \in Pcs PROVE After(p, 0) = p
    OBVIOUS
  <2>1. p \in Nat /\ p < N /\ p + 0 = p
    BY <1>1, <1>2
  <2>2. After(p, 0) = (p + 0) % N
    BY <1>2
  <2>3. p % N = p
    BY <1>1, <2>1, ModRange
  <2> QED
    BY <2>1, <2>2, <2>3
<1>5. ASSUME NEW p \in Pcs, NEW m \in Nat, NEW n \in Nat
      PROVE  After(After(p, m), n) = After(p, m + n)
  <2>1. p + m \in Nat /\ m + n \in Nat /\ p + (m + n) = (p + m) + n
    BY <1>1, <1>2
  <2>2. (((p + m) % N) + n) % N = ((p + m) + n) % N
    BY <1>1, <2>1, ModAdd
  <2>3. After(After(p, m), n) = (((p + m) % N) + n) % N
    <3>1. After(p, m) \in Pcs /\ After(p, m) = (p + m) % N
      BY <1>2, <1>3
    <3> QED
      BY <1>2, <3>1
  <2>4. After(p, m + n) = (p + (m + n)) % N
    BY <1>2, <2>1
  <2> QED
    BY <2>1, <2>2, <2>3, <2>4
<1>6. ASSUME NEW p \in Pcs, NEW n \in Nat
      PROVE  After(p, n) % 2 = (p + n) % 2
  <2>1. p + n \in Nat
    BY <1>1, <1>2
  <2> QED
    BY <1>1, <1>2, <2>1, ModParity
<1> QED
  BY <1>3, <1>4, <1>5, <1>6

\* The addresses of the two half-words of a word.
LEMMA WordFacts ==
  ASSUME NEW a \in Pcs
  PROVE  /\ a % 2 = 0 => After(a, 1) = a + 1 /\ a + 1 \in Pcs
         /\ a % 2 = 1 => a - 1 \in Pcs /\ (a - 1) % 2 = 0 /\ After(a - 1, 2) = After(a, 1)
         /\ a % 2 \in {0, 1}
<1> DEFINE N == 2^PcBits
<1>1. N \in Nat \ {0} /\ N % 2 = 0
  BY CoreAssumption DEF CoreAssumption
<1>2. Pcs = 0 .. N - 1 /\ \A p \in Pcs, n \in Nat : After(p, n) = (p + n) % N
  BY DEF Pcs, After
<1> HIDE DEF N
<1>3. a \in 0 .. N - 1
  BY <1>2
<1>4. a % 2 = 0 => a + 1 \in 0 .. N - 1
  BY <1>1, <1>3
<1>5. a % 2 = 0 => After(a, 1) = a + 1
  <2>1. After(a, 1) = (a + 1) % N
    BY <1>2
  <2>2. a % 2 = 0 => a + 1 \in Nat /\ a + 1 < N
    BY <1>1, <1>4
  <2> QED
    BY <1>1, <2>1, <2>2, ModRange
<1>6. a % 2 = 1 => a - 1 \in Pcs /\ (a - 1) % 2 = 0
  <2>1. a % 2 = 1 => a - 1 \in 0 .. N - 1
    BY <1>1, <1>3
  <2>2. a % 2 = 1 => (a - 1) % 2 = 0
    BY <1>3
  <2> QED
    BY <1>2, <2>1, <2>2
<1>7. a % 2 = 1 => After(a - 1, 2) = After(a, 1)
  <2>1. a % 2 = 1 => After(a - 1, 2) = ((a - 1) + 2) % N
    BY <1>2, <1>6
  <2>2. After(a, 1) = (a + 1) % N /\ (a - 1) + 2 = a + 1
    BY <1>1, <1>2, <1>3
  <2> QED
    BY <2>1, <2>2
<1>8. a % 2 \in {0, 1}
  BY <1>3
<1> QED
  BY <1>2, <1>4, <1>5, <1>6, <1>7, <1>8

-------------------------------------------------------------------------------
(* The prefetch buffer.                                                      *)

Queues == Seq(F!Halves)

\* Every second half-word from `pc' on.
EverySecond(q, pc) == \A k \in 1 .. Len(q) : q[k].from = After(pc, 2 * (k - 1))

\* `qf' and `qs' hold what lies between `pc' and `addr', where the fetch goes on:
\* qf begins at pc, qs behind it.  A fetch that starts in the middle of a word
\* brings a half-word for qf only.
Buffered(pc, qf, qs, addr) ==
  /\ EverySecond(qf, pc) /\ EverySecond(qs, After(pc, 1))
  /\ pc % 2 = 0 => Len(qf) = Len(qs) /\ addr = After(pc, 2 * Len(qs))
  /\ pc % 2 = 1 => \/ Len(qf) = 0 /\ Len(qs) = 0 /\ addr = pc
                   \/ Len(qf) = Len(qs) + 1 /\ addr = After(pc, 2 * Len(qs) + 1)

LEMMA BufferedEmpty ==
  ASSUME NEW pc \in Pcs
  PROVE  Buffered(pc, <<>>, <<>>, pc)
<1>1. Len(<<>>) = 0 /\ After(pc, 2 * 0) = pc
  BY AfterFacts
<1> QED
  BY <1>1 DEF Buffered, EverySecond

LEMMA EverySecondTail ==
  ASSUME NEW pc \in Pcs, NEW q \in Queues, EverySecond(q, pc), q # <<>>
  PROVE  Head(q).from = pc /\ EverySecond(Tail(q), After(pc, 2))
<1>1. /\ Tail(q) \in Queues /\ Len(Tail(q)) = Len(q) - 1 /\ Len(q) \in Nat \ {0}
      /\ \A i \in 1 .. Len(Tail(q)) : Tail(q)[i] = q[i + 1]
  BY HeadTailProperties, EmptySeq DEF Queues
<1>2. Head(q) = q[1]
  BY DEF Queues
<1>3. q[1].from = After(pc, 0)
  BY <1>1 DEF EverySecond
<1>4. ASSUME NEW k \in 1 .. Len(Tail(q))
      PROVE  Tail(q)[k].from = After(After(pc, 2), 2 * (k - 1))
  <2>1. k + 1 \in 1 .. Len(q) /\ Tail(q)[k] = q[k + 1]
    BY <1>1
  <2>2. q[k + 1].from = After(pc, 2 * k)
    BY <2>1 DEF EverySecond
  <2>3. 2 * (k - 1) \in Nat /\ 2 + 2 * (k - 1) = 2 * k
    BY <1>1
  <2> QED
    BY <2>1, <2>2, <2>3, AfterFacts
<1> QED
  BY <1>2, <1>3, <1>4, AfterFacts DEF EverySecond

LEMMA EverySecondAppend ==
  ASSUME NEW pc \in Pcs, NEW q \in Queues, EverySecond(q, pc),
         NEW h \in F!Halves, h.from = After(pc, 2 * Len(q))
  PROVE  EverySecond(Append(q, h), pc)
<1>1. /\ Len(q) \in Nat /\ Len(Append(q, h)) = Len(q) + 1
      /\ \A i \in 1 .. Len(q) : Append(q, h)[i] = q[i]
      /\ Append(q, h)[Len(q) + 1] = h
  BY AppendProperties, LenProperties DEF Queues
<1>2. ASSUME NEW k \in 1 .. Len(q) + 1
      PROVE  Append(q, h)[k].from = After(pc, 2 * (k - 1))
  <2>1. CASE k = Len(q) + 1
    <3>1. k - 1 = Len(q)
      BY <1>1, <2>1
    <3> QED
      BY <1>1, <2>1, <3>1
  <2>2. CASE k \in 1 .. Len(q)
    BY <1>1, <2>2 DEF EverySecond
  <2> QED
    BY <1>1, <2>1, <2>2
<1> QED
  BY <1>1, <1>2 DEF EverySecond

\* Parity of the next addresses.
LEMMA NextParity ==
  ASSUME NEW pc \in Pcs
  PROVE  /\ pc % 2 \in {0, 1}
         /\ After(pc, 1) \in Pcs /\ After(pc, 2) \in Pcs
         /\ pc % 2 = 0 => After(pc, 1) % 2 = 1 /\ After(pc, 2) % 2 = 0
         /\ pc % 2 = 1 => After(pc, 1) % 2 = 0 /\ After(pc, 2) % 2 = 1
<1>1. pc \in Nat
  BY CoreAssumption DEF Pcs, CoreAssumption
<1>2. /\ pc % 2 \in {0, 1} /\ (pc + 2) % 2 = pc % 2
      /\ pc % 2 = 0 => (pc + 1) % 2 = 1
      /\ pc % 2 = 1 => (pc + 1) % 2 = 0
  BY <1>1
<1> QED
  BY <1>2, AfterFacts

\* A compressed instruction is issued.
LEMMA PopOne ==
  ASSUME NEW pc \in Pcs, NEW qf \in Queues, NEW qs \in Queues, NEW addr \in Pcs,
         Buffered(pc, qf, qs, addr), qf # <<>>
  PROVE  Head(qf).from = pc /\ Buffered(After(pc, 1), qs, Tail(qf), addr)
<1>1. /\ Head(qf).from = pc
      /\ EverySecond(qs, After(pc, 1)) /\ EverySecond(Tail(qf), After(pc, 2))
  BY EverySecondTail DEF Buffered
<1>2. After(pc, 2) = After(After(pc, 1), 1)
  BY AfterFacts
<1>3. /\ Len(qf) \in Nat \ {0} /\ Len(qs) \in Nat /\ Len(Tail(qf)) \in Nat
      /\ Len(Tail(qf)) = Len(qf) - 1
  BY HeadTailProperties, EmptySeq, LenProperties DEF Queues
<1>4. CASE pc % 2 = 0
  <2>1. Len(qs) = Len(Tail(qf)) + 1 /\ addr = After(pc, 2 * Len(qs))
    <3>1. Len(qf) = Len(qs) /\ addr = After(pc, 2 * Len(qs))
      BY <1>4 DEF Buffered
    <3> QED
      BY <1>3, <3>1
  <2>2. 2 * Len(qs) = 1 + (2 * Len(Tail(qf)) + 1) /\ 2 * Len(Tail(qf)) + 1 \in Nat
    BY <1>3, <2>1
  <2>3. addr = After(After(pc, 1), 2 * Len(Tail(qf)) + 1)
    BY <2>1, <2>2, AfterFacts
  <2> QED
    BY <1>1, <1>2, <1>4, <2>1, <2>3, NextParity DEF Buffered
<1>5. CASE pc % 2 = 1
  <2>1. Len(qs) = Len(Tail(qf)) /\ addr = After(pc, 2 * Len(qs) + 1)
    <3>1. \/ Len(qf) = 0
          \/ Len(qf) = Len(qs) + 1 /\ addr = After(pc, 2 * Len(qs) + 1)
      BY <1>5 DEF Buffered
    <3>2. Len(qf) # 0
      BY <1>3
    <3>3. Len(qf) = Len(qs) + 1 /\ addr = After(pc, 2 * Len(qs) + 1)
      BY <3>1, <3>2
    <3>4. Len(qs) = Len(Tail(qf))
      BY <1>3, <3>3
    <3> QED
      BY <3>3, <3>4
  <2>2. 2 * Len(qs) + 1 = 1 + 2 * Len(Tail(qf)) /\ 2 * Len(Tail(qf)) \in Nat
    BY <1>3, <2>1
  <2>3. addr = After(After(pc, 1), 2 * Len(Tail(qf)))
    BY <2>1, <2>2, AfterFacts
  <2> QED
    BY <1>1, <1>2, <1>5, <2>1, <2>3, NextParity DEF Buffered
<1> QED
  BY <1>4, <1>5, NextParity

\* An instruction of two half-words is issued.
LEMMA PopTwo ==
  ASSUME NEW pc \in Pcs, NEW qf \in Queues, NEW qs \in Queues, NEW addr \in Pcs,
         Buffered(pc, qf, qs, addr), qf # <<>>, qs # <<>>
  PROVE  /\ Head(qf).from = pc /\ Head(qs).from = After(pc, 1)
         /\ Buffered(After(pc, 2), Tail(qf), Tail(qs), addr)
<1>1. Head(qf).from = pc /\ Buffered(After(pc, 1), qs, Tail(qf), addr)
  BY PopOne
<1>2. Tail(qf) \in Queues
  BY HeadTailProperties DEF Queues
<1>3. /\ Head(qs).from = After(pc, 1)
      /\ Buffered(After(After(pc, 1), 1), Tail(qf), Tail(qs), addr)
  BY <1>1, <1>2, PopOne, NextParity
<1> QED
  BY <1>1, <1>3, AfterFacts

\* A word is fetched, or the high half of one.
LEMMA PushWord ==
  ASSUME NEW pc \in Pcs, NEW qf \in Queues, NEW qs \in Queues, NEW addr \in Pcs,
         Buffered(pc, qf, qs, addr),
         NEW w0 \in F!Halves, NEW w1 \in F!Halves,
         addr % 2 = 0 => w0.from = addr /\ w1.from = After(addr, 1),
         addr % 2 = 1 => w1.from = addr
  PROVE  /\ pc % 2 = 0 =>
              addr % 2 = 0 /\ Buffered(pc, Append(qf, w0), Append(qs, w1), After(addr, 2))
         /\ pc % 2 = 1 /\ addr % 2 = 0 =>
              Buffered(pc, Append(qf, w1), Append(qs, w0), After(addr, 2))
         /\ pc % 2 = 1 /\ addr % 2 = 1 =>
              Buffered(pc, Append(qf, w1), qs, After(addr, 1))
<1> DEFINE n == Len(qs)
<1>1. /\ n \in Nat /\ Len(qf) \in Nat /\ After(pc, 1) \in Pcs /\ pc \in Nat /\ addr \in Nat
      /\ Len(Append(qs, w0)) = n + 1 /\ Len(Append(qs, w1)) = n + 1
      /\ Len(Append(qf, w0)) = Len(qf) + 1 /\ Len(Append(qf, w1)) = Len(qf) + 1
  <2>1. n \in Nat /\ Len(qf) \in Nat
    BY LenProperties DEF Queues
  <2>2. Len(Append(qs, w0)) = n + 1 /\ Len(Append(qs, w1)) = n + 1
    BY AppendProperties DEF Queues
  <2>3. Len(Append(qf, w0)) = Len(qf) + 1 /\ Len(Append(qf, w1)) = Len(qf) + 1
    BY AppendProperties DEF Queues
  <2>4. pc \in Nat /\ addr \in Nat /\ After(pc, 1) \in Pcs
    BY NextParity, CoreAssumption DEF CoreAssumption, Pcs
  <2> QED
    BY <2>1, <2>2, <2>3, <2>4
<1>2. EverySecond(qf, pc) /\ EverySecond(qs, After(pc, 1))
  BY DEF Buffered
<1>3. CASE pc % 2 = 0
  <2>1. Len(qf) = n /\ addr = After(pc, 2 * n)
    BY <1>3 DEF Buffered
  <2>2. addr % 2 = 0
    <3>1. 2 * n \in Nat /\ (pc + 2 * n) % 2 = 0
      BY <1>1, <1>3
    <3> QED
      BY <2>1, <3>1, AfterFacts
  <2>3. w0.from = After(pc, 2 * Len(qf)) /\ w1.from = After(After(pc, 1), 2 * n)
    BY <1>1, <2>1, <2>2, AfterFacts
  <2>4. After(addr, 2) = After(pc, 2 * (n + 1))
    <3>1. 2 * n \in Nat /\ 2 * n + 2 = 2 * (n + 1)
      BY <1>1
    <3> QED
      BY <2>1, <3>1, AfterFacts
  <2>5. EverySecond(Append(qf, w0), pc) /\ EverySecond(Append(qs, w1), After(pc, 1))
    BY <1>1, <1>2, <2>3, EverySecondAppend
  <2>6. Len(Append(qf, w0)) = Len(Append(qs, w1)) /\ Len(Append(qs, w1)) = n + 1
    BY <1>1, <2>1
  <2> QED
    BY <1>3, <2>2, <2>4, <2>5, <2>6 DEF Buffered
<1>4. CASE pc % 2 = 1 /\ addr % 2 = 0
  <2>1. Len(qf) = n + 1 /\ addr = After(pc, 2 * n + 1)
    BY <1>4 DEF Buffered
  <2>2. w0.from = After(After(pc, 1), 2 * n) /\ w1.from = After(pc, 2 * Len(qf))
    <3>1. /\ 2 * n + 1 \in Nat /\ 2 * n \in Nat /\ 1 + 2 * n = 2 * n + 1
          /\ (2 * n + 1) + 1 = 2 * Len(qf)
      BY <1>1, <2>1
    <3> QED
      BY <1>4, <2>1, <3>1, AfterFacts
  <2>3. After(addr, 2) = After(pc, 2 * (n + 1) + 1)
    <3>1. 2 * n + 1 \in Nat /\ (2 * n + 1) + 2 = 2 * (n + 1) + 1
      BY <1>1
    <3> QED
      BY <2>1, <3>1, AfterFacts
  <2> QED
    BY <1>1, <1>2, <1>4, <2>1, <2>2, <2>3, EverySecondAppend DEF Buffered
<1>5. CASE pc % 2 = 1 /\ addr % 2 = 1
  <2>1. Len(qf) = 0 /\ n = 0 /\ addr = pc
    <3>1. addr # After(pc, 2 * n + 1)
      <4>1. 2 * n + 1 \in Nat /\ (pc + (2 * n + 1)) % 2 = 0
        BY <1>1, <1>5
      <4> QED
        BY <1>5, <4>1, AfterFacts
    <3> QED
      BY <1>5, <3>1 DEF Buffered
  <2>2. w1.from = After(pc, 2 * Len(qf)) /\ After(addr, 1) = After(pc, 2 * n + 1)
    <3>1. 2 * Len(qf) = 0 /\ 2 * n + 1 = 1
      BY <2>1
    <3> QED
      BY <1>5, <2>1, <3>1, AfterFacts
  <2>3. EverySecond(Append(qf, w1), pc)
    BY <1>2, <2>2, EverySecondAppend
  <2>4. Len(Append(qf, w1)) = n + 1
    BY <1>1, <2>1
  <2> QED
    BY <1>2, <1>5, <2>2, <2>3, <2>4 DEF Buffered
<1> QED
  BY <1>3, <1>4, <1>5, NextParity

-------------------------------------------------------------------------------
(* The frontend.                                                             *)

PrivModes  == {"U", "M"}
FetchTypes == [state : {"S_RESTART", "S_REQUEST", "S_PENDING"}, reset : BOOLEAN, addr : Pcs,
               priv : PrivModes, debug : BOOLEAN]

FrontendTypeOK ==
  /\ generics \in Configurations
  /\ fetch \in FetchTypes
  /\ ipb \in [{0, 1} -> Queues]
  /\ align_q \in BOOLEAN

\* Without compressed instructions the two FIFOs move together.
Paired == ~generics.c => Len(ipb[0]) = Len(ipb[1])

\* A restart that was asked for is remembered until the fetch engine is free to
\* follow it, and what it brings before is dropped.
Restarts ==
  /\ fetch.state = "S_RESTART" => fetch.reset
  /\ fetch.reset => ipb[0] = <<>> /\ ipb[1] = <<>>

\* What is left of a FIFO when the issue engine has taken its part.
Left(i, ready) ==
  IF F!valid /\ ready /\ i \in F!taken_from THEN Tail(ipb[i]) ELSE ipb[i]

LEMMA GenericsTypes ==
  ASSUME generics \in Configurations
  PROVE  /\ generics.c \in BOOLEAN /\ generics.u \in BOOLEAN /\ generics.sdext \in BOOLEAN
         /\ generics.irqs \subseteq SystemIrqs /\ generics.kinds \subseteq Kinds
         /\ generics.trig => generics.sdext
BY CoreAssumption DEF CoreAssumption

\* What is taken was there.
LEMMA TakenWasThere ==
  ASSUME FrontendTypeOK, Paired, NEW i \in {0, 1}, F!valid, i \in F!taken_from
  PROVE  ipb[i] # <<>>
<1>1. ipb[0] \in Queues /\ ipb[1] \in Queues /\ F!first \in {0, 1} /\ F!second \in {0, 1}
  BY DEF FrontendTypeOK, F!first, F!second
<1>2. CASE F!compressed
  BY <1>2 DEF F!compressed, F!avail, F!taken_from
<1>3. CASE ~F!compressed /\ generics.c
  <2>1. ipb[F!first] # <<>> /\ ipb[F!second] # <<>>
    BY <1>3 DEF F!valid, F!avail
  <2>2. F!first = i \/ F!second = i
    BY DEF F!first, F!second
  <2> QED
    BY <2>1, <2>2
<1>4. CASE ~generics.c
  <2>1. ipb[0] # <<>>
    BY <1>4 DEF F!valid, F!avail
  <2>2. Len(ipb[0]) = Len(ipb[1]) /\ Len(ipb[0]) # 0
    BY <1>1, <1>4, <2>1, EmptySeq DEF Paired, Queues
  <2>3. ipb[1] # <<>>
    BY <2>2, EmptySeq
  <2> QED
    BY <2>1, <2>3
<1> QED
  BY <1>2, <1>3, <1>4

LEMMA LeftTypes ==
  ASSUME FrontendTypeOK, Paired, NEW i \in {0, 1}, NEW ready
  PROVE  /\ Left(i, ready) \in Queues
         /\ Len(Left(i, ready)) \in Nat
         /\ \A k \in 1 .. Len(Left(i, ready)) : \E j \in 1 .. Len(ipb[i]) :
              Left(i, ready)[k] = ipb[i][j]
<1>1. ipb[i] \in Queues
  BY DEF FrontendTypeOK
<1>2. CASE F!valid /\ ready /\ i \in F!taken_from
  <2>1. ipb[i] # <<>> /\ Left(i, ready) = Tail(ipb[i])
    BY <1>2, TakenWasThere DEF Left
  <2>2. /\ Tail(ipb[i]) \in Queues /\ Len(Tail(ipb[i])) \in Nat
        /\ Len(Tail(ipb[i])) = Len(ipb[i]) - 1
        /\ \A k \in 1 .. Len(Tail(ipb[i])) : Tail(ipb[i])[k] = ipb[i][k + 1]
    BY <1>1, <2>1, HeadTailProperties, LenProperties DEF Queues
  <2>3. \A k \in 1 .. Len(Tail(ipb[i])) : k + 1 \in 1 .. Len(ipb[i])
    BY <1>1, <2>2, LenProperties DEF Queues
  <2> QED
    BY <2>1, <2>2, <2>3
<1>3. CASE ~(F!valid /\ ready /\ i \in F!taken_from)
  BY <1>1, <1>3, LenProperties DEF Left, Queues
<1> QED
  BY <1>2, <1>3

LEMMA LowFacts ==
  ASSUME fetch \in FetchTypes
  PROVE  /\ F!Low \in Pcs /\ F!Low + 1 \in Pcs /\ After(F!Low, 2) \in Pcs
         /\ fetch.addr % 2 = 0 =>
              F!Low = fetch.addr /\ F!Low + 1 = After(fetch.addr, 1)
         /\ fetch.addr % 2 = 1 =>
              F!Low + 1 = fetch.addr /\ After(F!Low, 2) = After(fetch.addr, 1)
<1>1. fetch.addr \in Pcs /\ fetch.addr \in Nat
  BY CoreAssumption DEF FetchTypes, CoreAssumption, Pcs
<1>2. CASE fetch.addr % 2 = 0
  <2>1. F!Low = fetch.addr
    BY <1>2 DEF F!Low
  <2> QED
    BY <1>1, <1>2, <2>1, WordFacts, AfterFacts
<1>3. CASE fetch.addr % 2 = 1
  <2>1. F!Low = fetch.addr - 1 /\ F!Low + 1 = fetch.addr
    BY <1>1, <1>3 DEF F!Low
  <2> QED
    BY <1>1, <1>3, <2>1, WordFacts, AfterFacts
<1> QED
  BY <1>1, <1>2, <1>3, WordFacts

HalfBits == [{0, 1} -> BOOLEAN]   \* of both half-words of a word

LEMMA WdataTypes ==
  ASSUME fetch \in FetchTypes, NEW i \in {0, 1}, NEW b \in BOOLEAN, NEW err \in BOOLEAN
  PROVE  /\ F!wdata(i, b, err) \in F!Halves
         /\ F!wdata(i, b, err).from = F!Low + i
         /\ F!wdata(i, b, err).priv = fetch.priv /\ F!wdata(i, b, err).debug = fetch.debug
<1>1. F!Low + i \in Pcs /\ F!Pcs = Pcs
  <2>1. F!Low \in Pcs /\ F!Low + 1 \in Pcs /\ F!Low + 0 = F!Low
    BY LowFacts DEF Pcs
  <2> QED
    BY <2>1 DEF F!Pcs, Pcs
<1> QED
  BY <1>1 DEF F!wdata, F!Halves, FetchTypes, PrivModes

\* The registers of the frontend at a clock edge.
LEMMA FrontendTypes ==
  ASSUME FrontendTypeOK, Paired, NEW if_reset \in BOOLEAN, NEW ready \in BOOLEAN,
         NEW pc_nxt \in Pcs, NEW prv \in PrivModes, NEW dbg \in BOOLEAN,
         NEW ack \in BOOLEAN, NEW err \in BOOLEAN, NEW compr \in HalfBits,
         F!fetch_fsm(if_reset, pc_nxt, prv, dbg, ack),
         F!prefetch_buffer(if_reset, ready, ack, compr, err),
         F!issue_fsm_sync(ready, pc_nxt), generics' = generics
  PROVE  FrontendTypeOK' /\ Paired'
<1> USE DEF FrontendTypeOK
<1>1. fetch' \in FetchTypes
  <2>1. After(F!Low, 2) \in Pcs /\ F!After(F!Low, 2) = After(F!Low, 2)
    BY LowFacts DEF F!After, After
  <2> QED
    BY <2>1 DEF F!fetch_fsm, F!restart, FetchTypes, PrivModes
<1>2. ASSUME NEW i \in {0, 1}
      PROVE  /\ ipb'[i] \in Queues
             /\ ipb'[i] = IF F!restart(if_reset) THEN <<>>
                          ELSE IF F!we(i, ack)
                               THEN Append(Left(i, ready), F!wdata(i, compr[i], err))
                               ELSE Left(i, ready)
  <2>1. ipb'[i] = IF F!restart(if_reset) THEN <<>>
                  ELSE IF F!we(i, ack)
                       THEN Append(Left(i, ready), F!wdata(i, compr[i], err))
                       ELSE Left(i, ready)
    BY DEF F!prefetch_buffer, Left
  <2>2. Left(i, ready) \in Queues /\ F!wdata(i, compr[i], err) \in F!Halves
    BY LeftTypes, WdataTypes DEF HalfBits
  <2>3. <<>> \in Queues /\ Append(Left(i, ready), F!wdata(i, compr[i], err)) \in Queues
    BY <2>2, AppendProperties, EmptySeq DEF Queues
  <2> QED
    BY <2>1, <2>2, <2>3
<1>3. ipb' \in [{0, 1} -> Queues]
  <2>1. DOMAIN ipb' = {0, 1} /\ ipb' = [i \in {0, 1} |-> ipb'[i]]
    BY DEF F!prefetch_buffer
  <2> QED
    BY <1>2, <2>1
<1>4. align_q' \in BOOLEAN
  BY DEF F!issue_fsm_sync
<1>5. Paired'
  <2> SUFFICES ASSUME ~generics.c PROVE Len(ipb'[0]) = Len(ipb'[1])
    BY DEF Paired
  <2>1. F!we(0, ack) <=> F!we(1, ack)
    BY DEF F!we
  <2>2. Len(Left(0, ready)) = Len(Left(1, ready))
    <3>1. F!taken_from = {0, 1}
      BY DEF F!taken_from, F!compressed
    <3>2. CASE F!valid /\ ready
      <4>1. /\ Left(0, ready) = Tail(ipb[0]) /\ ipb[0] # <<>> /\ ipb[0] \in Queues
            /\ Left(1, ready) = Tail(ipb[1]) /\ ipb[1] # <<>> /\ ipb[1] \in Queues
        BY <3>1, <3>2, TakenWasThere DEF Left
      <4> QED
        BY <4>1, HeadTailProperties DEF Paired, Queues
    <3>3. CASE ~(F!valid /\ ready)
      BY <3>3 DEF Left, Paired
    <3> QED
      BY <3>2, <3>3
  <2>3. ASSUME NEW i \in {0, 1}
        PROVE  Len(Append(Left(i, ready), F!wdata(i, compr[i], err))) = Len(Left(i, ready)) + 1
    BY LeftTypes, WdataTypes, AppendProperties DEF Queues
  <2> QED
    BY <1>2, <2>1, <2>2, <2>3
<1> QED
  BY <1>1, <1>3, <1>4, <1>5

\* The frontend is where the back-end is: the issue engine is aligned to `pc', the
\* FIFOs hold what follows it, and the fetch goes on behind them.
At(pc) ==
  /\ align_q <=> pc % 2 = 1
  /\ Buffered(pc, ipb[pc % 2], ipb[1 - (pc % 2)], fetch.addr)

\* Everything in it was fetched with this privilege and debug mode.
FetchedFor(prv, dbg) ==
  /\ fetch.priv = prv /\ fetch.debug = dbg
  /\ \A i \in {0, 1} : \A k \in 1 .. Len(ipb[i]) : ipb[i][k].priv = prv /\ ipb[i][k].debug = dbg

\* Behind the instruction that is issued.
Behind(pc, ready) ==
  IF F!valid /\ ready THEN After(pc, IF F!compressed THEN 1 ELSE 2) ELSE pc

\* What the issue engine issues lies at pc.
LEMMA IssuedAt ==
  ASSUME FrontendTypeOK, Paired, NEW pc \in Pcs, At(pc), ~generics.c => pc % 2 = 0, F!valid
  PROVE  /\ F!issued[1] = Head(ipb[pc % 2]) /\ Head(ipb[pc % 2]).from = pc
         /\ ipb[pc % 2] # <<>>
         /\ ~F!compressed => /\ F!issued[2] = Head(ipb[1 - (pc % 2)])
                             /\ Head(ipb[1 - (pc % 2)]).from = After(pc, 1)
                             /\ ipb[1 - (pc % 2)] # <<>>
<1>1. /\ F!first = pc % 2 /\ F!second = 1 - (pc % 2)
      /\ pc % 2 \in {0, 1} /\ 1 - (pc % 2) \in {0, 1}
  <2>1. pc % 2 \in {0, 1}
    BY NextParity
  <2> QED
    BY <2>1 DEF At, F!first, F!second
<1>2. /\ ipb[pc % 2] \in Queues /\ ipb[1 - (pc % 2)] \in Queues /\ fetch.addr \in Pcs
      /\ Buffered(pc, ipb[pc % 2], ipb[1 - (pc % 2)], fetch.addr)
  BY <1>1 DEF FrontendTypeOK, FetchTypes, At
<1>3. ipb[pc % 2] # <<>> /\ (~F!compressed => ipb[1 - (pc % 2)] # <<>>)
  <2>1. pc % 2 \in F!taken_from /\ (~F!compressed => 1 - (pc % 2) \in F!taken_from)
    BY <1>1 DEF F!taken_from
  <2> QED
    BY <1>1, <2>1, TakenWasThere
<1>4. Head(ipb[pc % 2]).from = pc
  BY <1>2, <1>3, PopOne
<1>5. ~F!compressed => Head(ipb[1 - (pc % 2)]).from = After(pc, 1)
  BY <1>2, <1>3, PopTwo
<1>6. /\ F!issued[1] = Head(ipb[pc % 2])
      /\ ~F!compressed => F!issued[2] = Head(ipb[1 - (pc % 2)])
  <2>1. /\ F!issued[1] = Head(ipb[F!first])
        /\ ~F!compressed => F!issued[2] = Head(ipb[F!second])
    BY DEF F!issued
  <2> QED
    BY <1>1, <2>1
<1> QED
  BY <1>3, <1>4, <1>5, <1>6

\* The issue engine goes on behind it.
LEMMA IssueGoesOn ==
  ASSUME FrontendTypeOK, Paired, NEW pc \in Pcs, At(pc), ~generics.c => pc % 2 = 0,
         NEW ready \in BOOLEAN, ~fetch.reset,
         NEW pc_nxt \in Pcs, F!issue_fsm_sync(ready, pc_nxt)
  PROVE  /\ Behind(pc, ready) \in Pcs
         /\ (align_q' <=> Behind(pc, ready) % 2 = 1)
         /\ ~generics.c => Behind(pc, ready) % 2 = 0
         /\ Buffered(Behind(pc, ready), Left(Behind(pc, ready) % 2, ready),
                     Left(1 - (Behind(pc, ready) % 2), ready), fetch.addr)
<1> DEFINE f == pc % 2
<1>1. /\ F!first = f /\ F!second = 1 - f /\ f \in {0, 1} /\ 1 - f \in {0, 1}
      /\ 1 - (1 - f) = f
  <2>1. f \in {0, 1}
    BY NextParity
  <2>2. F!first = f /\ F!second = 1 - f
    BY <2>1 DEF At, F!first, F!second
  <2> QED
    BY <2>1, <2>2
<1>2. /\ ipb[f] \in Queues /\ ipb[1 - f] \in Queues /\ fetch.addr \in Pcs
      /\ Buffered(pc, ipb[f], ipb[1 - f], fetch.addr)
      /\ align_q <=> f = 1
  BY <1>1 DEF FrontendTypeOK, FetchTypes, At
<1>3. F!compressed => generics.c
  BY DEF F!compressed
<1>4. CASE ~(F!valid /\ ready)
  <2>1. Behind(pc, ready) = pc /\ Left(f, ready) = ipb[f] /\ Left(1 - f, ready) = ipb[1 - f]
    BY <1>4 DEF Behind, Left
  <2>2. align_q' <=> f = 1
    BY <1>2, <1>4 DEF F!issue_fsm_sync
  <2>3. Behind(pc, ready) % 2 = f
    BY <2>1
  <2> QED
    BY <1>2, <2>1, <2>2, <2>3
<1>5. CASE F!valid /\ ready /\ F!compressed
  <2>1. Behind(pc, ready) = After(pc, 1) /\ After(pc, 1) \in Pcs /\ After(pc, 1) % 2 = 1 - f
    BY <1>1, <1>5, NextParity DEF Behind
  <2>2. Left(1 - f, ready) = ipb[1 - f] /\ Left(f, ready) = Tail(ipb[f])
    BY <1>1, <1>5 DEF Left, F!taken_from
  <2>3. Buffered(After(pc, 1), ipb[1 - f], Tail(ipb[f]), fetch.addr)
    BY <1>2, <1>5, IssuedAt, PopOne
  <2>4. align_q' <=> 1 - f = 1
    <3>1. generics.c /\ align_q' = ~align_q
      BY <1>3, <1>5 DEF F!issue_fsm_sync
    <3>2. align_q' <=> ~(f = 1)
      BY <1>2, <3>1
    <3> QED
      BY <1>1, <3>2
  <2>5. Behind(pc, ready) % 2 = 1 - f /\ 1 - (Behind(pc, ready) % 2) = f
    BY <1>1, <2>1
  <2>6. align_q' <=> Behind(pc, ready) % 2 = 1
    BY <2>4, <2>5
  <2>7. Buffered(Behind(pc, ready), Left(Behind(pc, ready) % 2, ready),
                 Left(1 - (Behind(pc, ready) % 2), ready), fetch.addr)
    BY <2>1, <2>2, <2>3, <2>5
  <2> QED
    BY <1>3, <1>5, <2>1, <2>6, <2>7
<1>6. CASE F!valid /\ ready /\ ~F!compressed
  <2>1. Behind(pc, ready) = After(pc, 2) /\ After(pc, 2) \in Pcs /\ After(pc, 2) % 2 = f
    BY <1>1, <1>6, NextParity DEF Behind
  <2>2. Left(f, ready) = Tail(ipb[f]) /\ Left(1 - f, ready) = Tail(ipb[1 - f])
    BY <1>1, <1>6 DEF Left, F!taken_from
  <2>3. Buffered(After(pc, 2), Tail(ipb[f]), Tail(ipb[1 - f]), fetch.addr)
    BY <1>2, <1>6, IssuedAt, PopTwo
  <2>4. align_q' <=> f = 1
    BY <1>1, <1>2, <1>6 DEF F!issue_fsm_sync
  <2>5. Behind(pc, ready) % 2 = f
    BY <2>1
  <2> QED
    BY <2>1, <2>2, <2>3, <2>4, <2>5
<1> QED
  BY <1>4, <1>5, <1>6

\* What a clock edge leaves in a FIFO.
LEMMA IpbAfter ==
  ASSUME FrontendTypeOK, NEW if_reset, NEW ready, NEW ack, NEW err,
         NEW compr, F!prefetch_buffer(if_reset, ready, ack, compr, err), NEW i \in {0, 1}
  PROVE  /\ F!restart(if_reset) => ipb'[i] = <<>>
         /\ ~F!restart(if_reset) /\ F!we(i, ack) =>
              ipb'[i] = Append(Left(i, ready), F!wdata(i, compr[i], err))
         /\ ~F!restart(if_reset) /\ ~F!we(i, ack) => ipb'[i] = Left(i, ready)
BY DEF F!prefetch_buffer, Left

\* Without a restart the frontend goes on behind what it issues.
LEMMA FrontendGoesOn ==
  ASSUME FrontendTypeOK, Paired, Restarts, NEW pc \in Pcs, At(pc), ~generics.c => pc % 2 = 0,
         NEW ready \in BOOLEAN, NEW b \in Pcs, b = Behind(pc, ready),
         NEW pc_nxt \in Pcs, NEW prv, NEW dbg, NEW prv_nxt, NEW dbg_nxt,
         FetchedFor(prv, dbg),
         NEW ack \in BOOLEAN, NEW err \in BOOLEAN, NEW compr \in HalfBits,
         ack => fetch.state = "S_PENDING",
         NEW r \in BOOLEAN, ~F!restart(r),
         F!fetch_fsm(r, pc_nxt, prv_nxt, dbg_nxt, ack),
         F!prefetch_buffer(r, ready, ack, compr, err),
         F!issue_fsm_sync(ready, pc_nxt)
  PROVE  At(b)' /\ FetchedFor(prv, dbg)' /\ ~fetch'.reset
<1> DEFINE w(i) == F!wdata(i, compr[i], err)
<1>1. ~fetch.reset /\ fetch.state # "S_RESTART" /\ fetch \in FetchTypes /\ fetch.addr \in Pcs
  BY DEF F!restart, Restarts, FrontendTypeOK, FetchTypes
<1>2. /\ b \in Pcs
      /\ align_q' <=> b % 2 = 1
      /\ ~generics.c => b % 2 = 0
      /\ Buffered(b, Left(b % 2, ready), Left(1 - (b % 2), ready), fetch.addr)
      /\ b % 2 \in {0, 1}
  BY <1>1, IssueGoesOn, NextParity
<1>3. /\ Left(0, ready) \in Queues /\ Left(1, ready) \in Queues
      /\ w(0) \in F!Halves /\ w(1) \in F!Halves
  BY <1>1, LeftTypes, WdataTypes DEF HalfBits
<1>4. /\ F!we(0, ack) => ipb'[0] = Append(Left(0, ready), w(0))
      /\ F!we(1, ack) => ipb'[1] = Append(Left(1, ready), w(1))
      /\ ~F!we(0, ack) => ipb'[0] = Left(0, ready)
      /\ ~F!we(1, ack) => ipb'[1] = Left(1, ready)
  BY DEF F!prefetch_buffer, Left
<1>5. fetch'.priv = prv /\ fetch'.debug = dbg /\ ~fetch'.reset
  BY <1>1 DEF F!fetch_fsm, FetchTypes, FetchedFor, F!restart
<1>6. Buffered(b, ipb'[b % 2], ipb'[1 - (b % 2)], fetch'.addr)
  <2>1. CASE ack
    <3>1. fetch.state = "S_PENDING" /\ fetch'.addr = After(F!Low, 2)
      BY <1>1, <2>1 DEF F!fetch_fsm, FetchTypes, F!After, After
    <3>2. /\ F!we(1, ack)
          /\ F!we(0, ack) <=> fetch.addr % 2 = 0 \/ ~generics.c
      BY <2>1, <3>1 DEF F!we
    <3>3. ipb'[1] = Append(Left(1, ready), w(1))
      BY <1>4, <3>2
    <3>4. /\ fetch.addr % 2 = 0 =>
               /\ w(0).from = fetch.addr /\ w(1).from = After(fetch.addr, 1)
               /\ fetch'.addr = After(fetch.addr, 2)
          /\ fetch.addr % 2 = 1 =>
               w(1).from = fetch.addr /\ fetch'.addr = After(fetch.addr, 1)
      <4>1. w(0).from = F!Low + 0 /\ w(1).from = F!Low + 1 /\ F!Low + 0 = F!Low
        BY <1>1, WdataTypes, LowFacts, CoreAssumption DEF Pcs, CoreAssumption, HalfBits
      <4> QED
        BY <1>1, <3>1, <4>1, LowFacts
    <3>5. CASE b % 2 = 0
      <4>1. Buffered(b, Left(0, ready), Left(1, ready), fetch.addr)
        BY <1>2, <3>5
      <4>2. /\ fetch.addr % 2 = 0
            /\ Buffered(b, Append(Left(0, ready), w(0)), Append(Left(1, ready), w(1)),
                        After(fetch.addr, 2))
        BY <1>1, <1>2, <1>3, <3>4, <3>5, <4>1, PushWord
      <4>3. ipb'[0] = Append(Left(0, ready), w(0))
        BY <1>4, <3>2, <4>2
      <4>4. fetch'.addr = After(fetch.addr, 2)
        BY <3>4, <3>5, <4>2
      <4>5. ipb'[b % 2] = ipb'[0] /\ ipb'[1 - (b % 2)] = ipb'[1]
        BY <3>5
      <4> QED
        BY <3>3, <4>2, <4>3, <4>4, <4>5
    <3>6. CASE b % 2 = 1 /\ fetch.addr % 2 = 0
      <4>1. Buffered(b, Left(1, ready), Left(0, ready), fetch.addr)
        BY <1>2, <3>6
      <4>2. Buffered(b, Append(Left(1, ready), w(1)), Append(Left(0, ready), w(0)),
                     After(fetch.addr, 2))
        BY <1>1, <1>2, <1>3, <3>4, <3>6, <4>1, PushWord
      <4>3. ipb'[0] = Append(Left(0, ready), w(0))
        BY <1>4, <3>2, <3>6
      <4>4. fetch'.addr = After(fetch.addr, 2)
        BY <3>4, <3>6, <4>2
      <4>5. ipb'[b % 2] = ipb'[1] /\ ipb'[1 - (b % 2)] = ipb'[0]
        BY <3>6
      <4> QED
        BY <3>3, <4>2, <4>3, <4>4, <4>5
    <3>7. CASE b % 2 = 1 /\ fetch.addr % 2 = 1
      <4>1. Buffered(b, Left(1, ready), Left(0, ready), fetch.addr)
        BY <1>2, <3>7
      <4>2. Buffered(b, Append(Left(1, ready), w(1)), Left(0, ready), After(fetch.addr, 1))
        BY <1>1, <1>2, <1>3, <3>4, <3>7, <4>1, PushWord
      <4>3. ipb'[0] = Left(0, ready)
        BY <1>2, <1>4, <3>2, <3>7
      <4>4. fetch'.addr = After(fetch.addr, 1)
        BY <3>4, <3>7, <4>2
      <4>5. ipb'[b % 2] = ipb'[1] /\ ipb'[1 - (b % 2)] = ipb'[0]
        BY <3>7
      <4> QED
        BY <3>3, <4>2, <4>3, <4>4, <4>5
    <3> QED
      BY <1>1, <1>2, <3>5, <3>6, <3>7, WordFacts
  <2>2. CASE ~ack
    <3>1. fetch'.addr = fetch.addr
      BY <1>1, <2>2 DEF F!fetch_fsm, FetchTypes
    <3>2. ipb'[0] = Left(0, ready) /\ ipb'[1] = Left(1, ready)
      BY <1>4, <2>2 DEF F!we
    <3> QED
      BY <1>2, <3>1, <3>2
  <2> QED
    BY <2>1, <2>2
<1>7. ASSUME NEW i \in {0, 1}, NEW k \in 1 .. Len(ipb'[i])
      PROVE  ipb'[i][k].priv = prv /\ ipb'[i][k].debug = dbg
  <2>1. ASSUME NEW j \in 1 .. Len(Left(i, ready))
        PROVE  Left(i, ready)[j].priv = prv /\ Left(i, ready)[j].debug = dbg
    <3>1. PICK l \in 1 .. Len(ipb[i]) : Left(i, ready)[j] = ipb[i][l]
      BY LeftTypes
    <3> QED
      BY <3>1 DEF FetchedFor
  <2>2. CASE ~F!we(i, ack)
    <3>1. ipb'[i] = Left(i, ready)
      BY <2>2, IpbAfter
    <3> QED
      BY <2>1, <3>1
  <2>3. CASE F!we(i, ack)
    <3>1. /\ Left(i, ready) \in Queues /\ w(i) \in F!Halves
          /\ Len(Left(i, ready)) \in Nat
          /\ w(i).priv = prv /\ w(i).debug = dbg
      BY <1>1, LeftTypes, WdataTypes DEF FetchedFor, HalfBits
    <3>2. ipb'[i] = Append(Left(i, ready), w(i))
      BY <2>3 DEF F!prefetch_buffer, Left
    <3>3. /\ Len(ipb'[i]) = Len(Left(i, ready)) + 1
          /\ \A j \in 1 .. Len(Left(i, ready)) : ipb'[i][j] = Left(i, ready)[j]
          /\ ipb'[i][Len(Left(i, ready)) + 1] = w(i)
      BY <3>1, <3>2, AppendProperties DEF Queues
    <3>4. k \in 1 .. Len(Left(i, ready)) \/ k = Len(Left(i, ready)) + 1
      BY <3>1, <3>3
    <3> QED
      BY <2>1, <3>1, <3>3, <3>4
  <2> QED
    BY <2>2, <2>3
<1> QED
  BY <1>2, <1>5, <1>6, <1>7 DEF At, FetchedFor

\* After a restart it is where it was sent.
LEMMA FrontendRestarts ==
  ASSUME FrontendTypeOK, NEW if_reset, NEW ready, NEW pc_nxt \in Pcs, NEW prv, NEW dbg,
         NEW ack, NEW err, NEW compr, fetch.state = "S_RESTART", fetch.reset,
         ~generics.c => pc_nxt % 2 = 0,
         F!fetch_fsm(if_reset, pc_nxt, prv, dbg, ack),
         F!prefetch_buffer(if_reset, ready, ack, compr, err),
         F!issue_fsm_sync(ready, pc_nxt)
  PROVE  At(pc_nxt)' /\ FetchedFor(prv, dbg)' /\ ~fetch'.reset
<1>1. F!restart(if_reset)
  BY DEF F!restart
<1>2. ipb'[0] = <<>> /\ ipb'[1] = <<>>
  BY <1>1, IpbAfter
<1>3. fetch' = [state |-> "S_REQUEST", reset |-> FALSE, addr |-> pc_nxt,
                priv |-> prv, debug |-> dbg]
  BY DEF F!fetch_fsm
<1>4. align_q' <=> pc_nxt % 2 = 1
  <2>1. CASE generics.c
    <3>1. align_q' = (pc_nxt % 2 = 1)
      BY <2>1 DEF F!issue_fsm_sync
    <3> QED
      BY <3>1
  <2>2. CASE ~generics.c
    BY <2>2 DEF F!issue_fsm_sync
  <2> QED
    BY <2>1, <2>2
<1>5. Buffered(pc_nxt, ipb'[pc_nxt % 2], ipb'[1 - (pc_nxt % 2)], fetch'.addr)
  <2>1. pc_nxt % 2 \in {0, 1} /\ 1 - (pc_nxt % 2) \in {0, 1}
    BY NextParity
  <2>2. ipb'[pc_nxt % 2] = <<>> /\ ipb'[1 - (pc_nxt % 2)] = <<>>
    BY <1>2, <2>1
  <2> QED
    BY <1>3, <2>2, BufferedEmpty
<1>6. \A i \in {0, 1} : Len(ipb'[i]) = 0
  BY <1>2, EmptySeq
<1> QED
  BY <1>3, <1>4, <1>5, <1>6 DEF At, FetchedFor

\* A restart is not forgotten, and nothing is left of what was fetched before.
LEMMA FrontendRemembers ==
  ASSUME FrontendTypeOK, Restarts, NEW if_reset \in BOOLEAN, NEW ready, NEW pc_nxt, NEW prv,
         NEW dbg, NEW ack \in BOOLEAN, NEW err, NEW compr,
         ack => fetch.state = "S_PENDING",
         F!fetch_fsm(if_reset, pc_nxt, prv, dbg, ack),
         F!prefetch_buffer(if_reset, ready, ack, compr, err)
  PROVE  /\ Restarts'
         /\ fetch.state # "S_RESTART" => (fetch'.reset <=> F!restart(if_reset))
<1>1. fetch'.state = "S_RESTART" => fetch'.reset
  BY DEF FrontendTypeOK, FetchTypes, F!fetch_fsm, F!restart
<1>2. fetch.state # "S_RESTART" => (fetch'.reset <=> F!restart(if_reset))
  BY DEF FrontendTypeOK, FetchTypes, F!fetch_fsm, F!restart
<1>3. fetch.state = "S_RESTART" => ~fetch'.reset
  BY DEF F!fetch_fsm
<1>4. F!restart(if_reset) => ipb'[0] = <<>> /\ ipb'[1] = <<>>
  BY IpbAfter
<1> QED
  BY <1>1, <1>2, <1>3, <1>4 DEF Restarts

-------------------------------------------------------------------------------
(* The control unit.                                                         *)

ExecTypes == [state : States, kind : Kinds, bad : BOOLEAN, ci : BOOLEAN, pc : Pcs, pc2 : Pcs]
CtrlTypes == [rf_wb_en : BOOLEAN, csr_we : BOOLEAN, lsu_req : BOOLEAN]
CsrTypes ==
  [prv : PrivModes, mie : BOOLEAN, mpie : BOOLEAN, mpp : PrivModes, ie : SUBSET SystemIrqs,
   mepc : Pcs, mcause_irq : BOOLEAN, step : BOOLEAN, ebreak : SUBSET PrivModes,
   dprv : PrivModes, dpc : Pcs]

ControlTypeOK ==
  /\ generics \in Configurations
  /\ exec \in ExecTypes /\ ctrl \in CtrlTypes
  /\ monitor_cnt \in Nat
  /\ exc_buf \subseteq Exceptions
  /\ irq_pnd \subseteq SystemIrqs /\ irq_buf \subseteq SystemIrqs \union {"db_halt"}
  /\ env_pend \in BOOLEAN /\ debug_run \in BOOLEAN
  /\ csr \in CsrTypes

LEMMA AlignedFacts ==
  ASSUME NEW pc \in Pcs
  PROVE  Aligned(pc) \in Pcs /\ (~generics.c => Aligned(pc) % 2 = 0)
<1>1. pc \in Nat /\ pc % 2 \in {0, 1}
  BY CoreAssumption, NextParity DEF Pcs, CoreAssumption
<1>2. CASE pc % 2 = 0
  <2>1. Aligned(pc) = pc
    BY <1>1, <1>2 DEF Aligned
  <2> QED
    BY <1>2, <2>1
<1>3. CASE pc % 2 = 1
  <2>1. pc - 1 \in Pcs /\ (pc - 1) % 2 = 0
    BY <1>3, WordFacts
  <2>2. Aligned(pc) = IF generics.c THEN pc ELSE pc - 1
    BY <1>3 DEF Aligned
  <2> QED
    BY <2>1, <2>2
<1> QED
  BY <1>1, <1>2, <1>3

LEMMA EntryPoints ==
  /\ \A pc \in {Mtvec, DebugPark, DebugExc, BootAddr} : pc \in Pcs /\ pc % 2 = 0
  /\ 0 \in Pcs
BY CoreAssumption DEF CoreAssumption, Pcs

LEMMA TrapPcType == ASSUME exec \in ExecTypes PROVE trap_pc \in Pcs
BY DEF trap_pc, ExecTypes

\* What a CSR instruction writes.
LEMMA WrittenTypes ==
  ASSUME ControlTypeOK, csr_written
  PROVE  /\ csr' \in CsrTypes /\ csr'.prv = csr.prv
         /\ ~generics.c /\ csr.mepc % 2 = 0 /\ csr.dpc % 2 = 0 =>
              csr'.mepc % 2 = 0 /\ csr'.dpc % 2 = 0
<1> USE DEF ControlTypeOK
<1>1. Modes \subseteq PrivModes /\ generics.irqs \subseteq SystemIrqs
  BY GenericsTypes DEF Modes, PrivModes
<1>2. ASSUME NEW x \in BOOLEAN, NEW y \in BOOLEAN, NEW p \in Modes,
             csr' = [csr EXCEPT !.mie = x, !.mpie = y, !.mpp = p]
      PROVE  csr' \in CsrTypes /\ csr'.prv = csr.prv /\ csr'.mepc = csr.mepc /\ csr'.dpc = csr.dpc
  BY <1>1, <1>2 DEF CsrTypes
<1>3. ASSUME NEW i \in SUBSET generics.irqs, csr' = [csr EXCEPT !.ie = i]
      PROVE  csr' \in CsrTypes /\ csr'.prv = csr.prv /\ csr'.mepc = csr.mepc /\ csr'.dpc = csr.dpc
  BY <1>1, <1>3 DEF CsrTypes
<1>4. ASSUME NEW x \in BOOLEAN, NEW e \in SUBSET Modes,
             NEW p \in IF generics.u THEN Modes ELSE {"U"},
             csr' = [csr EXCEPT !.step = x, !.ebreak = e, !.dprv = p]
      PROVE  csr' \in CsrTypes /\ csr'.prv = csr.prv /\ csr'.mepc = csr.mepc /\ csr'.dpc = csr.dpc
  <2>1. p \in PrivModes /\ e \in SUBSET PrivModes
    BY <1>1 DEF PrivModes
  <2> QED
    BY <1>4, <2>1 DEF CsrTypes
<1>5. ASSUME NEW t \in Targets
      PROVE  Aligned(t) \in Pcs /\ (~generics.c => Aligned(t) % 2 = 0)
  BY AlignedFacts, CoreAssumption DEF CoreAssumption
<1>6. ASSUME NEW t \in Targets, csr' = [csr EXCEPT !.mepc = Aligned(t)]
      PROVE  /\ csr' \in CsrTypes /\ csr'.prv = csr.prv
             /\ csr'.mepc = Aligned(t) /\ csr'.dpc = csr.dpc
  BY <1>5, <1>6 DEF CsrTypes
<1>7. ASSUME NEW t \in Targets, csr' = [csr EXCEPT !.dpc = Aligned(t)]
      PROVE  /\ csr' \in CsrTypes /\ csr'.prv = csr.prv
             /\ csr'.mepc = csr.mepc /\ csr'.dpc = Aligned(t)
  BY <1>5, <1>7 DEF CsrTypes
<1>8. \/ \E x, y \in BOOLEAN, p \in Modes : csr' = [csr EXCEPT !.mie = x, !.mpie = y, !.mpp = p]
      \/ \E i \in SUBSET generics.irqs : csr' = [csr EXCEPT !.ie = i]
      \/ \E x \in BOOLEAN, e \in SUBSET Modes, p \in IF generics.u THEN Modes ELSE {"U"} :
           csr' = [csr EXCEPT !.step = x, !.ebreak = e, !.dprv = p]
      \/ \E t \in Targets : csr' = [csr EXCEPT !.mepc = Aligned(t)]
      \/ \E t \in Targets : csr' = [csr EXCEPT !.dpc = Aligned(t)]
  BY DEF csr_written
<1> QED
  BY <1>2, <1>3, <1>4, <1>5, <1>6, <1>7, <1>8

\* What a trap and a return from it leave in the CSRs.
LEMMA TrapCsrTypes ==
  ASSUME ControlTypeOK, NEW c \in {TrapToDebug, TrapToMachine, ReturnFromDebug, ReturnFromTrap}
  PROVE  /\ c \in CsrTypes
         /\ ~generics.c /\ csr.mepc % 2 = 0 /\ csr.dpc % 2 = 0 =>
              c.mepc % 2 = 0 /\ c.dpc % 2 = 0
<1> USE DEF ControlTypeOK
<1>1. Aligned(trap_pc) \in Pcs /\ (~generics.c => Aligned(trap_pc) % 2 = 0)
  BY TrapPcType, AlignedFacts
<1>2. CASE c = TrapToDebug
  BY <1>1, <1>2 DEF TrapToDebug, CsrTypes, PrivModes
<1>3. CASE c = TrapToMachine
  <2>1. (cause \in SystemIrqs) \in BOOLEAN
    OBVIOUS
  <2> QED
    BY <1>1, <1>3, <2>1 DEF TrapToMachine, CsrTypes, PrivModes
<1>4. CASE c = ReturnFromDebug
  BY <1>4 DEF ReturnFromDebug, CsrTypes, PrivModes
<1>5. CASE c = ReturnFromTrap
  BY <1>5 DEF ReturnFromTrap, CsrTypes, PrivModes
<1> QED
  BY <1>2, <1>3, <1>4, <1>5

\* The CSRs at a clock edge.
LEMMA CsrStep ==
  ASSUME ControlTypeOK, csr_write_access
  PROVE  /\ csr' \in CsrTypes
         /\ ~generics.c /\ csr.mepc % 2 = 0 /\ csr.dpc % 2 = 0 =>
              csr'.mepc % 2 = 0 /\ csr'.dpc % 2 = 0
         /\ ~env_enter /\ ~env_exit => csr'.prv = csr.prv
         /\ ~env_enter /\ ~env_exit /\ ~ctrl.csr_we => csr' = csr
<1>1. CASE ctrl.csr_we
  <2>1. csr_written
    BY <1>1 DEF csr_write_access
  <2> QED
    BY <1>1, <2>1, WrittenTypes
<1>2. CASE ~ctrl.csr_we /\ env_enter /\ ~debug_run
  <2>1. csr' \in {TrapToDebug, TrapToMachine}
    <3>1. csr' = IF cause \in DebugCauses THEN TrapToDebug ELSE TrapToMachine
      BY <1>2 DEF csr_write_access, env_enter, env_exit
    <3> QED
      BY <3>1
  <2> QED
    BY <1>2, <2>1, TrapCsrTypes
<1>3. CASE ~ctrl.csr_we /\ env_exit
  <2>1. csr' \in {ReturnFromDebug, ReturnFromTrap}
    BY <1>3 DEF csr_write_access, env_enter, env_exit
  <2> QED
    BY <1>3, <2>1, TrapCsrTypes
<1>4. CASE ~ctrl.csr_we /\ ~(env_enter /\ ~debug_run) /\ ~env_exit
  <2>1. csr' = csr
    BY <1>4 DEF csr_write_access
  <2> QED
    BY <1>4, <2>1 DEF ControlTypeOK
<1> QED
  BY <1>1, <1>2, <1>3, <1>4

\* Everything that is raised is an exception.
LEMMA ExceptionFacts ==
  SyncExc \union {"db_trig", "db_brkp", "db_step"} \subseteq Exceptions
<1>1. /\ DOMAIN Priority = 1 .. 11
      /\ Priority[1] = "iaccess" /\ Priority[2] = "illegal" /\ Priority[3] = "ialign"
      /\ Priority[4] = "ecall" /\ Priority[5] = "ebreak" /\ Priority[6] = "lsu"
      /\ Priority[8] = "db_trig" /\ Priority[9] = "db_brkp" /\ Priority[10] = "db_step"
  BY DEF Priority
<1>2. SyncExc \union {"db_trig", "db_brkp", "db_step"} \subseteq Causes
  BY <1>1 DEF SyncExc, InstrExc, Causes
<1> QED
  BY <1>2 DEF Exceptions, SyncExc, InstrExc, SystemIrqs

\* The trap buffers, the debug mode and the CSRs at a clock edge.
LEMMA ControlEdgeFacts ==
  ASSUME ControlTypeOK, NEW raised \in SUBSET SyncExc, NEW ebreak \in BOOLEAN,
         ControlEdge(raised, ebreak)
  PROVE  /\ monitor_cnt' \in Nat
         /\ exc_buf' \subseteq Exceptions
         /\ irq_pnd' \subseteq SystemIrqs /\ irq_buf' \subseteq SystemIrqs \union {"db_halt"}
         /\ env_pend' \in BOOLEAN /\ debug_run' \in BOOLEAN
         /\ csr' \in CsrTypes
         /\ ~generics.c /\ csr.mepc % 2 = 0 /\ csr.dpc % 2 = 0 =>
              csr'.mepc % 2 = 0 /\ csr'.dpc % 2 = 0
         /\ ~env_enter => exc_buf \subseteq exc_buf' /\ raised \subseteq exc_buf'
         /\ ~env_enter /\ env_pend => env_pend'
         /\ ~env_enter /\ ~env_exit => csr'.prv = csr.prv /\ (debug_run' <=> debug_run)
         /\ debug_run' /\ ~debug_run => env_enter
         /\ hwtrig /\ generics.sdext /\ ~debug_run /\ ~env_enter => "db_trig" \in exc_buf'
<1> USE DEF ControlTypeOK, ControlEdge
<1>1. monitor_cnt' \in Nat
  <2> DEFINE n == 2^(MonitorBits + 1)
  <2>1. n \in Nat \ {0}
    BY CoreAssumption DEF CoreAssumption
  <2>2. monitor_cnt' = IF exec.state = "S_ALU_WAIT" THEN (monitor_cnt + 1) % n ELSE 0
    BY DEF multi_cycle_monitor
  <2> HIDE DEF n
  <2>3. (monitor_cnt + 1) % n \in Nat
    BY <2>1, ModRange
  <2> QED
    BY <2>2, <2>3
<1>2. exc_buf' \subseteq Exceptions
  <2>1. debug_triggers(ebreak) \subseteq Exceptions /\ ebreak_trig(ebreak) \subseteq Exceptions
    BY ExceptionFacts DEF debug_triggers, ebreak_trig, SyncExc
  <2>2. "illegal" \in Exceptions /\ raised \subseteq Exceptions
    BY ExceptionFacts DEF SyncExc, InstrExc
  <2> QED
    BY <2>1, <2>2 DEF trap_buffer, exc_buf_after
<1>3. irq_pnd' \subseteq SystemIrqs /\ irq_buf' \subseteq SystemIrqs \union {"db_halt"}
  <2>1. irq_pnd' \in SUBSET generics.irqs
    BY DEF trap_buffer
  <2>2. irq_buf' = {i \in irq_pnd : i \in csr.ie} \union (IF trig_halt THEN {"db_halt"} ELSE {})
                   \union (IF env_pend THEN irq_buf ELSE {})
    BY DEF trap_buffer
  <2> QED
    BY <2>1, <2>2, GenericsTypes
<1>4. env_pend' \in BOOLEAN /\ debug_run' \in BOOLEAN
  BY DEF trap_pending, debug_control, env_exit, env_enter
<1>5. /\ csr' \in CsrTypes
      /\ ~generics.c /\ csr.mepc % 2 = 0 /\ csr.dpc % 2 = 0 =>
           csr'.mepc % 2 = 0 /\ csr'.dpc % 2 = 0
      /\ ~env_enter /\ ~env_exit => csr'.prv = csr.prv
  BY CsrStep
<1>6. ~env_enter => exc_buf \subseteq exc_buf' /\ raised \subseteq exc_buf'
  BY DEF trap_buffer, exc_buf_after
<1>7. ~env_enter /\ env_pend => env_pend'
  BY DEF trap_pending
<1>8. /\ ~env_enter /\ ~env_exit => (debug_run' <=> debug_run)
      /\ debug_run' /\ ~debug_run => env_enter
  BY DEF debug_control, env_enter, env_exit
<1>9. hwtrig /\ generics.sdext /\ ~debug_run /\ ~env_enter => "db_trig" \in exc_buf'
  <2>1. ASSUME hwtrig, generics.sdext, ~debug_run
        PROVE  "db_trig" \in debug_triggers(ebreak)
    BY <2>1 DEF debug_triggers
  <2>2. ~env_enter => debug_triggers(ebreak) \subseteq exc_buf'
    BY DEF trap_buffer, exc_buf_after
  <2> QED
    BY <2>1, <2>2
<1> QED
  BY <1>1, <1>2, <1>3, <1>4, <1>5, <1>6, <1>7, <1>8, <1>9

-------------------------------------------------------------------------------
(* The back-end and the frontend together.                                   *)

CoreTypeOK ==
  /\ ControlTypeOK /\ FrontendTypeOK
  /\ irq_dbg \in BOOLEAN /\ hwtrig \in BOOLEAN
  /\ open \in BOOLEAN /\ wrote \in BOOLEAN /\ idle \in Nat

\* The address behind the instruction in exec, if nothing turns the hart away.
NextPc ==
  IF exec.state = "S_EXECUTE" THEN After(exec.pc, IF exec.ci THEN 1 ELSE 2) ELSE exec.pc2

\* What the frontend holds will never be executed.
Doomed ==
  \/ exec.state \in {"S_TRAP_ENTER", "S_TRAP_EXIT", "S_RESTART"}
  \/ exec.state = "S_DISPATCH" /\ TrapsFirst

\* Otherwise it holds what comes next, unless a restart is under way.
InStep == ~Doomed /\ ~fetch.reset => At(NextPc) /\ FetchedFor(csr.prv, debug_run)

\* ... and then no instruction is in execution.
RestartStates == fetch.reset => exec.state \in {"S_RESTART", "S_DISPATCH", "S_TRAP_ENTER"}

\* Without compressed instructions the hart never goes to an odd half-word.
Evenness ==
  ~generics.c => /\ ~Doomed => NextPc % 2 = 0
                 /\ exec.state = "S_RESTART" => exec.pc2 % 2 = 0
                 /\ csr.mepc % 2 = 0 /\ csr.dpc % 2 = 0
                 /\ ~exec.ci

\* A match comes from the trigger module, and does not outlive the entry of debug mode.
Matches ==
  /\ hwtrig => generics.trig
  /\ hwtrig /\ debug_run => exec.state = "S_RESTART"

\* The inductive invariant.
CoreInv == CoreTypeOK /\ Paired /\ Restarts /\ InStep /\ RestartStates /\ Evenness /\ Matches

\* What every action of the control unit does for it; `r' is the frontend's if_reset.
ControlFlow(r) ==
  /\ ~Doomed' => csr'.prv = csr.prv /\ (debug_run' <=> debug_run)
  /\ ~Doomed' /\ fetch.state = "S_RESTART" =>
       NextPc' = exec.pc2 /\ (~generics.c => exec.pc2 % 2 = 0)
  /\ ~Doomed' /\ ~F!restart(r) => ~Doomed /\ NextPc' = Behind(NextPc, if_ready)
  /\ F!restart(r) => exec'.state \in {"S_RESTART", "S_DISPATCH", "S_TRAP_ENTER"}
  /\ Evenness' /\ Matches'

LEMMA NextPcType == ASSUME CoreTypeOK PROVE NextPc \in Pcs /\ exec.pc2 \in Pcs
<1>1. exec.pc \in Pcs /\ exec.pc2 \in Pcs
  BY DEF CoreTypeOK, ControlTypeOK, ExecTypes
<1>2. After(exec.pc, 1) \in Pcs /\ After(exec.pc, 2) \in Pcs
  BY <1>1, NextParity
<1> QED
  BY <1>1, <1>2 DEF NextPc

\* Then the frontend stays in step.
LEMMA FrontendKeepsStep ==
  ASSUME CoreInv, NEW r \in BOOLEAN, ControlFlow(r), generics' = generics,
         F!FrontendEdge(r, if_ready, exec.pc2, csr.prv, debug_run)
  PROVE  FrontendTypeOK' /\ Paired' /\ Restarts' /\ InStep' /\ RestartStates'
<1>0. PICK ready \in BOOLEAN, prv \in PrivModes, dbg \in BOOLEAN, pc_nxt \in Pcs :
        ready = if_ready /\ prv = csr.prv /\ dbg = debug_run /\ pc_nxt = exec.pc2
  <2>1. if_ready \in BOOLEAN
    BY DEF if_ready
  <2> QED
    BY <2>1, NextPcType DEF CoreInv, CoreTypeOK, ControlTypeOK, CsrTypes
<1>1. PICK ack \in BOOLEAN, err \in BOOLEAN, compr \in HalfBits :
        /\ ack => fetch.state = "S_PENDING"
        /\ F!fetch_fsm(r, pc_nxt, prv, dbg, ack)
        /\ F!prefetch_buffer(r, ready, ack, compr, err)
        /\ F!issue_fsm_sync(ready, pc_nxt)
  BY <1>0, Zenon DEF F!FrontendEdge, HalfBits
<1>2. /\ FrontendTypeOK /\ Paired /\ Restarts
      /\ exec.pc2 \in Pcs /\ NextPc \in Pcs /\ csr.prv \in PrivModes /\ debug_run \in BOOLEAN
  BY NextPcType DEF CoreInv, CoreTypeOK, ControlTypeOK, CsrTypes
<1>3. FrontendTypeOK' /\ Paired'
  BY <1>1, <1>2, FrontendTypes
<1>4. Restarts' /\ (fetch.state # "S_RESTART" => (fetch'.reset <=> F!restart(r)))
  BY <1>1, <1>2, FrontendRemembers
<1>5. fetch.state = "S_RESTART" => fetch.reset /\ ~fetch'.reset
  BY <1>1, <1>2 DEF Restarts, F!fetch_fsm
<1>6. RestartStates'
  BY <1>4, <1>5 DEF RestartStates, ControlFlow
<1>7. InStep'
  <2> SUFFICES ASSUME ~Doomed', ~fetch'.reset
               PROVE  At(NextPc)' /\ FetchedFor(csr.prv, debug_run)'
    BY DEF InStep
  <2>1. csr'.prv = csr.prv /\ (debug_run' <=> debug_run)
    BY DEF ControlFlow
  <2>3. CASE fetch.state = "S_RESTART"
    <3>2. NextPc' = pc_nxt /\ (~generics.c => pc_nxt % 2 = 0)
      BY <1>0, <2>3 DEF ControlFlow
    <3>3. At(pc_nxt)' /\ FetchedFor(prv, dbg)'
      BY <1>1, <1>2, <1>5, <2>3, <3>2, FrontendRestarts
    <3> QED
      BY <1>0, <2>1, <3>2, <3>3 DEF At, FetchedFor
  <2>4. CASE fetch.state # "S_RESTART"
    <3>1. ~F!restart(r) /\ ~r /\ ~fetch.reset
      BY <1>4, <2>4 DEF F!restart
    <3>2. ~Doomed /\ NextPc' = Behind(NextPc, ready)
      BY <1>0, <3>1 DEF ControlFlow
    <3>3. PICK pc \in Pcs : pc = NextPc
      BY <1>2
    <3>4. At(pc) /\ FetchedFor(prv, dbg) /\ (~generics.c => pc % 2 = 0)
      BY <1>0, <3>1, <3>2, <3>3 DEF CoreInv, InStep, Evenness, At, FetchedFor
    <3>5. PICK b \in Pcs : b = Behind(pc, ready)
      <4>1. After(pc, 1) \in Pcs /\ After(pc, 2) \in Pcs
        BY NextParity
      <4> QED
        BY <4>1 DEF Behind
    <3>7. At(b)' /\ FetchedFor(prv, dbg)'
      BY <1>1, <1>2, <3>1, <3>4, <3>5, FrontendGoesOn
    <3>8. NextPc' = b
      BY <3>2, <3>3, <3>5
    <3> QED
      BY <1>0, <2>1, <3>7, <3>8 DEF At, FetchedFor
  <2> QED
    BY <2>3, <2>4
<1> QED
  BY <1>3, <1>4, <1>6, <1>7

\* Control signals are those of this state.
LEMMA ControlSignals ==
  ASSUME ctrl \in CtrlTypes, NEW signals, Control(signals)
  PROVE  /\ ctrl' \in CtrlTypes
         /\ ctrl'.rf_wb_en <=> "rf_wb_en" \in signals
         /\ ctrl'.csr_we <=> "csr_we" \in signals
         /\ ctrl'.lsu_req <=> "lsu_req" \in signals
<1>1. ctrl' = [rf_wb_en |-> "rf_wb_en" \in signals, csr_we |-> "csr_we" \in signals,
               lsu_req |-> "lsu_req" \in signals]
  BY DEF Control
<1>2. /\ ctrl'.rf_wb_en = ("rf_wb_en" \in signals)
      /\ ctrl'.csr_we = ("csr_we" \in signals)
      /\ ctrl'.lsu_req = ("lsu_req" \in signals)
  BY <1>1
<1>3. ctrl' \in CtrlTypes
  <2>1. ASSUME NEW x \in BOOLEAN, NEW y \in BOOLEAN, NEW z \in BOOLEAN
        PROVE  [rf_wb_en |-> x, csr_we |-> y, lsu_req |-> z] \in CtrlTypes
    BY DEF CtrlTypes
  <2>2. /\ ("rf_wb_en" \in signals) \in BOOLEAN
        /\ ("csr_we" \in signals) \in BOOLEAN
        /\ ("lsu_req" \in signals) \in BOOLEAN
    OBVIOUS
  <2> QED
    BY <1>1, <2>1, <2>2, Zenon
<1> QED
  BY <1>2, <1>3, Zenon

\* What all actions have in common.
LEMMA EdgeStep ==
  ASSUME CoreInv, NEW raised \in SUBSET SyncExc, NEW ebreak \in BOOLEAN,
         ControlEdge(raised, ebreak), MatchBuffer, generics' = generics,
         exec' \in ExecTypes, ctrl' \in CtrlTypes, env_enter => exec'.state = "S_RESTART"
  PROVE  /\ ControlTypeOK' /\ Matches'
         /\ ~generics.c => csr'.mepc % 2 = 0 /\ csr'.dpc % 2 = 0
<1> USE DEF CoreInv, CoreTypeOK
<1>1. ControlTypeOK'
  BY ControlEdgeFacts DEF ControlTypeOK
<1>2. Matches'
  <2>1. hwtrig' => ~debug_run /\ (hwtrig \/ generics.trig)
    BY DEF MatchBuffer
  <2>2. debug_run' /\ ~debug_run => exec'.state = "S_RESTART"
    BY ControlEdgeFacts
  <2> QED
    BY <2>1, <2>2 DEF Matches
<1>3. ~generics.c => csr'.mepc % 2 = 0 /\ csr'.dpc % 2 = 0
  BY ControlEdgeFacts DEF Evenness
<1> QED
  BY <1>1, <1>2, <1>3

\* A restart under way leaves the issue engine nothing to issue.
LEMMA NothingIssued ==
  ASSUME FrontendTypeOK, Restarts, F!valid PROVE ~fetch.reset
<1>1. F!valid => ipb[0] # <<>> \/ ipb[1] # <<>>
  BY DEF F!valid, F!avail, F!first, F!second
<1> QED
  BY <1>1 DEF Restarts

\* An instruction that goes on, or leaves the engine: pc2 stays.
LEMMA GoesOnFlow ==
  ASSUME CoreInv, NEW raised \in SUBSET SyncExc, NEW ebreak \in BOOLEAN,
         ControlEdge(raised, ebreak), MatchBuffer, generics' = generics,
         NEW signals, Control(signals),
         exec.state \in {"S_ALU_WAIT", "S_MEM_REQ", "S_MEM_RSP", "S_SYSTEM", "S_SLEEP"},
         NEW state \in States \ {"S_EXECUTE", "S_RESTART"}, Go(state)
  PROVE  ControlTypeOK' /\ ControlFlow(FALSE)
<1> USE DEF CoreInv, CoreTypeOK, ControlTypeOK
<1>1. /\ exec' \in ExecTypes /\ exec'.state = state
      /\ exec'.pc2 = exec.pc2 /\ exec'.ci = exec.ci
  BY DEF ExecTypes, Go
<1>2. /\ ~env_enter /\ ~env_exit /\ ~Doomed /\ ~if_ready
      /\ NextPc = exec.pc2 /\ NextPc' = exec.pc2
      /\ fetch.state # "S_RESTART" /\ ~fetch.reset
  BY <1>1 DEF env_enter, env_exit, Doomed, if_ready, NextPc, Restarts, RestartStates
<1>3. /\ ControlTypeOK' /\ Matches'
      /\ ~generics.c => csr'.mepc % 2 = 0 /\ csr'.dpc % 2 = 0
  BY <1>1, <1>2, EdgeStep, ControlSignals
<1>4. csr'.prv = csr.prv /\ (debug_run' <=> debug_run)
  BY <1>2, ControlEdgeFacts
<1>5. Behind(NextPc, if_ready) = NextPc
  BY <1>2 DEF Behind
<1>6. ~F!restart(FALSE)
  BY <1>2 DEF F!restart
<1>7. Evenness'
  BY <1>1, <1>2, <1>3 DEF Evenness
<1> QED
  BY <1>2, <1>3, <1>4, <1>5, <1>6, <1>7 DEF ControlFlow

LEMMA RestartFlow ==
  ASSUME CoreInv, Restart, MatchBuffer, generics' = generics
  PROVE  ControlTypeOK' /\ ControlFlow(TRUE)
<1> USE DEF CoreInv, CoreTypeOK, ControlTypeOK
<1>1. /\ exec' \in ExecTypes /\ exec'.state = "S_DISPATCH"
      /\ exec'.pc2 = exec.pc2 /\ exec'.ci = exec.ci
  BY DEF ExecTypes, Restart, Go, States
<1>2. /\ exec.state = "S_RESTART" /\ Doomed /\ ~env_enter /\ ~env_exit /\ NextPc' = exec.pc2
      /\ Control({}) /\ ControlEdge({}, FALSE)
  BY <1>1 DEF Restart, Doomed, env_enter, env_exit, NextPc
<1>3. /\ ControlTypeOK' /\ Matches'
      /\ ~generics.c => csr'.mepc % 2 = 0 /\ csr'.dpc % 2 = 0
  BY <1>1, <1>2, EdgeStep, ControlSignals
<1>4. csr'.prv = csr.prv /\ (debug_run' <=> debug_run)
  BY <1>2, ControlEdgeFacts
<1>5. F!restart(TRUE)
  BY DEF F!restart
<1>6. ~generics.c => exec.pc2 % 2 = 0
  BY <1>2 DEF Evenness
<1>7. Evenness'
  BY <1>1, <1>2, <1>3, <1>6 DEF Evenness
<1> QED
  BY <1>1, <1>2, <1>3, <1>4, <1>5, <1>6, <1>7 DEF ControlFlow

\* A pending trap dooms what the frontend holds; a trigger that holds an
\* instruction back, which the issue engine drops, is such a trap.
LEMMA DispatchFlow ==
  ASSUME CoreInv, Dispatch(F!valid, F!compressed, F!fault), MatchBuffer, generics' = generics
  PROVE  ControlTypeOK' /\ ControlFlow(FALSE)
<1> USE DEF CoreInv, CoreTypeOK, ControlTypeOK
<1>1. exec.state = "S_DISPATCH" /\ ~env_enter /\ ~env_exit /\ if_ready /\ NextPc = exec.pc2
  BY DEF Dispatch, env_enter, env_exit, if_ready, NextPc
<1>2. PICK fetched \in SUBSET SyncExc : ControlEdge(fetched, FALSE)
  BY DEF Dispatch, SyncExc, InstrExc
<1>3. Control({})
  BY DEF Dispatch
<1>4. csr'.prv = csr.prv /\ (debug_run' <=> debug_run)
  BY <1>1, <1>2, ControlEdgeFacts
<1>5. CASE TrapsFirst
  <2>1. exec' = [exec EXCEPT !.state = "S_TRAP_ENTER"]
    BY <1>5 DEF Dispatch, Accepts, Go
  <2>2. /\ exec' \in ExecTypes /\ exec'.state = "S_TRAP_ENTER" /\ exec'.ci = exec.ci
        /\ Doomed'
    BY <2>1 DEF ExecTypes, States, Doomed
  <2>3. /\ ControlTypeOK' /\ Matches'
        /\ ~generics.c => csr'.mepc % 2 = 0 /\ csr'.dpc % 2 = 0
    BY <1>1, <1>2, <1>3, <2>2, EdgeStep, ControlSignals
  <2>4. Evenness'
    BY <2>2, <2>3 DEF Evenness
  <2> QED
    BY <2>2, <2>3, <2>4 DEF ControlFlow
<1>6. CASE ~TrapsFirst /\ Accepts(F!valid)
  <2>1. PICK kind \in generics.kinds, bad \in BOOLEAN :
          exec' = [state |-> "S_EXECUTE", kind |-> kind, bad |-> bad,
                   ci |-> F!compressed, pc |-> exec.pc2, pc2 |-> exec.pc2]
    BY <1>6 DEF Dispatch
  <2>2. F!valid /\ ~fetch.reset /\ fetch.state # "S_RESTART"
    BY <1>6, NothingIssued DEF Accepts, Restarts
  <2>3. F!compressed \in BOOLEAN /\ (F!compressed => generics.c) /\ kind \in Kinds
    BY GenericsTypes DEF F!compressed
  <2>4. /\ exec' \in ExecTypes /\ exec'.state = "S_EXECUTE" /\ exec'.pc = exec.pc2
        /\ exec'.ci <=> F!compressed
    BY <2>1, <2>3 DEF ExecTypes, States
  <2>5. /\ ControlTypeOK' /\ Matches'
        /\ ~generics.c => csr'.mepc % 2 = 0 /\ csr'.dpc % 2 = 0
    BY <1>1, <1>2, <1>3, <2>4, EdgeStep, ControlSignals
  <2>6. ~Doomed /\ ~F!restart(FALSE)
    BY <1>1, <1>6, <2>2 DEF Doomed, F!restart
  <2>7. NextPc' = After(exec.pc2, IF F!compressed THEN 1 ELSE 2)
    BY <2>4 DEF NextPc
  <2>8. NextPc' = Behind(NextPc, if_ready)
    BY <1>1, <2>2, <2>7 DEF Behind
  <2>9. ~generics.c => exec.pc2 % 2 = 0 /\ ~F!compressed /\ After(exec.pc2, 2) % 2 = 0
    BY <1>1, <2>3, <2>6, NextPcType, NextParity DEF Evenness
  <2>10. Evenness'
    <3>1. ASSUME ~generics.c PROVE ~exec'.ci /\ NextPc' % 2 = 0
      BY <2>4, <2>7, <2>9, <3>1
    <3> QED
      BY <2>4, <2>5, <3>1 DEF Evenness
  <2> QED
    BY <1>4, <2>2, <2>5, <2>6, <2>8, <2>10 DEF ControlFlow
<1>7. CASE ~TrapsFirst /\ ~Accepts(F!valid)
  <2>1. exec' = exec
    BY <1>7 DEF Dispatch, Accepts
  <2>2. /\ ControlTypeOK' /\ Matches'
        /\ ~generics.c => csr'.mepc % 2 = 0 /\ csr'.dpc % 2 = 0
    BY <1>1, <1>2, <1>3, <2>1, EdgeStep, ControlSignals
  <2>3. ~Doomed /\ NextPc' = exec.pc2
    BY <1>1, <1>7, <2>1 DEF Doomed, NextPc
  <2>4. ~generics.c => exec.pc2 % 2 = 0
    BY <1>1, <2>3 DEF Evenness
  <2>5. ~Doomed' => ~F!valid
    <3> SUFFICES ASSUME F!valid PROVE Doomed'
      OBVIOUS
    <3>1. hwtrig /\ ~debug_run /\ generics.sdext
      BY <1>1, <1>7, CoreAssumption DEF Accepts, Matches, CoreAssumption
    <3>2. "db_trig" \in exc_buf'
      BY <1>1, <1>2, <3>1, ControlEdgeFacts
    <3> QED
      BY <1>1, <2>1, <3>2 DEF Doomed, TrapsFirst, exc_fire
  <2>6. ~F!valid => Behind(NextPc, if_ready) = NextPc
    BY DEF Behind
  <2>7. Evenness'
    BY <1>1, <2>1, <2>2, <2>3, <2>4 DEF Evenness
  <2> QED
    BY <1>1, <1>4, <2>1, <2>2, <2>3, <2>4, <2>5, <2>6, <2>7 DEF ControlFlow
<1> QED
  BY <1>5, <1>6, <1>7

LEMMA TrapEnterFlow ==
  ASSUME CoreInv, TrapEnter, MatchBuffer, generics' = generics
  PROVE  ControlTypeOK' /\ ControlFlow(FALSE)
<1> USE DEF CoreInv, CoreTypeOK, ControlTypeOK
<1>1. Vector \in Pcs /\ Vector % 2 = 0
  BY EntryPoints DEF Vector
<1>2. /\ exec' \in ExecTypes /\ exec'.state = "S_RESTART" /\ exec'.pc2 = Vector
      /\ exec'.ci = exec.ci /\ Doomed'
  BY <1>1 DEF TrapEnter, ExecTypes, States, Doomed
<1>3. Control({}) /\ ControlEdge({}, FALSE)
  BY DEF TrapEnter
<1>4. /\ ControlTypeOK' /\ Matches'
      /\ ~generics.c => csr'.mepc % 2 = 0 /\ csr'.dpc % 2 = 0
  BY <1>2, <1>3, EdgeStep, ControlSignals
<1>5. Evenness'
  BY <1>1, <1>2, <1>4 DEF Evenness
<1> QED
  BY <1>2, <1>4, <1>5 DEF ControlFlow

LEMMA TrapExitFlow ==
  ASSUME CoreInv, TrapExit, MatchBuffer, generics' = generics
  PROVE  ControlTypeOK' /\ ControlFlow(FALSE)
<1> USE DEF CoreInv, CoreTypeOK, ControlTypeOK
<1>1. /\ exec'.pc2 \in Pcs /\ (~generics.c => exec'.pc2 % 2 = 0)
      /\ exec' \in ExecTypes /\ exec'.state = "S_RESTART" /\ exec'.ci = exec.ci /\ Doomed'
      /\ ~env_enter
  BY DEF TrapExit, ExecTypes, CsrTypes, States, Doomed, Evenness, env_enter
<1>2. Control({}) /\ ControlEdge({}, FALSE)
  BY DEF TrapExit
<1>3. /\ ControlTypeOK' /\ Matches'
      /\ ~generics.c => csr'.mepc % 2 = 0 /\ csr'.dpc % 2 = 0
  BY <1>1, <1>2, EdgeStep, ControlSignals
<1>4. Evenness'
  BY <1>1, <1>3 DEF Evenness
<1> QED
  BY <1>1, <1>3, <1>4 DEF ControlFlow

\* pc2 is the next linear address from now on.
LEMMA ExecuteFlow ==
  ASSUME CoreInv, Execute, MatchBuffer, generics' = generics
  PROVE  ControlTypeOK' /\ ControlFlow(FALSE)
<1> USE DEF CoreInv, CoreTypeOK, ControlTypeOK
<1>1. /\ exec.state = "S_EXECUTE" /\ ~Doomed /\ ~env_enter /\ ~env_exit /\ ~if_ready
      /\ fetch.state # "S_RESTART" /\ ~fetch.reset
  BY DEF Execute, Doomed, env_enter, env_exit, if_ready, Restarts, RestartStates
<1>2. NextPc = After(exec.pc, IF exec.ci THEN 1 ELSE 2) /\ NextPc \in Pcs
  BY <1>1, NextPcType DEF NextPc
<1>3. AfterExecute \in States \ {"S_EXECUTE"}
  BY DEF AfterExecute, States
<1>4. /\ exec' \in ExecTypes /\ exec'.state = AfterExecute /\ exec'.pc2 = NextPc
      /\ exec'.ci = exec.ci /\ NextPc' = NextPc
  <2>1. exec' = [exec EXCEPT !.state = AfterExecute, !.pc2 = NextPc]
    BY <1>2 DEF Execute
  <2>2. /\ exec' \in ExecTypes /\ exec'.state = AfterExecute /\ exec'.pc2 = NextPc
        /\ exec'.ci = exec.ci
    BY <1>2, <1>3, <2>1 DEF ExecTypes
  <2>3. NextPc' = exec'.pc2
    BY <1>3, <2>2 DEF NextPc
  <2> QED
    BY <2>2, <2>3
<1>5. PICK signals : Control(signals)
  BY DEF Execute
<1>6. ControlEdge({}, FALSE)
  BY DEF Execute
<1>7. /\ ControlTypeOK' /\ Matches'
      /\ ~generics.c => csr'.mepc % 2 = 0 /\ csr'.dpc % 2 = 0
  BY <1>1, <1>4, <1>5, <1>6, EdgeStep, ControlSignals
<1>8. csr'.prv = csr.prv /\ (debug_run' <=> debug_run)
  BY <1>1, <1>6, ControlEdgeFacts
<1>9. Behind(NextPc, if_ready) = NextPc /\ ~F!restart(FALSE)
  BY <1>1 DEF Behind, F!restart
<1>10. Evenness'
  BY <1>1, <1>4, <1>7 DEF Evenness
<1> QED
  BY <1>1, <1>4, <1>7, <1>8, <1>9, <1>10 DEF ControlFlow

\* A branch that is taken restarts the frontend; without compressed
\* instructions an odd target is an exception.
LEMMA BranchFlow ==
  ASSUME CoreInv, NEW taken \in BOOLEAN, NEW target \in Targets, Branch(taken, target),
         MatchBuffer, generics' = generics, NEW r \in BOOLEAN, r <=> Reset(taken)
  PROVE  ControlTypeOK' /\ ControlFlow(r)
<1> USE DEF CoreInv, CoreTypeOK, ControlTypeOK
<1> DEFINE odd == taken /\ target % 2 = 1 /\ ~generics.c
<1>1. /\ exec.state = "S_BRANCH" /\ ~Doomed /\ ~env_enter /\ ~env_exit /\ ~if_ready
      /\ fetch.state # "S_RESTART" /\ ~fetch.reset /\ NextPc = exec.pc2
  BY DEF Branch, Doomed, env_enter, env_exit, if_ready, Restarts, RestartStates, NextPc
<1>2. target \in Pcs
  BY CoreAssumption DEF CoreAssumption
<1>3. /\ exec' \in ExecTypes /\ exec'.state = "S_DISPATCH" /\ exec'.ci = exec.ci
      /\ exec'.pc2 = IF taken THEN target ELSE exec.pc2
      /\ NextPc' = exec'.pc2
  BY <1>2 DEF Branch, ExecTypes, States, NextPc
<1>4. PICK signals : Control(signals)
  BY DEF Branch
<1>5. PICK raised \in SUBSET SyncExc :
        raised = (IF odd THEN {"ialign"} ELSE {}) /\ ControlEdge(raised, FALSE)
  BY DEF Branch, SyncExc, InstrExc
<1>6. /\ ControlTypeOK' /\ Matches'
      /\ ~generics.c => csr'.mepc % 2 = 0 /\ csr'.dpc % 2 = 0
  BY <1>1, <1>3, <1>4, <1>5, EdgeStep, ControlSignals
<1>7. csr'.prv = csr.prv /\ (debug_run' <=> debug_run)
  BY <1>1, <1>5, ControlEdgeFacts
<1>8. Behind(NextPc, if_ready) = NextPc /\ (~F!restart(r) => ~taken)
  BY <1>1 DEF Behind, F!restart, Reset
<1>9. odd => Doomed'
  <2>1. odd => exc_buf' # {}
    BY <1>1, <1>5, ControlEdgeFacts
  <2> QED
    BY <1>3, <2>1 DEF Doomed, TrapsFirst, exc_fire
<1>10. ~generics.c /\ ~Doomed' => NextPc' % 2 = 0
  <2> SUFFICES ASSUME ~generics.c, ~Doomed' PROVE NextPc' % 2 = 0
    OBVIOUS
  <2>1. exec.pc2 % 2 = 0
    BY <1>1 DEF Evenness
  <2>2. taken => target % 2 = 0
    <3>1. target % 2 \in {0, 1}
      BY <1>2, NextParity
    <3> QED
      BY <1>9, <3>1
  <2> QED
    BY <1>3, <2>1, <2>2
<1>11. Evenness'
  BY <1>1, <1>3, <1>6, <1>10 DEF Evenness
<1> QED
  BY <1>1, <1>3, <1>6, <1>7, <1>8, <1>11 DEF ControlFlow

LEMMA AroundTypes ==
  ASSUME CoreTypeOK, MatchBuffer, Debugger, History
  PROVE  /\ irq_dbg' \in BOOLEAN /\ hwtrig' \in BOOLEAN
         /\ open' \in BOOLEAN /\ wrote' \in BOOLEAN /\ idle' \in Nat
<1> USE DEF CoreTypeOK, ControlTypeOK
<1>1. irq_dbg' \in BOOLEAN /\ hwtrig' \in BOOLEAN
  BY DEF MatchBuffer, Debugger
<1>2. open' \in BOOLEAN
  <2>1. InterruptsOpen \in BOOLEAN /\ open \in BOOLEAN
    BY DEF InterruptsOpen
  <2> QED
    BY <2>1 DEF History, env_enter
<1>3. wrote' \in BOOLEAN
  BY DEF History
<1>4. idle' \in Nat
  BY DEF History
<1> QED
  BY <1>1, <1>2, <1>3, <1>4

LEMMA CoreInvInit == ASSUME Init PROVE CoreInv
<1> USE DEF Init, ControlInit, F!FrontendInit
<1>1. 0 \in Pcs /\ BootAddr \in Pcs /\ BootAddr % 2 = 0
  BY EntryPoints
<1>2. ControlTypeOK
  <2>1. exec \in ExecTypes
    BY <1>1 DEF ExecTypes, States, Kinds
  <2>2. ctrl \in CtrlTypes
    BY DEF CtrlTypes, ctrl_bus_zero_c
  <2>3. csr \in CsrTypes
    BY <1>1 DEF CsrTypes, PrivModes
  <2> QED
    BY <2>1, <2>2, <2>3 DEF ControlTypeOK
<1>3. FrontendTypeOK /\ Paired /\ Restarts
  <2>1. /\ ipb[0] = <<>> /\ ipb[1] = <<>> /\ ipb \in [{0, 1} -> Queues]
        /\ fetch \in FetchTypes
    BY <1>1 DEF FetchTypes, PrivModes, Queues
  <2> QED
    BY <1>2, <2>1 DEF FrontendTypeOK, Paired, Restarts, ControlTypeOK
<1>4. InStep /\ RestartStates /\ Evenness /\ Matches
  BY <1>1 DEF InStep, RestartStates, Evenness, Matches, Doomed
<1> QED
  BY <1>2, <1>3, <1>4 DEF CoreInv, CoreTypeOK

LEMMA FlowKeepsInv ==
  ASSUME CoreInv, NEW r \in BOOLEAN, ControlTypeOK', ControlFlow(r), Around(r)
  PROVE  CoreInv'
<1>1. /\ F!FrontendEdge(r, if_ready, exec.pc2, csr.prv, debug_run)
      /\ MatchBuffer /\ Debugger /\ History /\ generics' = generics
  BY DEF Around
<1>2. FrontendTypeOK' /\ Paired' /\ Restarts' /\ InStep' /\ RestartStates'
  BY <1>1, FrontendKeepsStep
<1>3. /\ irq_dbg' \in BOOLEAN /\ hwtrig' \in BOOLEAN
      /\ open' \in BOOLEAN /\ wrote' \in BOOLEAN /\ idle' \in Nat
  BY <1>1, AroundTypes DEF CoreInv
<1>4. Evenness' /\ Matches'
  BY DEF ControlFlow
<1> QED
  BY <1>2, <1>3, <1>4 DEF CoreInv, CoreTypeOK

LEMMA CoreInvStep == ASSUME CoreInv, [Next]_vars PROVE CoreInv'
<1> USE DEF Around
<1>1. CASE Restart /\ Around(TRUE)
  BY <1>1, RestartFlow, FlowKeepsInv
<1>2. CASE Dispatch(F!valid, F!compressed, F!fault) /\ Around(FALSE)
  BY <1>2, DispatchFlow, FlowKeepsInv
<1>3. CASE TrapEnter /\ Around(FALSE)
  BY <1>3, TrapEnterFlow, FlowKeepsInv
<1>4. CASE TrapExit /\ Around(FALSE)
  BY <1>4, TrapExitFlow, FlowKeepsInv
<1>5. CASE Execute /\ Around(FALSE)
  BY <1>5, ExecuteFlow, FlowKeepsInv
<1>6. CASE (\E done \in BOOLEAN : AluWait(done)) /\ Around(FALSE)
  <2>1. PICK done \in BOOLEAN : AluWait(done)
    BY <1>6
  <2> DEFINE to      == IF AluLeaves(done) THEN "S_DISPATCH" ELSE "S_ALU_WAIT"
             enabled == IF done THEN {"rf_wb_en"} ELSE {}
  <2>2. to \in States \ {"S_EXECUTE", "S_RESTART"} /\ exec.state = "S_ALU_WAIT"
    BY <2>1 DEF States, AluWait
  <2>3. Go(to) /\ Control(enabled) /\ ControlEdge({}, FALSE)
    BY <2>1 DEF AluWait
  <2> HIDE DEF to, enabled
  <2> QED
    BY <1>6, <2>2, <2>3, GoesOnFlow, FlowKeepsInv
<1>7. CASE TakeBranch
  <2>1. PICK taken \in BOOLEAN, target \in Targets :
          Branch(taken, target) /\ Around(Reset(taken))
    BY <1>7 DEF TakeBranch
  <2>2. PICK r \in BOOLEAN : r = Reset(taken)
    BY DEF Reset
  <2> QED
    BY <2>1, <2>2, BranchFlow, FlowKeepsInv
<1>8. CASE MemReq /\ Around(FALSE)
  <2> DEFINE to      == IF Faulted THEN "S_DISPATCH" ELSE "S_MEM_RSP"
             enabled == IF Faulted THEN {} ELSE {"lsu_req"}
  <2>1. to \in States \ {"S_EXECUTE", "S_RESTART"} /\ exec.state = "S_MEM_REQ"
    BY <1>8 DEF States, MemReq
  <2>2. Go(to) /\ Control(enabled) /\ ControlEdge({}, FALSE)
    BY <1>8 DEF MemReq
  <2> HIDE DEF to, enabled
  <2> QED
    BY <1>8, <2>1, <2>2, GoesOnFlow, FlowKeepsInv
<1>9. CASE (\E ack, err \in BOOLEAN : MemRsp(ack, err)) /\ Around(FALSE)
  <2>1. PICK ack \in BOOLEAN, err \in BOOLEAN : MemRsp(ack, err)
    BY <1>9
  <2> DEFINE leaves  == ack \/ "lsu" \in exc_buf
             to      == IF leaves THEN "S_DISPATCH" ELSE "S_MEM_RSP"
             enabled == IF leaves /\ exec.kind = "load" THEN {"rf_wb_en"} ELSE {}
             raised  == IF err THEN {"lsu"} ELSE {}
  <2>2. /\ to \in States \ {"S_EXECUTE", "S_RESTART"} /\ raised \in SUBSET SyncExc
        /\ exec.state = "S_MEM_RSP"
    BY <2>1 DEF States, SyncExc, MemRsp
  <2>3. Go(to) /\ Control(enabled) /\ ControlEdge(raised, FALSE)
    BY <2>1 DEF MemRsp
  <2> HIDE DEF to, enabled, raised
  <2>4. ControlTypeOK' /\ ControlFlow(FALSE)
    BY <1>9, <2>2, <2>3, GoesOnFlow
  <2> QED
    BY <1>9, <2>4, FlowKeepsInv
<1>10. CASE System /\ Around(FALSE)
  <2> DEFINE enabled == {"rf_wb_en"} \union (IF WritesCsr THEN {"csr_we"} ELSE {})
             raised  == IF ~Faulted /\ exec.kind = "ecall" THEN {"ecall"} ELSE {}
             ebreak  == ~Faulted /\ exec.kind = "ebreak"
  <2>1. /\ AfterSystem \in States \ {"S_EXECUTE", "S_RESTART"}
        /\ raised \in SUBSET SyncExc /\ ebreak \in BOOLEAN /\ exec.state = "S_SYSTEM"
    BY <1>10 DEF AfterSystem, States, SyncExc, System
  <2>2. Go(AfterSystem) /\ Control(enabled) /\ ControlEdge(raised, ebreak)
    BY <1>10 DEF System
  <2> HIDE DEF enabled, raised, ebreak
  <2>3. ControlTypeOK' /\ ControlFlow(FALSE)
    BY <1>10, <2>1, <2>2, GoesOnFlow
  <2> QED
    BY <1>10, <2>3, FlowKeepsInv
<1>11. CASE Sleep /\ Around(FALSE)
  <2> DEFINE to == IF irq_buf # {} \/ exc_fire THEN "S_DISPATCH" ELSE "S_SLEEP"
  <2>1. to \in States \ {"S_EXECUTE", "S_RESTART"} /\ exec.state = "S_SLEEP"
    BY <1>11 DEF States, Sleep
  <2>2. Go(to) /\ Control({}) /\ ControlEdge({}, FALSE)
    BY <1>11 DEF Sleep
  <2> HIDE DEF to
  <2> QED
    BY <1>11, <2>1, <2>2, GoesOnFlow, FlowKeepsInv
<1>12. CASE UNCHANGED vars
  BY <1>12 DEF vars, controlVars, CoreInv, CoreTypeOK, ControlTypeOK, FrontendTypeOK, Paired,
     Restarts, InStep, RestartStates, Evenness, Matches, At, FetchedFor, NextPc, Doomed,
     TrapsFirst, exc_fire, Aligned
<1> QED
  BY <1>1, <1>2, <1>3, <1>4, <1>5, <1>6, <1>7, <1>8, <1>9, <1>10, <1>11, <1>12 DEF Next

LEMMA CoreInvariant == Spec => []CoreInv
<1>1. Init => CoreInv
  BY CoreInvInit
<1>2. CoreInv /\ [Next]_vars => CoreInv'
  BY CoreInvStep
<1> QED
  BY <1>1, <1>2, PTL DEF Spec

\* Every register of the control unit and its frontend has the values it may have;
\* the prefetch buffer only half-words at addresses of the memory.
THEOREM CoreTypeCorrect == Spec => []CoreTypeOK
<1>1. CoreInv => CoreTypeOK
  BY DEF CoreInv
<1> QED
  BY <1>1, CoreInvariant, PTL

\* What the hart takes from the prefetch buffer lies at its next PC and was fetched
\* with its privilege, for every program and every delay of the instruction bus.
THEOREM DispatchIsInStep == Spec => []DispatchedIsNext
<1>1. ASSUME CoreInv, Accepts(F!valid)
      PROVE  /\ F!issued[1].from = exec.pc2
             /\ ~F!compressed => F!issued[2].from = After(exec.pc2, 1)
             /\ \A k \in DOMAIN F!issued :
                  F!issued[k].priv = csr.prv /\ F!issued[k].debug = debug_run
  <2>0. CoreTypeOK /\ ControlTypeOK /\ FrontendTypeOK /\ Paired /\ Restarts /\ InStep /\ Evenness
    BY <1>1 DEF CoreInv, CoreTypeOK
  <2>1. /\ exec.state = "S_DISPATCH" /\ F!valid /\ ~Doomed /\ ~fetch.reset
        /\ NextPc = exec.pc2 /\ exec.pc2 \in Pcs
    BY <1>1, <2>0, NothingIssued, NextPcType DEF Accepts, Doomed, NextPc
  <2>2. PICK pc \in Pcs, dbg \in BOOLEAN : pc = exec.pc2 /\ dbg = debug_run
    BY <2>0, <2>1 DEF ControlTypeOK
  <2>3. At(pc) /\ FetchedFor(csr.prv, dbg) /\ (~generics.c => pc % 2 = 0)
    BY <2>0, <2>1, <2>2 DEF InStep, Evenness, At, FetchedFor
  <2>4. /\ F!issued[1] = Head(ipb[pc % 2]) /\ Head(ipb[pc % 2]).from = pc
        /\ ipb[pc % 2] # <<>>
        /\ ~F!compressed => /\ F!issued[2] = Head(ipb[1 - (pc % 2)])
                            /\ Head(ipb[1 - (pc % 2)]).from = After(pc, 1)
                            /\ ipb[1 - (pc % 2)] # <<>>
    BY <2>0, <2>1, <2>3, IssuedAt
  <2>5. ASSUME NEW i \in {0, 1}, ipb[i] # <<>>
        PROVE  Head(ipb[i]).priv = csr.prv /\ Head(ipb[i]).debug = dbg
    <3>1. ipb[i] \in Seq(F!Halves)
      BY <2>0 DEF FrontendTypeOK, Queues
    <3>2. Len(ipb[i]) \in Nat \ {0} /\ Head(ipb[i]) = ipb[i][1]
      BY <2>5, <3>1, EmptySeq, HeadTailProperties
    <3> QED
      BY <2>3, <3>2 DEF FetchedFor
  <2>6. pc % 2 \in {0, 1} /\ 1 - (pc % 2) \in {0, 1}
    BY NextParity
  <2>7. ASSUME NEW k \in DOMAIN F!issued
        PROVE  F!issued[k].priv = csr.prv /\ F!issued[k].debug = dbg
    <3>1. k = 1 \/ (k = 2 /\ ~F!compressed)
      BY DEF F!issued
    <3> QED
      BY <2>4, <2>5, <2>6, <3>1
  <2> QED
    BY <2>2, <2>4, <2>7
<1>2. CoreInv => DispatchedIsNext
  BY <1>1 DEF DispatchedIsNext
<1> QED
  BY <1>2, CoreInvariant, PTL

-------------------------------------------------------------------------------
(* Exceptions and effects.                                                   *)

WorkStates == {"S_EXECUTE", "S_ALU_WAIT", "S_BRANCH", "S_MEM_REQ", "S_MEM_RSP", "S_SYSTEM"}

\* While an instruction is at work nothing has been written; until its last clock
\* it has raised nothing but the exceptions of its fetch and its decoding.
Quiet ==
  /\ exec.state \in WorkStates => ~wrote /\ ~ctrl.csr_we /\ ~ctrl.rf_wb_en
  /\ exc_buf \intersect SyncExc # {} => ~wrote /\ ~ctrl.csr_we
  /\ exec.state \in {"S_EXECUTE", "S_ALU_WAIT", "S_SYSTEM"} =>
       exc_buf \intersect SyncExc \subseteq InstrExc
  /\ ctrl.lsu_req => exc_buf \intersect InstrExc = {}

\* The exceptions of an instruction that are in the buffer after a clock edge.
LEMMA SyncAfter ==
  ASSUME ControlTypeOK, NEW raised \in SUBSET SyncExc, NEW ebreak \in BOOLEAN,
         ControlEdge(raised, ebreak)
  PROVE  /\ env_enter => exc_buf' = {}
         /\ \A e \in SyncExc :
              e \in exc_buf' => \/ e \in exc_buf \/ e \in raised
                                \/ e = "illegal" /\ instr_il
                                \/ e = "ebreak" /\ ebreak
<1>1. env_enter => exc_buf' = {}
  BY DEF ControlEdge, trap_buffer, exc_buf_after
<1>2. \A e \in SyncExc : e \notin debug_triggers(ebreak)
  BY DEF debug_triggers, SyncExc, InstrExc
<1>3. \A e : e \in ebreak_trig(ebreak) => e = "ebreak" /\ ebreak
  BY DEF ebreak_trig
<1>4. ~env_enter =>
        exc_buf' = exc_buf \union (raised \union (IF instr_il THEN {"illegal"} ELSE {})
                                   \union ebreak_trig(ebreak) \union debug_triggers(ebreak))
  BY DEF ControlEdge, trap_buffer, exc_buf_after
<1> QED
  BY <1>1, <1>2, <1>3, <1>4

\* What the history variable remembers.
LEMMA WroteAfter ==
  ASSUME CoreTypeOK, History
  PROVE  /\ wrote' => wrote \/ rf_wb_en_o \/ ctrl.csr_we
         /\ exec.state = "S_DISPATCH" /\ exec'.state = "S_EXECUTE" => ~wrote'
         /\ Quiet /\ exec.state \in WorkStates => ~wrote'
         /\ Quiet /\ exc_buf \intersect SyncExc # {} => ~wrote'
<1>1. wrote' <=> /\ ~(exec.state = "S_DISPATCH" /\ exec'.state = "S_EXECUTE")
                 /\ wrote \/ rf_wb_en_o \/ ctrl.csr_we
  BY DEF History
<1> QED
  BY <1>1 DEF Quiet, rf_wb_en_o

\* Where the engine raises nothing, what is written stays written by an
\* instruction without an exception.
LEMMA QuietWhenIdle ==
  ASSUME CoreTypeOK, Quiet, ControlEdge({}, FALSE), Control({}), History,
         exec.state \notin WorkStates, exec'.state \notin WorkStates
  PROVE  Quiet'
<1>1. /\ ~ctrl'.csr_we /\ ~ctrl'.lsu_req /\ ~ctrl'.rf_wb_en
  BY ControlSignals DEF CoreTypeOK, ControlTypeOK
<1>2. ~instr_il
  BY DEF instr_il, WorkStates
<1>3. \A e \in SyncExc : e \in exc_buf' => e \in exc_buf
  <2>1. PICK raised \in SUBSET SyncExc, ebreak \in BOOLEAN :
          raised = {} /\ ~ebreak /\ ControlEdge(raised, ebreak)
    OBVIOUS
  <2>2. \A e \in SyncExc : e \in exc_buf' => \/ e \in exc_buf \/ e \in raised
                                             \/ e = "illegal" /\ instr_il
                                             \/ e = "ebreak" /\ ebreak
    BY <2>1, SyncAfter DEF CoreTypeOK
  <2> QED
    BY <1>2, <2>1, <2>2
<1>4. exc_buf' \intersect SyncExc # {} => ~wrote'
  BY <1>3, WroteAfter
<1> QED
  BY <1>1, <1>4 DEF Quiet, WorkStates

\* An instruction at work has not written before, whatever it raises now.
LEMMA QuietAtWork ==
  ASSUME CoreTypeOK, Quiet, NEW raised \in SUBSET SyncExc, NEW ebreak \in BOOLEAN,
         ControlEdge(raised, ebreak), NEW signals, Control(signals), History,
         exec.state \in WorkStates,
         exec'.state \in WorkStates => "rf_wb_en" \notin signals,
         exec.state \in {"S_EXECUTE", "S_ALU_WAIT"} => raised = {} /\ ~ebreak,
         exec'.state \in {"S_EXECUTE", "S_ALU_WAIT", "S_SYSTEM"} =>
           exec.state \in {"S_EXECUTE", "S_ALU_WAIT"},
         "csr_we" \in signals => /\ exec.state = "S_SYSTEM" /\ exec'.state \notin WorkStates
                                 /\ ~Faulted /\ raised = {} /\ ~ebreak,
         "lsu_req" \in signals => exec.state = "S_MEM_REQ" /\ ~Faulted /\ raised = {}
  PROVE  Quiet'
<1>1. /\ ctrl'.rf_wb_en <=> "rf_wb_en" \in signals
      /\ ctrl'.csr_we <=> "csr_we" \in signals
      /\ ctrl'.lsu_req <=> "lsu_req" \in signals
  BY ControlSignals DEF CoreTypeOK, ControlTypeOK
<1>2. ~wrote'
  BY WroteAfter
<1>3. \A e \in SyncExc : e \in exc_buf' => \/ e \in exc_buf \/ e \in raised
                                           \/ e = "illegal" /\ instr_il
                                           \/ e = "ebreak" /\ ebreak
  BY SyncAfter DEF CoreTypeOK
<1>4. exec'.state \in WorkStates => ~ctrl'.csr_we /\ ~ctrl'.rf_wb_en
  BY <1>1
<1>5. exec'.state \in {"S_EXECUTE", "S_ALU_WAIT", "S_SYSTEM"} =>
        exc_buf' \intersect SyncExc \subseteq InstrExc
  BY <1>3 DEF Quiet, InstrExc
<1>6. ctrl'.csr_we => exc_buf' \intersect SyncExc = {}
  <2> SUFFICES ASSUME "csr_we" \in signals, NEW e \in SyncExc, e \in exc_buf' PROVE FALSE
    BY <1>1
  <2>1. ~instr_il
    BY DEF instr_il
  <2>2. e \in exc_buf
    BY <1>3, <2>1
  <2> QED
    BY <2>2 DEF Quiet, Faulted
<1>7. ctrl'.lsu_req => exc_buf' \intersect InstrExc = {}
  <2> SUFFICES ASSUME "lsu_req" \in signals, NEW e \in InstrExc, e \in exc_buf' PROVE FALSE
    BY <1>1
  <2>1. ~instr_il
    BY DEF instr_il
  <2>2. e \in exc_buf
    BY <1>3, <2>1 DEF InstrExc, SyncExc
  <2> QED
    BY <2>2 DEF Faulted
<1> QED
  BY <1>2, <1>4, <1>5, <1>6, <1>7 DEF Quiet

\* A new instruction begins without a trace of the last one.
LEMMA QuietDispatch ==
  ASSUME CoreTypeOK, Quiet, Dispatch(F!valid, F!compressed, F!fault), History
  PROVE  Quiet'
<1>1. exec.state = "S_DISPATCH" /\ exec.state \notin WorkStates /\ Control({})
  BY DEF Dispatch, WorkStates
<1>2. CASE TrapsFirst
  <2>1. exec'.state = "S_TRAP_ENTER" /\ ControlEdge({}, FALSE)
    BY <1>2 DEF Dispatch, Accepts, Go, CoreTypeOK, ControlTypeOK, ExecTypes
  <2> QED
    BY <1>1, <2>1, QuietWhenIdle DEF WorkStates
<1>3. CASE ~TrapsFirst /\ Accepts(F!valid)
  <2> DEFINE raised == IF F!fault THEN {"iaccess"} ELSE {}
  <2>1. raised \in SUBSET SyncExc /\ raised \subseteq InstrExc /\ ControlEdge(raised, FALSE)
    <3>1. raised \in SUBSET SyncExc /\ raised \subseteq InstrExc
      BY DEF SyncExc, InstrExc
    <3>2. ControlEdge(raised, FALSE)
      BY <1>3 DEF Dispatch
    <3> QED
      BY <3>1, <3>2
  <2>2. exec'.state = "S_EXECUTE" /\ ~instr_il /\ exc_buf = {}
    <3>1. PICK kind \in generics.kinds, bad \in BOOLEAN :
            exec' = [state |-> "S_EXECUTE", kind |-> kind, bad |-> bad,
                     ci |-> F!compressed, pc |-> exec.pc2, pc2 |-> exec.pc2]
      BY <1>3 DEF Dispatch
    <3>2. exec'.state = "S_EXECUTE"
      BY <3>1
    <3> QED
      BY <1>1, <1>3, <3>2 DEF instr_il, TrapsFirst, exc_fire
  <2> HIDE DEF raised
  <2>3. ~ctrl'.csr_we /\ ~ctrl'.lsu_req /\ ~ctrl'.rf_wb_en /\ ~wrote'
    BY <1>1, <2>2, ControlSignals, WroteAfter DEF CoreTypeOK, ControlTypeOK
  <2>4. PICK ebreak \in BOOLEAN : ~ebreak /\ ControlEdge(raised, ebreak)
    BY <2>1
  <2>5. \A e \in SyncExc : e \in exc_buf' => \/ e \in exc_buf \/ e \in raised
                                             \/ e = "illegal" /\ instr_il
                                             \/ e = "ebreak" /\ ebreak
    BY <2>1, <2>4, SyncAfter DEF CoreTypeOK
  <2>6. exc_buf' \intersect SyncExc \subseteq InstrExc
    BY <2>1, <2>2, <2>4, <2>5
  <2> QED
    BY <2>2, <2>3, <2>6 DEF Quiet
<1>4. CASE ~TrapsFirst /\ ~Accepts(F!valid)
  <2>1. exec' = exec /\ ControlEdge({}, FALSE)
    BY <1>4 DEF Dispatch, Accepts
  <2> QED
    BY <1>1, <2>1, QuietWhenIdle
<1> QED
  BY <1>2, <1>3, <1>4

LEMMA QuietInit == ASSUME Init PROVE Quiet
BY DEF Init, ControlInit, ctrl_bus_zero_c, Quiet, WorkStates

LEMMA QuietStep == ASSUME CoreTypeOK, Quiet, [Next]_vars PROVE Quiet'
<1> USE DEF Around
<1>0. DOMAIN exec = {"state", "kind", "bad", "ci", "pc", "pc2"} /\ exec \in ExecTypes
  BY DEF CoreTypeOK, ControlTypeOK, ExecTypes
<1>1. CASE (Restart \/ TrapExit \/ TrapEnter \/ Sleep) /\ History
  <2>1. exec.state \notin WorkStates /\ exec'.state \notin WorkStates
    BY <1>0, <1>1 DEF Restart, TrapExit, TrapEnter, Sleep, Go, WorkStates, ExecTypes
  <2>2. ControlEdge({}, FALSE) /\ Control({})
    BY <1>1 DEF Restart, TrapExit, TrapEnter, Sleep
  <2> QED
    BY <1>1, <2>1, <2>2, QuietWhenIdle
<1>2. CASE Dispatch(F!valid, F!compressed, F!fault) /\ Around(FALSE)
  BY <1>2, QuietDispatch
<1>3. CASE Execute /\ Around(FALSE)
  <2> DEFINE signals == IF exec.kind = "alu" THEN {"rf_wb_en"} ELSE {}
  <2>1. /\ Control(signals) /\ ControlEdge({}, FALSE) /\ History
        /\ exec.state = "S_EXECUTE" /\ exec'.state = AfterExecute
        /\ "csr_we" \notin signals /\ "lsu_req" \notin signals
        /\ exec'.state \in WorkStates => "rf_wb_en" \notin signals
    BY <1>0, <1>3 DEF Execute, AfterExecute, WorkStates, ExecTypes
  <2> HIDE DEF signals
  <2> QED
    BY <2>1, QuietAtWork DEF WorkStates
<1>4. CASE (\E done \in BOOLEAN : AluWait(done)) /\ Around(FALSE)
  <2>1. PICK done \in BOOLEAN : AluWait(done)
    BY <1>4
  <2> DEFINE signals == IF done THEN {"rf_wb_en"} ELSE {}
  <2>2. /\ Control(signals) /\ ControlEdge({}, FALSE) /\ History
        /\ exec.state = "S_ALU_WAIT" /\ "csr_we" \notin signals /\ "lsu_req" \notin signals
        /\ exec'.state \in {"S_DISPATCH", "S_ALU_WAIT"}
        /\ exec'.state \in WorkStates => "rf_wb_en" \notin signals
    BY <1>0, <1>4, <2>1 DEF AluWait, AluLeaves, Go, WorkStates, ExecTypes
  <2> HIDE DEF signals
  <2> QED
    BY <2>2, QuietAtWork DEF WorkStates
<1>5. CASE TakeBranch
  <2>1. PICK taken \in BOOLEAN, target \in Targets : Branch(taken, target) /\ History
    BY <1>5 DEF TakeBranch
  <2> DEFINE signals == IF exec.kind = "jump" THEN {"rf_wb_en"} ELSE {}
             raised  == IF taken /\ target % 2 = 1 /\ ~generics.c THEN {"ialign"} ELSE {}
  <2>2. /\ Control(signals) /\ ControlEdge(raised, FALSE) /\ raised \in SUBSET SyncExc
        /\ exec.state = "S_BRANCH" /\ "csr_we" \notin signals /\ "lsu_req" \notin signals
        /\ exec'.state = "S_DISPATCH"
    BY <1>0, <2>1 DEF Branch, ExecTypes, SyncExc, InstrExc
  <2> HIDE DEF signals, raised
  <2> QED
    BY <2>1, <2>2, QuietAtWork DEF WorkStates
<1>6. CASE MemReq /\ Around(FALSE)
  <2> DEFINE signals == IF Faulted THEN {} ELSE {"lsu_req"}
  <2>1. /\ Control(signals) /\ ControlEdge({}, FALSE) /\ History
        /\ exec.state = "S_MEM_REQ" /\ "csr_we" \notin signals /\ "rf_wb_en" \notin signals
        /\ "lsu_req" \in signals => ~Faulted
        /\ exec'.state \in {"S_DISPATCH", "S_MEM_RSP"}
    BY <1>0, <1>6 DEF MemReq, Go, ExecTypes
  <2> HIDE DEF signals
  <2> QED
    BY <2>1, QuietAtWork DEF WorkStates
<1>7. CASE (\E ack, err \in BOOLEAN : MemRsp(ack, err)) /\ Around(FALSE)
  <2>1. PICK ack \in BOOLEAN, err \in BOOLEAN : MemRsp(ack, err)
    BY <1>7
  <2> DEFINE leaves  == ack \/ "lsu" \in exc_buf
             signals == IF leaves /\ exec.kind = "load" THEN {"rf_wb_en"} ELSE {}
             raised  == IF err THEN {"lsu"} ELSE {}
  <2>2. /\ Control(signals) /\ ControlEdge(raised, FALSE) /\ raised \in SUBSET SyncExc
        /\ exec.state = "S_MEM_RSP" /\ "csr_we" \notin signals /\ "lsu_req" \notin signals
        /\ exec'.state \in {"S_DISPATCH", "S_MEM_RSP"}
        /\ exec'.state \in WorkStates => "rf_wb_en" \notin signals
    BY <1>0, <2>1 DEF MemRsp, Go, ExecTypes, SyncExc, WorkStates
  <2> HIDE DEF signals, raised
  <2> QED
    BY <1>7, <2>2, QuietAtWork DEF WorkStates
<1>8. CASE System /\ Around(FALSE)
  <2> DEFINE signals == {"rf_wb_en"} \union (IF WritesCsr THEN {"csr_we"} ELSE {})
             raised  == IF ~Faulted /\ exec.kind = "ecall" THEN {"ecall"} ELSE {}
             ebreak  == ~Faulted /\ exec.kind = "ebreak"
  <2>1. /\ Control(signals) /\ ControlEdge(raised, ebreak) /\ History
        /\ raised \in SUBSET SyncExc /\ ebreak \in BOOLEAN
        /\ exec.state = "S_SYSTEM" /\ "lsu_req" \notin signals
        /\ exec'.state \in {"S_DISPATCH", "S_TRAP_EXIT", "S_SLEEP"}
        /\ "csr_we" \in signals => ~Faulted /\ raised = {} /\ ~ebreak
    BY <1>0, <1>8 DEF System, AfterSystem, Go, ExecTypes, SyncExc, WritesCsr, CsrKinds
  <2> HIDE DEF signals, raised, ebreak
  <2> QED
    BY <2>1, QuietAtWork DEF WorkStates
<1>9. CASE UNCHANGED vars
  BY <1>9 DEF vars, controlVars, Quiet
<1> QED
  BY <1>1, <1>2, <1>3, <1>4, <1>5, <1>6, <1>7, <1>8, <1>9 DEF Next

\* An instruction that will trap has written nothing, and one that was fetched or
\* decoded with an exception has asked nothing of the memory.
THEOREM TrapsLeaveNothing == Spec => []FaultedHasNoEffect
<1>1. Init => Quiet
  BY QuietInit
<1>2. CoreTypeOK /\ Quiet /\ [Next]_vars => Quiet'
  BY QuietStep
<1>3. Quiet => FaultedHasNoEffect
  BY DEF Quiet, FaultedHasNoEffect, rf_wb_en_o
<1> QED
  BY <1>1, <1>2, <1>3, CoreTypeCorrect, PTL DEF Spec

-------------------------------------------------------------------------------
(* Precise traps.                                                            *)

\* A CSR is written in the clock after its instruction, if that was a legal one.
WritesLegal == ctrl.csr_we => exec.state = "S_DISPATCH" /\ exec.kind \in CsrKinds /\ ~illegal_cmd

\* So are the other instructions that change more than the PC.
LegalSystem ==
  /\ exec.state = "S_SYSTEM" /\ ~Faulted => ~illegal_cmd
  /\ exec.state = "S_TRAP_EXIT" => /\ exec.kind \in {"mret", "dret"} /\ ~illegal_cmd
                                   /\ exc_buf \intersect SyncExc = {}

\* An ebreak into debug mode traps at once.
Breaks ==
  "db_brkp" \in exc_buf => exec.state \in {"S_DISPATCH", "S_TRAP_ENTER"} /\ ~ctrl.csr_we

\* A halt request stays until the hart has halted, and no longer.
Halts ==
  "db_halt" \in irq_buf =>
    IF debug_run THEN exec.state = "S_RESTART" /\ ~env_pend /\ exc_buf = {} ELSE irq_dbg

\* Single-stepping holds the hart behind each instruction.
StepsOnce ==
  /\ exec.state = "S_EXECUTE" => "db_step" \notin exc_buf
  /\ InFlight /\ exec.state # "S_EXECUTE" =>
       ("db_step" \in exc_buf <=> csr.step /\ ~debug_run)

\* Nothing of this without the debugger, ...
DebugOnly ==
  \/ debug_run \/ csr.step
  \/ "db_trig" \in exc_buf \/ "db_brkp" \in exc_buf \/ "db_step" \in exc_buf
  \/ "db_halt" \in irq_buf
  => generics.sdext

\* ... and no user mode in a hart that has none.
MachineOnly == ~generics.u => csr.prv = "M" /\ csr.mpp = "M"

\* An address that a trap saves needs no alignment.
SavedAddresses ==
  ~generics.c => exec.pc % 2 = 0 /\ ("ialign" \notin exc_buf => exec.pc2 % 2 = 0)

\* A trap that nothing but an interrupt asks for finds interrupts enabled when the
\* last instruction began, or enabled by the instruction in exec.
Due ==
  /\ exec.state = "S_TRAP_ENTER" => env_pend
  /\ exec.state = "S_SLEEP" /\ InterruptsOpen => open
  /\ env_pend /\ exc_buf = {} /\ "db_halt" \notin irq_buf =>
       IF InFlight THEN InterruptsOpen ELSE debug_run \/ open

TrapInv ==
  /\ WritesLegal /\ LegalSystem /\ Breaks /\ Halts /\ StepsOnce /\ DebugOnly /\ MachineOnly
  /\ SavedAddresses /\ Due

LEMMA PriorityFacts ==
  /\ DOMAIN Priority = 1 .. 11
  /\ Priority[1] = "iaccess" /\ Priority[2] = "illegal" /\ Priority[3] = "ialign"
  /\ Priority[4] = "ecall" /\ Priority[5] = "ebreak" /\ Priority[6] = "lsu"
  /\ Priority[7] = "db_halt" /\ Priority[8] = "db_trig" /\ Priority[9] = "db_brkp"
  /\ Priority[10] = "db_step" /\ Priority[11] = "mei"
BY DEF Priority

\* The exceptions are those of instructions and those of the debugger.
LEMMA ExceptionKinds ==
  ASSUME NEW e \in Exceptions
  PROVE  e \in SyncExc \/ e \in {"db_trig", "db_brkp", "db_step"}
<1>1. e \in Causes /\ e \notin SystemIrqs /\ e # "db_halt"
  BY DEF Exceptions
<1>2. CASE e = Default
  BY <1>1, <1>2 DEF Default, SystemIrqs
<1>3. CASE e # Default
  <2>1. PICK k \in 1 .. 11 : e = Priority[k]
    BY <1>1, <1>3, PriorityFacts DEF Causes
  <2> QED
    BY <1>1, <2>1, PriorityFacts DEF SyncExc, InstrExc, SystemIrqs
<1> QED
  BY <1>2, <1>3

\* What the encoder chooses is requested, and nothing before it is: an instruction's
\* exception, then the debugger's, then an interrupt.
LEMMA CauseFacts ==
  ASSUME exc_buf \subseteq Exceptions, irq_buf \subseteq SystemIrqs \union {"db_halt"}
  PROVE  \/ cause \in SyncExc /\ cause \in exc_buf
         \/ /\ exc_buf \intersect SyncExc = {}
            /\ \/ cause = "db_halt" /\ "db_halt" \in irq_buf
               \/ cause = "db_trig" /\ "db_trig" \in exc_buf
               \/ /\ cause = "db_brkp" /\ "db_brkp" \in exc_buf /\ ~Overtaken
               \/ /\ cause = "db_step" /\ "db_step" \in exc_buf
                  /\ "db_brkp" \notin exc_buf
         \/ cause \in SystemIrqs /\ exc_buf = {} /\ "db_halt" \notin irq_buf
<1> DEFINE all     == exc_buf \union irq_buf
           pending == {k \in DOMAIN Priority : Priority[k] \in all}
<1>1. \A e \in SyncExc : e \notin irq_buf /\ e # Default
  BY DEF SyncExc, InstrExc, SystemIrqs, Default
<1>2. /\ "db_halt" \notin exc_buf /\ "mei" \notin exc_buf /\ Default \notin exc_buf
      /\ "db_trig" \notin irq_buf /\ "db_brkp" \notin irq_buf /\ "db_step" \notin irq_buf
  BY DEF Exceptions, SystemIrqs, Default
<1>3. CASE pending = {}
  <2>1. cause = Default
    BY <1>3 DEF cause
  <2>2. \A k \in 1 .. 11 : Priority[k] \notin all
    BY <1>3, PriorityFacts
  <2>3. /\ \A e \in SyncExc : e \notin exc_buf
        /\ "db_trig" \notin exc_buf /\ "db_brkp" \notin exc_buf /\ "db_step" \notin exc_buf
        /\ "db_halt" \notin irq_buf
    <3>1. /\ Priority[1] \notin all /\ Priority[2] \notin all /\ Priority[3] \notin all
          /\ Priority[4] \notin all /\ Priority[5] \notin all /\ Priority[6] \notin all
          /\ Priority[7] \notin all /\ Priority[8] \notin all /\ Priority[9] \notin all
          /\ Priority[10] \notin all
      BY <2>2
    <3> QED
      BY <3>1, PriorityFacts DEF SyncExc, InstrExc
  <2>4. exc_buf = {}
    BY <2>3, ExceptionKinds
  <2> QED
    BY <2>1, <2>3, <2>4 DEF SystemIrqs, Default
<1>4. CASE pending # {}
  <2> DEFINE k0 == CHOOSE k \in pending : \A j \in pending : k <= j
  <2>1. \E k \in pending : \A j \in pending : k <= j
    BY <1>4, PriorityFacts, NatLessThanWellFounded, WFMin DEF OpToRel
  <2>2. k0 \in pending /\ \A j \in pending : k0 <= j
    BY <2>1
  <2>3. cause = Priority[k0]
    BY <1>4 DEF cause
  <2> HIDE DEF k0
  <2>4. /\ k0 \in 1 .. 11 /\ Priority[k0] \in all
        /\ \A j \in 1 .. 11 : j < k0 => Priority[j] \notin all
    BY <2>2, PriorityFacts
  <2> HIDE DEF pending
  <2>5. CASE k0 <= 6
    <3>1. Priority[k0] \in SyncExc
      BY <2>4, <2>5, PriorityFacts DEF SyncExc, InstrExc
    <3> QED
      BY <1>1, <2>3, <2>4, <3>1
  <2>6. CASE k0 > 6
    <3>1. exc_buf \intersect SyncExc = {}
      <4>1. /\ Priority[1] \notin all /\ Priority[2] \notin all /\ Priority[3] \notin all
            /\ Priority[4] \notin all /\ Priority[5] \notin all /\ Priority[6] \notin all
        BY <2>4, <2>6
      <4> QED
        BY <4>1, PriorityFacts DEF SyncExc, InstrExc
    <3>2. /\ k0 > 7 => "db_halt" \notin irq_buf
          /\ k0 > 8 => "db_trig" \notin exc_buf
          /\ k0 > 9 => "db_brkp" \notin exc_buf
          /\ k0 > 10 => "db_step" \notin exc_buf
      <4>1. /\ k0 > 7 => Priority[7] \notin all
            /\ k0 > 8 => Priority[8] \notin all
            /\ k0 > 9 => Priority[9] \notin all
            /\ k0 > 10 => Priority[10] \notin all
        BY <2>4
      <4> QED
        BY <4>1, PriorityFacts
    <3>3. CASE k0 = 11
      <4>1. exc_buf = {}
        BY <3>1, <3>2, <3>3, ExceptionKinds
      <4> QED
        BY <2>3, <3>2, <3>3, <4>1, PriorityFacts DEF SystemIrqs
    <3>4. CASE k0 \in 7 .. 10
      <4>1. /\ k0 = 7 => cause = "db_halt" /\ "db_halt" \in irq_buf
            /\ k0 = 8 => cause = "db_trig" /\ "db_trig" \in exc_buf
            /\ k0 = 9 => cause = "db_brkp" /\ "db_brkp" \in exc_buf
            /\ k0 = 10 => cause = "db_step" /\ "db_step" \in exc_buf
        BY <1>2, <2>3, <2>4, PriorityFacts
      <4>2. k0 = 7 \/ k0 = 8 \/ k0 = 9 \/ k0 = 10
        BY <3>4
      <4> QED
        BY <3>1, <3>2, <4>1, <4>2 DEF Overtaken
    <3> QED
      BY <2>4, <2>6, <3>3, <3>4
  <2> QED
    BY <2>4, <2>5, <2>6
<1> QED
  BY <1>3, <1>4

\* The trap buffers after a clock edge.
LEMMA BuffersAfter ==
  ASSUME CoreTypeOK, NEW raised \in SUBSET SyncExc, NEW ebreak \in BOOLEAN,
         ControlEdge(raised, ebreak)
  PROVE  /\ "db_halt" \in irq_buf' <=> trig_halt \/ (env_pend /\ "db_halt" \in irq_buf)
         /\ env_enter => exc_buf' = {} /\ ~env_pend'
         /\ ~env_enter =>
              /\ exc_buf \subseteq exc_buf'
              /\ \A e \in SyncExc : e \in exc_buf' => \/ e \in exc_buf \/ e \in raised
                                                      \/ e = "illegal" /\ instr_il
                                                      \/ e = "ebreak" /\ ebreak
              /\ instr_il => "illegal" \in exc_buf'
              /\ raised \subseteq exc_buf'
              /\ "db_brkp" \in exc_buf' => "db_brkp" \in exc_buf \/ (generics.sdext /\ ebreak)
              /\ "db_trig" \in exc_buf' => "db_trig" \in exc_buf \/ generics.sdext
              /\ "db_step" \in exc_buf' <=>
                   "db_step" \in exc_buf
                   \/ (generics.sdext /\ csr.step /\ ~debug_run /\ exec.state = "S_EXECUTE")
              /\ env_pend' <=> env_pend \/ exc_fire \/ irq_fire
<1> USE DEF CoreTypeOK, ControlTypeOK
<1>1. "db_halt" \in irq_buf' <=> trig_halt \/ (env_pend /\ "db_halt" \in irq_buf)
  <2>1. irq_buf' = {i \in irq_pnd : i \in csr.ie}
                   \union (IF trig_halt THEN {"db_halt"} ELSE {})
                   \union (IF env_pend THEN irq_buf ELSE {})
    BY DEF ControlEdge, trap_buffer
  <2>2. "db_halt" \notin irq_pnd
    BY DEF SystemIrqs
  <2> QED
    BY <2>1, <2>2
<1>2. env_enter => exc_buf' = {} /\ ~env_pend'
  BY DEF ControlEdge, trap_buffer, exc_buf_after, trap_pending
<1>3. ~env_enter =>
        exc_buf' = exc_buf \union (raised \union (IF instr_il THEN {"illegal"} ELSE {})
                                   \union ebreak_trig(ebreak) \union debug_triggers(ebreak))
  BY DEF ControlEdge, trap_buffer, exc_buf_after
<1>4. /\ "db_brkp" \in debug_triggers(ebreak) => generics.sdext /\ ebreak
      /\ "db_trig" \in debug_triggers(ebreak) => generics.sdext
      /\ "db_step" \in debug_triggers(ebreak) <=>
           (generics.sdext /\ csr.step /\ ~debug_run /\ exec.state = "S_EXECUTE")
  BY DEF debug_triggers
<1>5. \A e : e \in ebreak_trig(ebreak) => e = "ebreak" /\ ebreak
  BY DEF ebreak_trig
<1>6. "db_brkp" \notin raised /\ "db_trig" \notin raised /\ "db_step" \notin raised
  BY DEF SyncExc, InstrExc
<1>7. ~env_enter =>
        /\ "db_brkp" \in exc_buf' => "db_brkp" \in exc_buf \/ (generics.sdext /\ ebreak)
        /\ "db_trig" \in exc_buf' => "db_trig" \in exc_buf \/ generics.sdext
        /\ "db_step" \in exc_buf' <=>
             "db_step" \in exc_buf
             \/ (generics.sdext /\ csr.step /\ ~debug_run /\ exec.state = "S_EXECUTE")
  BY <1>3, <1>4, <1>5, <1>6
<1>8. ~env_enter =>
        \A e \in SyncExc : e \in exc_buf' => \/ e \in exc_buf \/ e \in raised
                                             \/ e = "illegal" /\ instr_il
                                             \/ e = "ebreak" /\ ebreak
  BY SyncAfter
<1>9. ~env_enter =>
        /\ exc_buf \subseteq exc_buf' /\ raised \subseteq exc_buf'
        /\ instr_il => "illegal" \in exc_buf'
  BY <1>3
<1>10. ~env_enter => (env_pend' <=> env_pend \/ exc_fire \/ irq_fire)
  BY DEF ControlEdge, trap_pending
<1> QED
  BY <1>1, <1>2, <1>7, <1>8, <1>9, <1>10

\* A clock edge of an engine that raises nothing but `raised'.
Clock(raised, ebreak) ==
  /\ ControlEdge(raised, ebreak) /\ MatchBuffer /\ Debugger /\ History /\ generics' = generics
  /\ env_enter => exec'.state = "S_RESTART"
  /\ ebreak => exec.state = "S_SYSTEM" /\ exec.kind = "ebreak" /\ ~Faulted

\* The CSRs, the debug mode and the PC of the last instruction stay.
Calm ==
  /\ csr' = csr /\ (debug_run' <=> debug_run)
  /\ ~ctrl.csr_we /\ ~env_enter /\ ~env_exit

\* What a clock edge is to the instruction in exec.  It goes on or waits for its trap:
Stays  == InFlight /\ InFlight' /\ Calm /\ exec'.pc = exec.pc /\ exec'.state # "S_EXECUTE"
\* it happens, without an effect on what module Hart sees;
Lands  == InFlight /\ ~InFlight' /\ Calm
\* there is none;
Rests  == ~InFlight /\ ~InFlight' /\ Calm /\ exec'.pc2 = exec.pc2
\* the next one begins;
Accepted ==
  /\ exec.state = "S_DISPATCH" /\ exc_buf = {} /\ ~env_pend
  /\ exec'.state = "S_EXECUTE" /\ exec'.pc = exec.pc2 /\ exec'.pc2 = exec.pc2
Begins == ~InFlight /\ InFlight' /\ Calm /\ Accepted
\* it happens by writing a CSR;
Writes ==
  /\ ctrl.csr_we /\ exec.state = "S_DISPATCH"
  /\ csr_written /\ (debug_run' <=> debug_run)
  /\ InFlight' => Accepted
\* and the entry of a trap and the return from one.
Enters == TrapEnter /\ ~ctrl.csr_we /\ ~InFlight'
Returns == TrapExit /\ ~ctrl.csr_we /\ ~InFlight'

Flight == Stays \/ Lands \/ Rests \/ Begins \/ Writes \/ Enters \/ Returns

LEMMA CalmOrWrites ==
  ASSUME ControlTypeOK, NEW raised \in SUBSET SyncExc, NEW ebreak \in BOOLEAN,
         ControlEdge(raised, ebreak), ~env_enter, ~env_exit
  PROVE  /\ debug_run' <=> debug_run
         /\ ~ctrl.csr_we => Calm
         /\ ctrl.csr_we => csr_written
<1>1. debug_run' <=> debug_run
  BY ControlEdgeFacts
<1>2. ~ctrl.csr_we => csr' = csr
  BY CsrStep DEF ControlEdge
<1>3. ctrl.csr_we => csr_written
  BY DEF ControlEdge, csr_write_access
<1> QED
  BY <1>1, <1>2, <1>3 DEF Calm

\* Nothing is raised outside of an instruction, and what was overtaken stays so.
LEMMA NothingRaised ==
  ASSUME CoreTypeOK, Halts, DebugOnly, Clock({}, FALSE), ~env_enter,
         exec.state \in {"S_RESTART", "S_DISPATCH", "S_SLEEP", "S_TRAP_EXIT"}
  PROVE  /\ exc_buf' \intersect SyncExc = exc_buf \intersect SyncExc
         /\ "db_brkp" \in exc_buf' <=> "db_brkp" \in exc_buf
         /\ exec.state # "S_RESTART" /\ Overtaken => Overtaken'
<1>1. PICK raised \in SUBSET SyncExc, ebreak \in BOOLEAN :
        raised = {} /\ ~ebreak /\ ControlEdge(raised, ebreak)
  BY DEF Clock
<1>2. ~instr_il
  BY DEF instr_il
<1>3. /\ exc_buf \subseteq exc_buf'
      /\ \A e \in SyncExc : e \in exc_buf' => \/ e \in exc_buf \/ e \in raised
                                              \/ e = "illegal" /\ instr_il
                                              \/ e = "ebreak" /\ ebreak
      /\ "db_brkp" \in exc_buf' => "db_brkp" \in exc_buf \/ (generics.sdext /\ ebreak)
  BY <1>1, BuffersAfter
<1>4. exec.state # "S_RESTART" /\ "db_halt" \in irq_buf => "db_halt" \in irq_buf'
  <2> SUFFICES ASSUME exec.state # "S_RESTART", "db_halt" \in irq_buf
               PROVE  trig_halt
    BY <1>1, BuffersAfter
  <2> QED
    BY DEF trig_halt, Halts, DebugOnly
<1> QED
  BY <1>1, <1>2, <1>3, <1>4 DEF Overtaken

\* An instruction that is at work, or waits for its trap.
LEMMA FlightAtWork ==
  ASSUME CoreTypeOK, Quiet, NEW raised \in SUBSET SyncExc, NEW ebreak \in BOOLEAN,
         ControlEdge(raised, ebreak), exec.state \in WorkStates,
         exec'.pc = exec.pc, exec'.state # "S_EXECUTE"
  PROVE  Flight
<1>1. InFlight /\ ~ctrl.csr_we /\ ~env_enter /\ ~env_exit
  BY DEF InFlight, InstrStates, WorkStates, Quiet, env_enter, env_exit
<1>2. Calm
  BY <1>1, CalmOrWrites DEF CoreTypeOK
<1> QED
  BY <1>1, <1>2 DEF Flight, Stays, Lands

\* Between two instructions, when none begins.
LEMMA FlightBetween ==
  ASSUME CoreTypeOK, Quiet, TrapInv, Clock({}, FALSE), Control({}),
         exec.state \in {"S_RESTART", "S_DISPATCH", "S_SLEEP"},
         exec'.state \in {"S_DISPATCH", "S_TRAP_ENTER", "S_SLEEP"},
         exec'.pc = exec.pc, exec'.pc2 = exec.pc2
  PROVE  Flight
<1> USE DEF TrapInv
<1>1. ~env_enter /\ ~env_exit /\ exec.state \notin InstrStates /\ exec'.state \notin InstrStates
  BY DEF env_enter, env_exit, InstrStates
<1>2. ~ctrl'.csr_we
  BY ControlSignals DEF CoreTypeOK, ControlTypeOK
<1>3. PICK raised \in SUBSET SyncExc, ebreak \in BOOLEAN :
        raised = {} /\ ~ebreak /\ ControlEdge(raised, ebreak)
  BY DEF Clock
<1>4. /\ exc_buf' \intersect SyncExc = exc_buf \intersect SyncExc
      /\ "db_brkp" \in exc_buf' <=> "db_brkp" \in exc_buf
      /\ exec.state # "S_RESTART" /\ Overtaken => Overtaken'
  BY <1>1, NothingRaised
<1>5. Aborted' => Aborted
  BY <1>4 DEF Aborted, Breaks
<1>6. CASE ctrl.csr_we
  <2>1. ~Aborted /\ exec.state = "S_DISPATCH"
    BY <1>6 DEF Aborted, Quiet, Breaks, WritesLegal
  <2>2. ~InFlight'
    BY <1>1, <1>2, <1>5, <2>1 DEF InFlight
  <2>3. csr_written /\ (debug_run' <=> debug_run)
    BY <1>1, <1>3, <1>6, CalmOrWrites DEF CoreTypeOK
  <2> QED
    BY <1>6, <2>1, <2>2, <2>3 DEF Flight, Writes
<1>7. CASE ~ctrl.csr_we
  <2>1. Calm
    BY <1>1, <1>3, <1>7, CalmOrWrites DEF CoreTypeOK
  <2>2. InFlight' => InFlight
    BY <1>1, <1>2, <1>5 DEF InFlight
  <2>3. exec'.state # "S_EXECUTE"
    OBVIOUS
  <2> QED
    BY <2>1, <2>2, <2>3 DEF Flight, Stays, Lands, Rests
<1> QED
  BY <1>6, <1>7

LEMMA FlightDispatch ==
  ASSUME CoreTypeOK, Quiet, TrapInv, Dispatch(F!valid, F!compressed, F!fault), Around(FALSE)
  PROVE  Flight
<1> USE DEF TrapInv
<1>1. /\ exec.state = "S_DISPATCH" /\ Control({}) /\ ~env_enter /\ ~env_exit
      /\ MatchBuffer /\ Debugger /\ History /\ generics' = generics
  BY DEF Dispatch, Around, env_enter, env_exit
<1>2. exec \in ExecTypes /\ DOMAIN exec = {"state", "kind", "bad", "ci", "pc", "pc2"}
  BY DEF CoreTypeOK, ControlTypeOK, ExecTypes
<1>3. CASE ~Accepts(F!valid)
  <2>1. /\ exec'.state \in {"S_DISPATCH", "S_TRAP_ENTER"}
        /\ exec'.pc = exec.pc /\ exec'.pc2 = exec.pc2
    BY <1>1, <1>2, <1>3 DEF Dispatch, Go, ExecTypes
  <2>2. ControlEdge({}, FALSE)
    BY <1>3 DEF Dispatch
  <2>3. Clock({}, FALSE)
    BY <1>1, <2>2 DEF Clock
  <2> QED
    BY <1>1, <2>1, <2>3, FlightBetween
<1>4. CASE Accepts(F!valid)
  <2> DEFINE raised == IF F!fault THEN {"iaccess"} ELSE {}
  <2>1. ControlEdge(raised, FALSE)
    BY <1>4 DEF Dispatch, Accepts
  <2>2. raised \in SUBSET SyncExc
    BY DEF SyncExc, InstrExc
  <2> HIDE DEF raised
  <2>3. PICK ebreak \in BOOLEAN : ~ebreak /\ ControlEdge(raised, ebreak)
    BY <2>1
  <2>4. PICK kind \in generics.kinds, bad \in BOOLEAN :
          exec' = [state |-> "S_EXECUTE", kind |-> kind, bad |-> bad,
                   ci |-> F!compressed, pc |-> exec.pc2, pc2 |-> exec.pc2]
    BY <1>4 DEF Dispatch, Accepts
  <2>5. Accepted
    BY <1>1, <1>4, <2>4 DEF Accepted, Accepts, TrapsFirst, exc_fire
  <2>6. InFlight'
    BY <2>5 DEF Accepted, InFlight, InstrStates
  <2>7. /\ debug_run' <=> debug_run
        /\ ~ctrl.csr_we => Calm
        /\ ctrl.csr_we => csr_written
    BY <1>1, <2>2, <2>3, CalmOrWrites DEF CoreTypeOK
  <2>8. CASE ctrl.csr_we
    BY <1>1, <2>5, <2>7, <2>8 DEF Flight, Writes
  <2>9. CASE ~ctrl.csr_we
    <3>1. ~InFlight
      BY <1>1, <2>5, <2>9 DEF InFlight, InstrStates, Aborted, Accepted
    <3> QED
      BY <2>5, <2>6, <2>7, <2>9, <3>1 DEF Flight, Begins
  <2> QED
    BY <2>8, <2>9
<1> QED
  BY <1>3, <1>4

LEMMA FlightTraps ==
  ASSUME CoreTypeOK, Quiet, TrapInv, TrapEnter \/ TrapExit, Around(FALSE)
  PROVE  Flight
<1> USE DEF TrapInv
<1>1. exec \in ExecTypes /\ DOMAIN exec = {"state", "kind", "bad", "ci", "pc", "pc2"}
  BY DEF CoreTypeOK, ControlTypeOK, ExecTypes
<1>2. /\ exec.state \in {"S_TRAP_ENTER", "S_TRAP_EXIT"} /\ exec'.state = "S_RESTART"
      /\ Control({}) /\ ControlEdge({}, FALSE)
  BY <1>1 DEF TrapEnter, TrapExit, ExecTypes
<1>3. ~ctrl.csr_we /\ ~ctrl'.csr_we
  BY <1>2, ControlSignals DEF WritesLegal, CoreTypeOK, ControlTypeOK
<1>4. Clock({}, FALSE)
  BY <1>2 DEF Clock, Around
<1>5. PICK raised \in SUBSET SyncExc, ebreak \in BOOLEAN :
        raised = {} /\ ~ebreak /\ ControlEdge(raised, ebreak)
  BY <1>2
<1>6. ~Aborted'
  <2>1. CASE env_enter
    <3>1. exc_buf' = {}
      BY <1>5, <2>1, BuffersAfter
    <3> QED
      BY <3>1 DEF Aborted
  <2>2. CASE ~env_enter
    <3>1. exec.state = "S_TRAP_EXIT"
      BY <1>2, <2>2 DEF env_enter
    <3>2. exc_buf \intersect SyncExc = {} /\ "db_brkp" \notin exc_buf
      BY <3>1 DEF LegalSystem, Breaks
    <3>3. /\ exc_buf' \intersect SyncExc = exc_buf \intersect SyncExc
          /\ "db_brkp" \in exc_buf' <=> "db_brkp" \in exc_buf
      BY <1>4, <2>2, <3>1, NothingRaised
    <3> QED
      BY <3>2, <3>3 DEF Aborted
  <2> QED
    BY <2>1, <2>2
<1>7. ~InFlight'
  BY <1>2, <1>3, <1>6 DEF InFlight, InstrStates
<1> QED
  BY <1>3, <1>7 DEF Flight, Enters, Returns

\* Every clock edge is one of them.
LEMMA FlightStep ==
  ASSUME CoreTypeOK, Quiet, TrapInv, Next
  PROVE  /\ Flight
         /\ \E raised \in SUBSET SyncExc, ebreak \in BOOLEAN : Clock(raised, ebreak)
<1> USE DEF Around
<1>0. exec \in ExecTypes /\ DOMAIN exec = {"state", "kind", "bad", "ci", "pc", "pc2"}
  BY DEF CoreTypeOK, ControlTypeOK, ExecTypes
<1>1. ASSUME NEW raised \in SUBSET SyncExc, NEW ebreak \in BOOLEAN, Clock(raised, ebreak),
             \/ exec.state \in WorkStates /\ exec'.state # "S_EXECUTE" /\ exec'.pc = exec.pc
             \/ Flight
      PROVE  /\ Flight
             /\ \E x \in SUBSET SyncExc, y \in BOOLEAN : Clock(x, y)
  BY <1>1, FlightAtWork DEF Clock
<1>2. CASE (Restart \/ Sleep) /\ MatchBuffer /\ Debugger /\ History /\ generics' = generics
  <2>1. /\ exec.state \in {"S_RESTART", "S_DISPATCH", "S_SLEEP"}
        /\ exec'.state \in {"S_DISPATCH", "S_TRAP_ENTER", "S_SLEEP"}
        /\ exec'.pc = exec.pc /\ exec'.pc2 = exec.pc2
        /\ Control({}) /\ ControlEdge({}, FALSE)
    BY <1>0, <1>2 DEF Restart, Sleep, Go, ExecTypes
  <2>2. Clock({}, FALSE)
    BY <1>2, <2>1 DEF Clock, env_enter
  <2>3. Flight
    BY <2>1, <2>2, FlightBetween
  <2> QED
    BY <2>2, <2>3
<1>3. CASE Dispatch(F!valid, F!compressed, F!fault) /\ Around(FALSE)
  <2>1. Flight
    BY <1>3, FlightDispatch
  <2>2. PICK raised \in SUBSET SyncExc : ControlEdge(raised, FALSE)
    <3>1. {"iaccess"} \in SUBSET SyncExc /\ {} \in SUBSET SyncExc
      BY DEF SyncExc, InstrExc
    <3>2. ControlEdge({"iaccess"}, FALSE) \/ ControlEdge({}, FALSE)
      BY <1>3 DEF Dispatch
    <3> QED
      BY <3>1, <3>2
  <2>3. Clock(raised, FALSE)
    BY <1>3, <2>2 DEF Clock, Dispatch, env_enter
  <2> QED
    BY <2>1, <2>3
<1>4. CASE (TrapEnter \/ TrapExit) /\ Around(FALSE)
  <2>1. Flight
    BY <1>4, FlightTraps
  <2>2. exec'.state = "S_RESTART" /\ ControlEdge({}, FALSE)
    BY <1>0, <1>4 DEF TrapEnter, TrapExit, ExecTypes
  <2>3. Clock({}, FALSE)
    BY <1>4, <2>2 DEF Clock
  <2> QED
    BY <2>1, <2>3
<1>5. CASE Execute /\ Around(FALSE)
  <2>1. /\ exec.state \in WorkStates /\ exec'.state # "S_EXECUTE" /\ exec'.pc = exec.pc
        /\ ControlEdge({}, FALSE) /\ ~env_enter
    BY <1>0, <1>5 DEF Execute, AfterExecute, WorkStates, ExecTypes, env_enter
  <2>2. Clock({}, FALSE)
    BY <1>5, <2>1 DEF Clock
  <2> QED
    BY <1>1, <2>1, <2>2
<1>6. CASE (\E done \in BOOLEAN : AluWait(done)) /\ Around(FALSE)
  <2>0. PICK done \in BOOLEAN : AluWait(done)
    BY <1>6
  <2>1. /\ exec.state \in WorkStates /\ exec'.state # "S_EXECUTE" /\ exec'.pc = exec.pc
        /\ ControlEdge({}, FALSE) /\ ~env_enter
    BY <1>0, <2>0 DEF AluWait, Go, WorkStates, ExecTypes, env_enter
  <2>2. Clock({}, FALSE)
    BY <1>6, <2>1 DEF Clock
  <2> QED
    BY <1>1, <2>1, <2>2
<1>7. CASE TakeBranch
  <2>0. PICK taken \in BOOLEAN, target \in Targets :
          Branch(taken, target) /\ Around(Reset(taken))
    BY <1>7 DEF TakeBranch
  <2> DEFINE raised == IF taken /\ target % 2 = 1 /\ ~generics.c THEN {"ialign"} ELSE {}
  <2>1. /\ exec.state \in WorkStates /\ exec'.state # "S_EXECUTE" /\ exec'.pc = exec.pc
        /\ ControlEdge(raised, FALSE) /\ ~env_enter
    BY <1>0, <2>0 DEF Branch, WorkStates, ExecTypes, env_enter
  <2>2. raised \in SUBSET SyncExc
    BY DEF SyncExc, InstrExc
  <2> HIDE DEF raised
  <2>3. Clock(raised, FALSE)
    BY <2>0, <2>1 DEF Clock
  <2> QED
    BY <1>1, <2>1, <2>2, <2>3
<1>8. CASE MemReq /\ Around(FALSE)
  <2>1. /\ exec.state \in WorkStates /\ exec'.state # "S_EXECUTE" /\ exec'.pc = exec.pc
        /\ ControlEdge({}, FALSE) /\ ~env_enter
    BY <1>0, <1>8 DEF MemReq, Go, WorkStates, ExecTypes, env_enter
  <2>2. Clock({}, FALSE)
    BY <1>8, <2>1 DEF Clock
  <2> QED
    BY <1>1, <2>1, <2>2
<1>9. CASE (\E ack, err \in BOOLEAN : MemRsp(ack, err)) /\ Around(FALSE)
  <2>0. PICK ack \in BOOLEAN, err \in BOOLEAN : MemRsp(ack, err)
    BY <1>9
  <2> DEFINE raised == IF err THEN {"lsu"} ELSE {}
  <2>1. /\ exec.state \in WorkStates /\ exec'.state # "S_EXECUTE" /\ exec'.pc = exec.pc
        /\ ControlEdge(raised, FALSE) /\ ~env_enter
    BY <1>0, <2>0 DEF MemRsp, Go, WorkStates, ExecTypes, env_enter
  <2>2. raised \in SUBSET SyncExc
    BY DEF SyncExc
  <2> HIDE DEF raised
  <2>3. Clock(raised, FALSE)
    BY <1>9, <2>1 DEF Clock
  <2> QED
    BY <1>1, <2>1, <2>2, <2>3
<1>10. CASE System /\ Around(FALSE)
  <2> DEFINE raised == IF ~Faulted /\ exec.kind = "ecall" THEN {"ecall"} ELSE {}
             ebreak == ~Faulted /\ exec.kind = "ebreak"
  <2>1. /\ exec.state = "S_SYSTEM" /\ exec.state \in WorkStates
        /\ exec'.state # "S_EXECUTE" /\ exec'.pc = exec.pc
        /\ ControlEdge(raised, ebreak) /\ ~env_enter
    BY <1>0, <1>10 DEF System, AfterSystem, Go, WorkStates, ExecTypes, env_enter
  <2>2. raised \in SUBSET SyncExc /\ ebreak \in BOOLEAN
    BY DEF SyncExc
  <2>3. ebreak => ~Faulted /\ exec.kind = "ebreak"
    OBVIOUS
  <2> HIDE DEF raised, ebreak
  <2>4. Clock(raised, ebreak)
    BY <1>10, <2>1, <2>3 DEF Clock
  <2> QED
    BY <1>1, <2>1, <2>2, <2>4
<1> QED
  BY <1>2, <1>3, <1>4, <1>5, <1>6, <1>7, <1>8, <1>9, <1>10 DEF Next

\* Where the execute engine comes from.
EngineSteps ==
  /\ ctrl'.csr_we => /\ exec.state = "S_SYSTEM" /\ exec'.state = "S_DISPATCH"
                     /\ exec.kind \in CsrKinds /\ ~Faulted
  /\ exec'.state = "S_SYSTEM" => exec.state = "S_EXECUTE"
  /\ exec'.state = "S_TRAP_EXIT" =>
       /\ exec.state = "S_SYSTEM" /\ exec.kind \in {"mret", "dret"} /\ ~Faulted
       /\ ControlEdge({}, FALSE)
  /\ exec'.state = "S_SLEEP" =>
       \/ exec.state = "S_SLEEP"
       \/ exec.state = "S_SYSTEM" /\ ~Faulted /\ ControlEdge({}, FALSE)
  /\ exec'.state = "S_TRAP_ENTER" => exec.state = "S_DISPATCH" /\ TrapsFirst
  /\ exec.state = "S_DISPATCH" /\ TrapsFirst => exec'.state = "S_TRAP_ENTER"
  /\ exec.state = "S_SYSTEM" /\ exec.kind = "ebreak" =>
       exec'.state = "S_DISPATCH" /\ ~ctrl'.csr_we
  /\ exec'.state = "S_EXECUTE" => Accepted
  /\ exec'.state # "S_EXECUTE" =>
       exec'.kind = exec.kind /\ exec'.bad = exec.bad /\ exec'.pc = exec.pc
  /\ \/ exec'.state \in {"S_EXECUTE", "S_RESTART"}
     \/ exec.state # "S_TRAP_ENTER" /\ exec'.pc2 = exec.pc2
     \/ exec.state = "S_EXECUTE" /\ exec'.pc2 = NextPc
     \/ exec.state = "S_BRANCH" /\ (exec'.pc2 % 2 = 0 \/ generics.c \/ "ialign" \in exc_buf')

LEMMA EngineStep == ASSUME CoreTypeOK, Next PROVE EngineSteps
<1> USE DEF Around, EngineSteps
<1>0. /\ exec \in ExecTypes /\ ctrl \in CtrlTypes
      /\ DOMAIN exec = {"state", "kind", "bad", "ci", "pc", "pc2"}
  BY DEF CoreTypeOK, ControlTypeOK, ExecTypes
<1>1. CASE Restart \/ Sleep
  <2>1. ~ctrl'.csr_we
    BY <1>0, <1>1, ControlSignals DEF Restart, Sleep
  <2> QED
    BY <1>0, <1>1, <2>1 DEF Restart, Sleep, Go, ExecTypes
<1>2. CASE Dispatch(F!valid, F!compressed, F!fault)
  <2>1. ~ctrl'.csr_we /\ exec.state = "S_DISPATCH"
    BY <1>0, <1>2, ControlSignals DEF Dispatch
  <2>2. CASE Accepts(F!valid)
    <3>1. PICK kind \in generics.kinds, bad \in BOOLEAN :
            exec' = [state |-> "S_EXECUTE", kind |-> kind, bad |-> bad,
                     ci |-> F!compressed, pc |-> exec.pc2, pc2 |-> exec.pc2]
      BY <1>2, <2>2 DEF Dispatch, Accepts
    <3>2. Accepted
      BY <2>1, <2>2, <3>1 DEF Accepted, Accepts, TrapsFirst, exc_fire
    <3>3. ~TrapsFirst
      BY <2>2 DEF Accepts
    <3> QED
      BY <2>1, <3>1, <3>2, <3>3
  <2>3. CASE ~Accepts(F!valid)
    BY <1>0, <1>2, <2>1, <2>3 DEF Dispatch, Go, ExecTypes
  <2> QED
    BY <2>2, <2>3
<1>3. CASE TrapEnter \/ TrapExit
  <2>1. ~ctrl'.csr_we
    <3>1. Control({})
      BY <1>3 DEF TrapEnter, TrapExit
    <3> QED
      BY <1>0, <3>1, ControlSignals
  <2> QED
    BY <1>0, <1>3, <2>1 DEF TrapEnter, TrapExit, ExecTypes
<1>4. CASE Execute
  <2>1. ~ctrl'.csr_we
    BY <1>0, <1>4, ControlSignals DEF Execute
  <2> QED
    BY <1>0, <1>4, <2>1 DEF Execute, AfterExecute, NextPc, ExecTypes
<1>5. CASE \E done \in BOOLEAN : AluWait(done)
  <2>1. PICK done \in BOOLEAN : AluWait(done)
    BY <1>5
  <2>2. ~ctrl'.csr_we
    BY <1>0, <2>1, ControlSignals DEF AluWait
  <2> QED
    BY <1>0, <2>1, <2>2 DEF AluWait, Go, ExecTypes
<1>6. CASE TakeBranch
  <2>1. PICK taken \in BOOLEAN, target \in Targets : Branch(taken, target)
    BY <1>6 DEF TakeBranch
  <2>2. ~ctrl'.csr_we
    BY <1>0, <2>1, ControlSignals DEF Branch
  <2>3. target % 2 \in {0, 1}
    BY NextParity, CoreAssumption DEF CoreAssumption
  <2>4. taken /\ target % 2 = 1 /\ ~generics.c => "ialign" \in exc_buf'
    <3> SUFFICES ASSUME taken, target % 2 = 1, ~generics.c PROVE "ialign" \in exc_buf'
      OBVIOUS
    <3>1. PICK raised \in SUBSET SyncExc, ebreak \in BOOLEAN :
            raised = {"ialign"} /\ ~ebreak /\ ControlEdge(raised, ebreak)
      <4>1. {"ialign"} \in SUBSET SyncExc
        BY DEF SyncExc, InstrExc
      <4> QED
        BY <2>1, <4>1 DEF Branch
    <3>2. ~env_enter
      BY <2>1 DEF Branch, env_enter
    <3> QED
      BY <3>1, <3>2, BuffersAfter
  <2> QED
    BY <1>0, <2>1, <2>2, <2>3, <2>4 DEF Branch, ExecTypes
<1>7. CASE MemReq
  <2>1. ~ctrl'.csr_we
    BY <1>0, <1>7, ControlSignals DEF MemReq
  <2> QED
    BY <1>0, <1>7, <2>1 DEF MemReq, Go, ExecTypes
<1>8. CASE \E ack, err \in BOOLEAN : MemRsp(ack, err)
  <2>1. PICK ack \in BOOLEAN, err \in BOOLEAN : MemRsp(ack, err)
    BY <1>8
  <2>2. ~ctrl'.csr_we
    <3> DEFINE signals ==
                 IF (ack \/ "lsu" \in exc_buf) /\ exec.kind = "load" THEN {"rf_wb_en"} ELSE {}
    <3>1. Control(signals) /\ "csr_we" \notin signals
      BY <2>1 DEF MemRsp
    <3> HIDE DEF signals
    <3> QED
      BY <1>0, <3>1, ControlSignals
  <2> QED
    BY <1>0, <2>1, <2>2 DEF MemRsp, Go, ExecTypes
<1>9. CASE System
  <2>1. ctrl'.csr_we => WritesCsr
    <3> DEFINE signals == {"rf_wb_en"} \union (IF WritesCsr THEN {"csr_we"} ELSE {})
    <3>1. Control(signals) /\ ("csr_we" \in signals => WritesCsr)
      BY <1>9 DEF System
    <3> HIDE DEF signals
    <3> QED
      BY <1>0, <3>1, ControlSignals
  <2>2. /\ exec.state = "S_SYSTEM" /\ exec'.state = AfterSystem
        /\ exec'.kind = exec.kind /\ exec'.bad = exec.bad
        /\ exec'.pc = exec.pc /\ exec'.pc2 = exec.pc2
    BY <1>0, <1>9 DEF System, Go, ExecTypes
  <2>3. /\ AfterSystem = "S_TRAP_EXIT" <=> ~Faulted /\ exec.kind \in {"mret", "dret"}
        /\ AfterSystem = "S_SLEEP" <=> ~Faulted /\ exec.kind = "wfi"
        /\ AfterSystem \in {"S_TRAP_EXIT", "S_SLEEP", "S_DISPATCH"}
    BY DEF AfterSystem
  <2>4. AfterSystem # "S_DISPATCH" => ControlEdge({}, FALSE)
    <3> DEFINE raised == IF ~Faulted /\ exec.kind = "ecall" THEN {"ecall"} ELSE {}
               ebreak == ~Faulted /\ exec.kind = "ebreak"
    <3>1. ControlEdge(raised, ebreak)
      BY <1>9 DEF System
    <3>2. AfterSystem # "S_DISPATCH" => raised = {} /\ ebreak = FALSE
      BY <2>3
    <3> HIDE DEF raised, ebreak
    <3> QED
      BY <3>1, <3>2
  <2> QED
    BY <2>1, <2>2, <2>3, <2>4 DEF WritesCsr, CsrKinds
<1> QED
  BY <1>1, <1>2, <1>3, <1>4, <1>5, <1>6, <1>7, <1>8, <1>9 DEF Next

\* An instruction stays as legal as it is.
LEMMA SameLegality ==
  ASSUME Calm, generics' = generics, exec'.kind = exec.kind, exec'.bad = exec.bad
  PROVE  illegal_cmd' <=> illegal_cmd
BY DEF Calm, illegal_cmd

\* At work the instruction in exec is disturbed by nothing.
LEMMA CalmAtWork ==
  ASSUME Flight, Quiet, exec.state \in WorkStates PROVE Calm
BY DEF Flight, Stays, Lands, Rests, Begins, Writes, Enters, Returns, Quiet, WorkStates,
       TrapEnter, TrapExit

LEMMA LegalityStep ==
  ASSUME CoreTypeOK, Quiet, TrapInv, NEW raised \in SUBSET SyncExc, NEW ebreak \in BOOLEAN,
         Clock(raised, ebreak), Flight, EngineSteps
  PROVE  WritesLegal' /\ LegalSystem'
<1> USE DEF TrapInv
<1>1. WritesLegal'
  <2> SUFFICES ASSUME ctrl'.csr_we
               PROVE  exec'.state = "S_DISPATCH" /\ exec'.kind \in CsrKinds /\ ~illegal_cmd'
    BY DEF WritesLegal
  <2>1. /\ exec.state = "S_SYSTEM" /\ exec'.state = "S_DISPATCH"
        /\ exec.kind \in CsrKinds /\ ~Faulted
        /\ exec'.kind = exec.kind /\ exec'.bad = exec.bad
    BY DEF EngineSteps
  <2>2. Calm
    BY <2>1, CalmAtWork DEF WorkStates
  <2> QED
    BY <2>1, <2>2, SameLegality DEF LegalSystem, Clock
<1>2. exec'.state = "S_SYSTEM" /\ ~Faulted' => ~illegal_cmd'
  <2> SUFFICES ASSUME exec'.state = "S_SYSTEM", ~Faulted' PROVE ~illegal_cmd'
    OBVIOUS
  <2>1. exec.state = "S_EXECUTE" /\ exec'.kind = exec.kind /\ exec'.bad = exec.bad
    BY DEF EngineSteps
  <2>2. Calm
    BY <2>1, CalmAtWork DEF WorkStates
  <2>3. ~instr_il
    <3>1. instr_il => "illegal" \in exc_buf'
      BY <2>1, BuffersAfter DEF Clock, env_enter
    <3> QED
      BY <3>1 DEF Faulted, InstrExc
  <2>4. ~illegal_cmd
    BY <2>1, <2>3 DEF instr_il
  <2> QED
    BY <2>1, <2>2, <2>4, SameLegality DEF Clock
<1>3. ASSUME exec'.state = "S_TRAP_EXIT"
      PROVE  /\ exec'.kind \in {"mret", "dret"} /\ ~illegal_cmd'
             /\ exc_buf' \intersect SyncExc = {}
  <2>1. /\ exec.state = "S_SYSTEM" /\ exec.kind \in {"mret", "dret"} /\ ~Faulted
        /\ ControlEdge({}, FALSE)
        /\ exec'.kind = exec.kind /\ exec'.bad = exec.bad
    BY <1>3 DEF EngineSteps
  <2>2. Calm
    BY <2>1, CalmAtWork DEF WorkStates
  <2>3. ~illegal_cmd'
    BY <2>1, <2>2, SameLegality DEF LegalSystem, Clock
  <2>4. exc_buf \intersect SyncExc = {} /\ ~instr_il /\ ~env_enter
    BY <2>1 DEF Quiet, Faulted, instr_il, env_enter
  <2>5. PICK r0 \in SUBSET SyncExc, e0 \in BOOLEAN : r0 = {} /\ ~e0 /\ ControlEdge(r0, e0)
    BY <2>1
  <2>6. \A e \in SyncExc : e \in exc_buf' => \/ e \in exc_buf \/ e \in r0
                                             \/ e = "illegal" /\ instr_il
                                             \/ e = "ebreak" /\ e0
    BY <2>4, <2>5, BuffersAfter
  <2> QED
    BY <2>1, <2>3, <2>4, <2>5, <2>6
<1> QED
  BY <1>1, <1>2, <1>3 DEF LegalSystem

LEMMA DebugStep ==
  ASSUME CoreTypeOK, CoreTypeOK', Quiet, TrapInv,
         NEW raised \in SUBSET SyncExc, NEW ebreak \in BOOLEAN,
         Clock(raised, ebreak), Flight, EngineSteps
  PROVE  Breaks' /\ Halts' /\ StepsOnce'
<1> USE DEF TrapInv
<1>0. ControlEdge(raised, ebreak)
  BY DEF Clock
<1>1. Breaks'
  <2> SUFFICES ASSUME "db_brkp" \in exc_buf'
               PROVE  exec'.state \in {"S_DISPATCH", "S_TRAP_ENTER"} /\ ~ctrl'.csr_we
    BY DEF Breaks
  <2>1. ~env_enter /\ ("db_brkp" \in exc_buf \/ ebreak)
    BY <1>0, BuffersAfter
  <2>2. CASE "db_brkp" \in exc_buf
    <3>1. exec.state = "S_DISPATCH" /\ TrapsFirst
      BY <2>1, <2>2 DEF Breaks, env_enter, TrapsFirst, exc_fire
    <3> QED
      BY <3>1 DEF EngineSteps
  <2>3. CASE ebreak
    <3>1. exec.state = "S_SYSTEM" /\ exec.kind = "ebreak"
      BY <2>3 DEF Clock
    <3> QED
      BY <3>1 DEF EngineSteps
  <2> QED
    BY <2>1, <2>2, <2>3
<1>2. Halts'
  <2> SUFFICES ASSUME "db_halt" \in irq_buf'
               PROVE  IF debug_run'
                      THEN exec'.state = "S_RESTART" /\ ~env_pend' /\ exc_buf' = {}
                      ELSE irq_dbg'
    BY DEF Halts
  <2>1. trig_halt \/ (env_pend /\ "db_halt" \in irq_buf)
    BY <1>0, BuffersAfter
  <2>2. ~debug_run /\ irq_dbg
    BY <2>1 DEF trig_halt, Halts
  <2>3. CASE debug_run'
    <3>1. env_enter
      BY <1>0, <2>2, <2>3, ControlEdgeFacts DEF CoreTypeOK
    <3>2. exc_buf' = {} /\ ~env_pend'
      BY <1>0, <3>1, BuffersAfter
    <3> QED
      BY <2>3, <3>1, <3>2 DEF Clock
  <2>4. CASE ~debug_run'
    BY <2>2, <2>4 DEF Clock, Debugger, CoreTypeOK
  <2> QED
    BY <2>3, <2>4 DEF CoreTypeOK, ControlTypeOK
<1>3. exec'.state = "S_EXECUTE" => "db_step" \notin exc_buf'
  <2> SUFFICES ASSUME exec'.state = "S_EXECUTE" PROVE "db_step" \notin exc_buf'
    OBVIOUS
  <2>1. Accepted
    BY DEF EngineSteps
  <2>2. ~env_enter /\ exec.state # "S_EXECUTE" /\ exc_buf = {}
    BY <2>1 DEF Accepted, env_enter
  <2> QED
    BY <1>0, <2>2, BuffersAfter
<1>4. ASSUME InFlight', exec'.state # "S_EXECUTE"
      PROVE  "db_step" \in exc_buf' <=> csr'.step /\ ~debug_run'
  <2>1. Stays
    BY <1>4 DEF Flight, Stays, Lands, Rests, Begins, Writes, Accepted, Enters, Returns
  <2>2. Calm /\ InFlight /\ ~env_enter
    BY <2>1 DEF Stays, Calm
  <2>3. "db_step" \in exc_buf' <=>
          \/ "db_step" \in exc_buf
          \/ generics.sdext /\ csr.step /\ ~debug_run /\ exec.state = "S_EXECUTE"
    BY <1>0, <2>2, BuffersAfter
  <2>4. CASE exec.state = "S_EXECUTE"
    BY <2>2, <2>3, <2>4 DEF StepsOnce, DebugOnly, Calm
  <2>5. CASE exec.state # "S_EXECUTE"
    BY <2>2, <2>3, <2>5 DEF StepsOnce, Calm
  <2> QED
    BY <2>4, <2>5
<1> QED
  BY <1>1, <1>2, <1>3, <1>4 DEF StepsOnce

\* What a CSR instruction changes of what module Hart sees.
LEMMA WrittenFields ==
  ASSUME CoreTypeOK, csr_written
  PROVE  /\ csr'.prv = csr.prv /\ csr'.mcause_irq = csr.mcause_irq
         /\ (csr'.mpp = csr.mpp \/ csr'.mpp \in Modes)
         /\ exec.kind \in CsrKinds
         /\ exec.kind \in {"csr_mstatus", "csr_mie", "csr_mepc"} =>
              csr'.step = csr.step /\ csr'.dprv = csr.dprv /\ csr'.dpc = csr.dpc
         /\ exec.kind \in {"csr_dcsr", "csr_dpc"} =>
              /\ csr'.mie = csr.mie /\ csr'.mpie = csr.mpie /\ csr'.mpp = csr.mpp
              /\ csr'.mepc = csr.mepc
         /\ generics.u => (csr'.dprv = csr.dprv \/ csr'.dprv \in Modes)
<1>0. csr \in CsrTypes
  BY DEF CoreTypeOK, ControlTypeOK
<1>1. CASE /\ exec.kind = "csr_mstatus"
           /\ \E a, b \in BOOLEAN, p \in Modes :
                csr' = [csr EXCEPT !.mie = a, !.mpie = b, !.mpp = p]
  BY <1>0, <1>1 DEF CsrTypes, CsrKinds
<1>2. CASE /\ exec.kind = "csr_mie"
           /\ \E i \in SUBSET generics.irqs : csr' = [csr EXCEPT !.ie = i]
  BY <1>0, <1>2 DEF CsrTypes, CsrKinds
<1>3. CASE /\ exec.kind = "csr_mepc"
           /\ \E t \in Targets : csr' = [csr EXCEPT !.mepc = Aligned(t)]
  BY <1>0, <1>3 DEF CsrTypes, CsrKinds
<1>4. CASE /\ exec.kind = "csr_dcsr"
           /\ \E s \in BOOLEAN, e \in SUBSET Modes, p \in IF generics.u THEN Modes ELSE {"U"} :
                csr' = [csr EXCEPT !.step = s, !.ebreak = e, !.dprv = p]
  <2>1. PICK s \in BOOLEAN, e \in SUBSET Modes, p \in IF generics.u THEN Modes ELSE {"U"} :
          csr' = [csr EXCEPT !.step = s, !.ebreak = e, !.dprv = p]
    BY <1>4
  <2>2. generics.u => p \in Modes
    OBVIOUS
  <2> QED
    BY <1>0, <1>4, <2>1, <2>2 DEF CsrTypes, CsrKinds
<1>5. CASE /\ exec.kind = "csr_dpc"
           /\ \E t \in Targets : csr' = [csr EXCEPT !.dpc = Aligned(t)]
  BY <1>0, <1>5 DEF CsrTypes, CsrKinds
<1> QED
  BY <1>1, <1>2, <1>3, <1>4, <1>5 DEF csr_written

\* What a trap and a return from it change of what module Hart sees.
LEMMA EnteredFields ==
  ASSUME CoreTypeOK, NEW raised \in SUBSET SyncExc, NEW ebreak \in BOOLEAN,
         ControlEdge(raised, ebreak), Enters
  PROVE  /\ debug_run => csr' = csr
         /\ ~debug_run /\ cause \in DebugCauses => csr' = TrapToDebug
         /\ ~debug_run /\ cause \notin DebugCauses => csr' = TrapToMachine
         /\ csr'.step = csr.step
         /\ csr'.prv = (IF debug_run THEN csr.prv ELSE "M")
         /\ csr'.mpp \in {csr.mpp, csr.prv}
         /\ env_enter
<1>1. env_enter /\ ~env_exit /\ ~ctrl.csr_we /\ csr \in CsrTypes
  BY DEF Enters, TrapEnter, env_enter, env_exit, CoreTypeOK, ControlTypeOK
<1>2. csr_write_access
  BY DEF ControlEdge
<1>3. /\ debug_run => csr' = csr
      /\ ~debug_run /\ cause \in DebugCauses => csr' = TrapToDebug
      /\ ~debug_run /\ cause \notin DebugCauses => csr' = TrapToMachine
  BY <1>1, <1>2 DEF csr_write_access
<1>4. /\ TrapToDebug.step = csr.step /\ TrapToDebug.prv = "M" /\ TrapToDebug.mpp = csr.mpp
      /\ TrapToMachine.step = csr.step /\ TrapToMachine.prv = "M"
      /\ TrapToMachine.mpp = csr.prv
  BY <1>1 DEF TrapToDebug, TrapToMachine, CsrTypes
<1> QED
  BY <1>1, <1>3, <1>4

LEMMA ReturnedFields ==
  ASSUME CoreTypeOK, NEW raised \in SUBSET SyncExc, NEW ebreak \in BOOLEAN,
         ControlEdge(raised, ebreak), Returns
  PROVE  /\ debug_run => csr' = ReturnFromDebug
         /\ ~debug_run => csr' = ReturnFromTrap
         /\ csr'.step = csr.step
         /\ ~generics.u /\ csr.mpp = "M" => csr'.prv = "M" /\ csr'.mpp = "M"
         /\ env_exit
<1>1. /\ env_exit /\ ~env_enter /\ ~ctrl.csr_we /\ csr \in CsrTypes
  BY DEF Returns, TrapExit, env_enter, env_exit, CoreTypeOK, ControlTypeOK
<1>2. csr_write_access
  BY DEF ControlEdge
<1>3. /\ debug_run => csr' = ReturnFromDebug
      /\ ~debug_run => csr' = ReturnFromTrap
  BY <1>1, <1>2 DEF csr_write_access
<1>4. /\ ReturnFromDebug.step = csr.step /\ ReturnFromTrap.step = csr.step
      /\ ~generics.u /\ csr.mpp = "M" =>
           /\ ReturnFromDebug.prv = "M" /\ ReturnFromDebug.mpp = "M"
           /\ ReturnFromTrap.prv = "M" /\ ReturnFromTrap.mpp = "M"
  BY <1>1 DEF ReturnFromDebug, ReturnFromTrap, CsrTypes
<1> QED
  BY <1>1, <1>3, <1>4

LEMMA ModesStep ==
  ASSUME CoreTypeOK, Quiet, TrapInv,
         NEW raised \in SUBSET SyncExc, NEW ebreak \in BOOLEAN,
         Clock(raised, ebreak), Flight
  PROVE  DebugOnly' /\ (CoreInv => MachineOnly')
<1> USE DEF TrapInv
<1>0. ControlEdge(raised, ebreak) /\ generics' = generics
  BY DEF Clock
<1>1. debug_run' => generics.sdext
  <2>1. CASE debug_run
    BY <2>1 DEF DebugOnly
  <2>2. CASE ~debug_run
    <3> SUFFICES ASSUME debug_run' PROVE generics.sdext
      OBVIOUS
    <3>1. cause \in DebugCauses
      BY <1>0, <2>2 DEF ControlEdge, debug_control, env_exit
    <3>2. cause \notin SyncExc /\ cause \notin SystemIrqs
      BY <3>1 DEF DebugCauses, SyncExc, InstrExc, SystemIrqs
    <3>3. \/ "db_halt" \in irq_buf \/ "db_trig" \in exc_buf
          \/ "db_brkp" \in exc_buf \/ "db_step" \in exc_buf
      BY <3>2, CauseFacts DEF CoreTypeOK, ControlTypeOK
    <3> QED
      BY <3>3 DEF DebugOnly
  <2> QED
    BY <2>1, <2>2
<1>2. csr'.step => generics.sdext
  <2>1. CASE Calm
    BY <2>1 DEF Calm, DebugOnly
  <2>2. CASE Writes
    <3>1. csr_written /\ ~illegal_cmd
      BY <2>2 DEF Writes, WritesLegal
    <3>2. CASE exec.kind \in {"csr_mstatus", "csr_mie", "csr_mepc"}
      BY <3>1, <3>2, WrittenFields DEF DebugOnly
    <3>3. CASE exec.kind \in {"csr_dcsr", "csr_dpc"}
      BY <3>1, <3>3 DEF illegal_cmd
    <3> QED
      BY <3>1, <3>2, <3>3, WrittenFields DEF CsrKinds
  <2>3. CASE Enters
    BY <1>0, <2>3, EnteredFields DEF DebugOnly
  <2>4. CASE Returns
    BY <1>0, <2>4, ReturnedFields DEF DebugOnly
  <2> QED
    BY <2>1, <2>2, <2>3, <2>4 DEF Flight, Stays, Lands, Rests, Begins
<1>3. \/ "db_trig" \in exc_buf' \/ "db_brkp" \in exc_buf' \/ "db_step" \in exc_buf'
      \/ "db_halt" \in irq_buf'
      => generics.sdext
  <2>1. /\ "db_halt" \in irq_buf' => trig_halt \/ "db_halt" \in irq_buf
        /\ "db_trig" \in exc_buf' => "db_trig" \in exc_buf \/ generics.sdext
        /\ "db_brkp" \in exc_buf' => "db_brkp" \in exc_buf \/ generics.sdext
        /\ "db_step" \in exc_buf' => "db_step" \in exc_buf \/ generics.sdext
    BY <1>0, BuffersAfter
  <2> QED
    BY <2>1 DEF trig_halt, DebugOnly
<1>4. ASSUME CoreInv, ~generics.u PROVE csr'.prv = "M" /\ csr'.mpp = "M"
  <2>0. csr.prv = "M" /\ csr.mpp = "M"
    BY <1>4 DEF MachineOnly
  <2>1. CASE Calm
    BY <2>0, <2>1 DEF Calm
  <2>2. CASE Writes
    BY <1>4, <2>0, <2>2, WrittenFields DEF Writes, Modes
  <2>3. CASE Enters
    BY <1>0, <2>0, <2>3, EnteredFields
  <2>4. CASE Returns
    BY <1>0, <1>4, <2>0, <2>4, ReturnedFields
  <2> QED
    BY <2>1, <2>2, <2>3, <2>4 DEF Flight, Stays, Lands, Rests, Begins
<1> QED
  BY <1>0, <1>1, <1>2, <1>3, <1>4 DEF DebugOnly, MachineOnly

LEMMA AddressStep ==
  ASSUME CoreInv, CoreInv', TrapInv, NEW raised \in SUBSET SyncExc, NEW ebreak \in BOOLEAN,
         Clock(raised, ebreak), EngineSteps
  PROVE  SavedAddresses'
<1> USE DEF TrapInv
<1>1. CoreTypeOK /\ Evenness /\ Evenness' /\ ControlEdge(raised, ebreak) /\ generics' = generics
  BY DEF CoreInv, Clock
<1> SUFFICES ASSUME ~generics.c
             PROVE  exec'.pc % 2 = 0 /\ ("ialign" \notin exc_buf' => exec'.pc2 % 2 = 0)
  BY <1>1 DEF SavedAddresses
<1>2. exec.pc % 2 = 0 /\ ("ialign" \notin exc_buf => exec.pc2 % 2 = 0)
  BY DEF SavedAddresses
<1>3. exec'.pc % 2 = 0
  BY <1>2 DEF EngineSteps, Accepted
<1>4. CASE exec'.state = "S_EXECUTE"
  <2>1. exec'.pc2 = exec.pc2 /\ exc_buf = {}
    BY <1>4 DEF EngineSteps, Accepted
  <2> QED
    BY <1>2, <1>3, <2>1
<1>5. CASE exec'.state = "S_RESTART"
  BY <1>1, <1>3, <1>5 DEF Evenness
<1>6. CASE exec.state # "S_TRAP_ENTER" /\ exec'.pc2 = exec.pc2
  <2>1. exc_buf \subseteq exc_buf'
    BY <1>1, <1>6, BuffersAfter DEF env_enter
  <2> QED
    BY <1>2, <1>3, <1>6, <2>1
<1>7. CASE exec.state = "S_EXECUTE" /\ exec'.pc2 = NextPc
  BY <1>1, <1>3, <1>7 DEF Evenness, Doomed
<1>8. CASE exec.state = "S_BRANCH" /\ (exec'.pc2 % 2 = 0 \/ generics.c \/ "ialign" \in exc_buf')
  BY <1>3, <1>8
<1> QED
  BY <1>4, <1>5, <1>6, <1>7, <1>8 DEF EngineSteps

LEMMA DueStep ==
  ASSUME CoreTypeOK, CoreTypeOK', Quiet, TrapInv, WritesLegal', Breaks',
         NEW raised \in SUBSET SyncExc, NEW ebreak \in BOOLEAN,
         Clock(raised, ebreak), Flight, EngineSteps
  PROVE  Due'
<1> USE DEF TrapInv
<1>0. ControlEdge(raised, ebreak) /\ History /\ generics' = generics
  BY DEF Clock
<1>1. exec'.state = "S_TRAP_ENTER" => env_pend'
  <2> SUFFICES ASSUME exec'.state = "S_TRAP_ENTER" PROVE env_pend'
    OBVIOUS
  <2>1. TrapsFirst /\ ~env_enter
    BY DEF EngineSteps, env_enter
  <2> QED
    BY <1>0, <2>1, BuffersAfter DEF TrapsFirst
<1>2. /\ Calm => (InterruptsOpen' <=> InterruptsOpen)
      /\ Stays => (open' <=> open)
      /\ Lands => (open' <=> InterruptsOpen)
      /\ Rests => (open' <=> open)
      /\ Writes /\ ~env_enter => (open' <=> InterruptsOpen)
  <2>1. InterruptsOpen \in BOOLEAN
    BY DEF InterruptsOpen, CoreTypeOK, ControlTypeOK, CsrTypes
  <2>2. ~env_enter => (open' <=> IF Happens THEN InterruptsOpen ELSE open)
    BY <1>0, <2>1 DEF History
  <2>3. Calm => (InterruptsOpen' <=> InterruptsOpen)
    BY DEF Calm, InterruptsOpen
  <2> QED
    BY <2>2, <2>3 DEF Happens, Stays, Lands, Rests, Writes, Calm
<1>3. exec'.state = "S_SLEEP" /\ InterruptsOpen' => open'
  <2> SUFFICES ASSUME exec'.state = "S_SLEEP", InterruptsOpen' PROVE open'
    OBVIOUS
  <2>1. CASE exec.state = "S_SLEEP"
    <3>1. Calm /\ (Stays \/ Lands \/ Rests)
      BY <2>1 DEF Flight, Stays, Lands, Rests, Begins, Accepted, Writes, Enters, Returns,
                  TrapEnter, TrapExit
    <3> QED
      BY <1>2, <2>1, <3>1 DEF Due
  <2>2. CASE exec.state = "S_SYSTEM" /\ ~Faulted /\ ControlEdge({}, FALSE)
    <3>1. exc_buf \intersect SyncExc = {} /\ ~instr_il /\ ~env_enter
      BY <2>2 DEF Quiet, Faulted, instr_il, env_enter
    <3>2. PICK r0 \in SUBSET SyncExc, e0 \in BOOLEAN : r0 = {} /\ ~e0 /\ ControlEdge(r0, e0)
      BY <2>2
    <3>3. \A e \in SyncExc : e \in exc_buf' => \/ e \in exc_buf \/ e \in r0
                                               \/ e = "illegal" /\ instr_il
                                               \/ e = "ebreak" /\ e0
      BY <3>1, <3>2, BuffersAfter
    <3>4. ~Aborted'
      BY <3>1, <3>2, <3>3 DEF Aborted, Breaks
    <3>5. ~InFlight'
      BY <3>4 DEF InFlight, WritesLegal, InstrStates
    <3>6. InFlight
      BY <2>2 DEF InFlight, InstrStates
    <3>7. Calm
      BY <2>2, CalmAtWork DEF WorkStates
    <3> QED
      BY <1>2, <3>5, <3>6, <3>7 DEF Lands
  <2> QED
    BY <2>1, <2>2 DEF EngineSteps
<1>4. ASSUME env_pend', exc_buf' = {}, "db_halt" \notin irq_buf'
      PROVE  IF InFlight' THEN InterruptsOpen' ELSE debug_run' \/ open'
  <2>1. ~env_enter
    BY <1>0, <1>4, BuffersAfter
  <2>2. /\ exc_buf = {} /\ (env_pend \/ irq_fire) /\ ~(env_pend /\ "db_halt" \in irq_buf)
        /\ ~trig_halt
    BY <1>0, <1>4, <2>1, BuffersAfter DEF exc_fire
  <2>3. CASE env_pend
    <3>1. IF InFlight THEN InterruptsOpen ELSE debug_run \/ open
      BY <2>2, <2>3 DEF Due
    <3>2. CASE Stays
      BY <1>2, <3>1, <3>2 DEF Stays
    <3>3. CASE Lands
      BY <1>2, <3>1, <3>3 DEF Lands
    <3>4. CASE Rests
      BY <1>2, <3>1, <3>4 DEF Rests, Calm
    <3>5. CASE Writes
      <4>1. InFlight /\ ~InFlight'
        BY <2>3, <3>5 DEF Writes, Accepted, InFlight
      <4> QED
        BY <1>2, <2>1, <3>1, <3>5, <4>1
    <3>6. ~Begins /\ ~Enters
      BY <2>1, <2>3 DEF Begins, Accepted, Enters, TrapEnter, env_enter
    <3>7. CASE Returns
      <4>1. exec.state = "S_TRAP_EXIT" /\ InFlight /\ ~InFlight'
        BY <3>7 DEF Returns, TrapExit, InFlight, InstrStates
      <4>2. open' <=> InterruptsOpen
        <5>1. InterruptsOpen \in BOOLEAN
          BY DEF InterruptsOpen, CoreTypeOK, ControlTypeOK, CsrTypes
        <5> QED
          BY <1>0, <2>1, <4>1, <5>1 DEF History, Happens
      <4> QED
        BY <3>1, <4>1, <4>2
    <3> QED
      BY <3>2, <3>3, <3>4, <3>5, <3>6, <3>7 DEF Flight
  <2>4. CASE ~env_pend /\ "db_halt" \in irq_buf
    <3>1. debug_run /\ exec.state = "S_RESTART"
      BY <2>2, <2>4 DEF Halts, trig_halt, DebugOnly
    <3>2. ~InFlight
      BY <2>2, <3>1 DEF InFlight, InstrStates, WritesLegal, Aborted
    <3>3. Rests
      BY <3>1, <3>2 DEF Flight, Stays, Lands, Begins, Accepted, Writes, Enters, Returns,
                        TrapEnter, TrapExit
    <3> QED
      BY <3>1, <3>3 DEF Rests, Calm
  <2>5. CASE system_irq_fire
    <3>1. exec.state \in {"S_EXECUTE", "S_SLEEP"} /\ InterruptsOpen
      BY <2>5 DEF system_irq_fire
    <3>2. Stays \/ Lands \/ Rests
      BY <3>1 DEF Flight, Begins, Accepted, Writes, Enters, Returns, TrapEnter, TrapExit
    <3>3. CASE exec.state = "S_EXECUTE"
      <4>1. InFlight
        BY <3>3 DEF InFlight, InstrStates
      <4> QED
        BY <1>2, <3>1, <3>2, <4>1 DEF Stays, Lands, Rests
    <3>4. CASE exec.state = "S_SLEEP"
      <4>1. ~InFlight /\ open
        BY <2>2, <3>1, <3>4 DEF InFlight, InstrStates, WritesLegal, Aborted, Due
      <4> QED
        BY <1>2, <3>2, <4>1 DEF Stays, Lands, Rests
    <3> QED
      BY <3>1, <3>3, <3>4
  <2> QED
    BY <2>2, <2>3, <2>4, <2>5 DEF irq_fire
<1> QED
  BY <1>1, <1>3, <1>4 DEF Due

LEMMA TrapInvInit == ASSUME Init PROVE TrapInv
<1> USE DEF Init, ControlInit, ctrl_bus_zero_c
<1>1. BootAddr % 2 = 0
  BY EntryPoints
<1>2. WritesLegal /\ LegalSystem /\ Breaks /\ Halts /\ StepsOnce /\ DebugOnly /\ MachineOnly
  BY DEF WritesLegal, LegalSystem, Breaks, Halts, StepsOnce, InFlight, InstrStates, Aborted,
         DebugOnly, MachineOnly
<1>3. SavedAddresses /\ Due
  BY <1>1 DEF SavedAddresses, Due
<1> QED
  BY <1>2, <1>3 DEF TrapInv

LEMMA TrapInvStep ==
  ASSUME CoreInv, CoreInv', Quiet, Quiet', TrapInv, [Next]_vars PROVE TrapInv'
<1>1. CASE Next
  <2>1. CoreTypeOK /\ CoreTypeOK'
    BY DEF CoreInv
  <2>2. EngineSteps /\ Flight
    BY <1>1, <2>1, EngineStep, FlightStep
  <2>3. PICK raised \in SUBSET SyncExc, ebreak \in BOOLEAN : Clock(raised, ebreak)
    BY <1>1, <2>1, FlightStep
  <2>4. WritesLegal' /\ LegalSystem'
    BY <2>1, <2>2, <2>3, LegalityStep
  <2>5. Breaks' /\ Halts' /\ StepsOnce'
    BY <2>1, <2>2, <2>3, DebugStep
  <2>6. DebugOnly' /\ MachineOnly'
    BY <2>1, <2>2, <2>3, ModesStep
  <2>7. SavedAddresses'
    BY <2>2, <2>3, AddressStep
  <2>8. Due'
    BY <2>1, <2>2, <2>3, <2>4, <2>5, DueStep
  <2> QED
    BY <2>4, <2>5, <2>6, <2>7, <2>8 DEF TrapInv
<1>2. CASE UNCHANGED vars
  BY <1>2 DEF vars, controlVars, TrapInv, WritesLegal, LegalSystem, Breaks, Halts, StepsOnce,
     InFlight, Aborted, Overtaken, DebugOnly, MachineOnly, SavedAddresses, Due, InterruptsOpen,
     illegal_cmd, Faulted
<1> QED
  BY <1>1, <1>2

LEMMA TrapInvariant == Spec => []TrapInv
<1>1. Init => CoreInv /\ Quiet /\ TrapInv
  BY CoreInvInit, QuietInit, TrapInvInit
<1>2. CoreInv /\ Quiet /\ TrapInv /\ [Next]_vars => CoreInv' /\ Quiet' /\ TrapInv'
  <2> SUFFICES ASSUME CoreInv, Quiet, TrapInv, [Next]_vars
               PROVE  CoreInv' /\ Quiet' /\ TrapInv'
    OBVIOUS
  <2>1. CoreInv'
    BY CoreInvStep
  <2>2. Quiet'
    BY QuietStep DEF CoreInv
  <2> QED
    BY <2>1, <2>2, TrapInvStep
<1> QED
  BY <1>1, <1>2, PTL DEF Spec

-------------------------------------------------------------------------------
(* The hart that a program sees.                                             *)

HartPc == IF InFlight THEN exec.pc ELSE exec.pc2
Stepped == "db_step" \in exc_buf /\ ~InFlight

LEMMA HartInit == ASSUME Init PROVE H!Init
<1>1. generics.u \in BOOLEAN
  BY GenericsTypes DEF Init
<1>2. ~InFlight
  BY DEF Init, ControlInit, ctrl_bus_zero_c, InFlight, InstrStates, Aborted
<1> QED
  BY <1>1, <1>2 DEF Init, ControlInit, H!Init

LEMMA HartPcTypes ==
  ASSUME CoreTypeOK PROVE HartPc \in Pcs
BY DEF HartPc, CoreTypeOK, ControlTypeOK, ExecTypes

\* Where nothing happens to the instruction in exec.
LEMMA HartStutters ==
  ASSUME CoreTypeOK, CoreTypeOK', TrapInv, NEW raised \in SUBSET SyncExc, NEW ebreak \in BOOLEAN,
         Clock(raised, ebreak), Stays \/ Rests \/ Begins
  PROVE  UNCHANGED H!vars
<1>1. csr' = csr /\ (debug_run' <=> debug_run) /\ generics' = generics /\ ~env_enter
  BY DEF Stays, Rests, Begins, Calm, Clock
<1>2. debug_run' = debug_run
  BY <1>1 DEF CoreTypeOK, ControlTypeOK
<1>3. HartPc' = HartPc
  BY DEF HartPc, Stays, Rests, Begins, Accepted
<1>4. open' = open
  <2>1. ~Happens
    BY DEF Happens, Stays, Rests, Begins, Calm
  <2> QED
    BY <1>1, <2>1 DEF Clock, History
<1>5. Stepped' = Stepped
  <2>1. CASE Stays
    BY <2>1 DEF Stays, Stepped
  <2>2. CASE Rests
    <3>1. exec.state # "S_EXECUTE"
      BY <2>2 DEF Rests, InFlight, InstrStates
    <3>2. "db_step" \in exc_buf' <=> "db_step" \in exc_buf
      BY <1>1, <3>1, BuffersAfter DEF Clock
    <3> QED
      BY <2>2, <3>2 DEF Rests, Stepped
  <2>3. CASE Begins
    BY <2>3 DEF Begins, Accepted, Stepped
  <2> QED
    BY <2>1, <2>2, <2>3
<1> QED
  BY <1>1, <1>2, <1>3, <1>4, <1>5 DEF H!vars, HartPc, Stepped

\* What every instruction has in common.
LEMMA HartInstruction ==
  ASSUME CoreTypeOK, CoreTypeOK', Quiet, TrapInv,
         NEW raised \in SUBSET SyncExc, NEW ebreak \in BOOLEAN,
         Clock(raised, ebreak), Lands \/ Writes \/ Returns
  PROVE  H!Instruction
<1>1. InFlight /\ ~env_enter
  BY DEF Lands, Writes, Returns, Calm, InFlight, InstrStates, TrapExit, env_enter
<1>2. open' = InterruptsOpen
  <2>1. Happens
    BY <1>1 DEF Happens, Lands, Writes, Returns
  <2> QED
    BY <1>1, <2>1 DEF Clock, History
<1>3. Stepped' <=> csr.step /\ ~debug_run
  <2>1. "db_step" \in exc_buf' <=>
          \/ "db_step" \in exc_buf
          \/ generics.sdext /\ csr.step /\ ~debug_run /\ exec.state = "S_EXECUTE"
    BY <1>1, BuffersAfter DEF Clock
  <2>2. "db_step" \in exc_buf' <=> csr.step /\ ~debug_run
    BY <1>1, <2>1 DEF TrapInv, StepsOnce, DebugOnly
  <2>3. CASE ~InFlight'
    BY <2>2, <2>3 DEF Stepped
  <2>4. CASE InFlight'
    <3>1. exc_buf = {} /\ exec.state = "S_DISPATCH"
      BY <2>4 DEF Lands, Writes, Returns, Accepted
    <3> QED
      BY <1>1, <2>4, <3>1 DEF Stepped, TrapInv, StepsOnce
  <2> QED
    BY <2>3, <2>4
<1>4. InterruptsOpen = H!Enabled
  BY DEF InterruptsOpen, H!Enabled
<1> QED
  BY <1>1, <1>2, <1>3, <1>4 DEF H!Instruction, Stepped

\* The mapped state, for the provers to see its fields.
Mstatus == [mie |-> csr.mie, mpie |-> csr.mpie, mpp |-> csr.mpp]
Dcsr    == [step |-> csr.step, prv |-> IF generics.u THEN csr.dprv ELSE "M"]

LEMMA HartComputes ==
  ASSUME CoreTypeOK, CoreTypeOK', Quiet, TrapInv,
         NEW raised \in SUBSET SyncExc, NEW ebreak \in BOOLEAN, Clock(raised, ebreak), Lands
  PROVE  H!Compute
<1>1. H!Instruction
  BY HartInstruction
<1>2. csr' = csr /\ generics' = generics /\ (debug_run' <=> debug_run)
  BY DEF Lands, Calm, Clock
<1>3. debug_run' = debug_run
  BY <1>2 DEF CoreTypeOK, ControlTypeOK
<1>4. HartPc' \in Pcs
  BY DEF HartPc, CoreTypeOK, ControlTypeOK, ExecTypes
<1> QED
  BY <1>1, <1>2, <1>3, <1>4 DEF H!Compute, H!machine, H!debugger, HartPc

LEMMA HartWrites ==
  ASSUME CoreTypeOK, CoreTypeOK', Quiet, TrapInv,
         NEW raised \in SUBSET SyncExc, NEW ebreak \in BOOLEAN, Clock(raised, ebreak), Writes
  PROVE  H!WriteMachine \/ H!WriteDebug
<1>1. H!Instruction
  BY HartInstruction
<1>2. csr_written /\ generics' = generics /\ (debug_run' <=> debug_run) /\ ~illegal_cmd
  BY DEF Writes, Clock, TrapInv, WritesLegal
<1>3. debug_run' = debug_run
  BY <1>2 DEF CoreTypeOK, ControlTypeOK
<1>4. HartPc' \in Pcs
  BY DEF HartPc, CoreTypeOK, ControlTypeOK, ExecTypes
<1>5. csr \in CsrTypes /\ csr' \in CsrTypes
  BY DEF CoreTypeOK, ControlTypeOK
<1>6. PrivModes = {"U", "M"} /\ H!Modes = Modes
  BY DEF PrivModes, H!Modes, Modes
<1>7. CASE exec.kind \in {"csr_mstatus", "csr_mie", "csr_mepc"}
  <2>1. csr.prv = "M"
    BY <1>2, <1>5, <1>6, <1>7 DEF illegal_cmd, CsrTypes
  <2>2. csr'.mpp \in Modes
    <3>1. csr'.mpp = csr.mpp \/ csr'.mpp \in Modes
      BY <1>2, WrittenFields
    <3> QED
      BY <1>5, <1>6, <3>1 DEF TrapInv, MachineOnly, Modes, CsrTypes
  <2>3. Mstatus' \in [mie : BOOLEAN, mpie : BOOLEAN, mpp : Modes]
    BY <1>5, <2>2 DEF Mstatus, CsrTypes
  <2>4. csr'.mepc \in Pcs
    BY <1>5 DEF CsrTypes
  <2>5. /\ csr'.prv = csr.prv /\ csr'.mcause_irq = csr.mcause_irq
        /\ csr'.step = csr.step /\ csr'.dprv = csr.dprv /\ csr'.dpc = csr.dpc
    BY <1>2, <1>7, WrittenFields
  <2> QED
    BY <1>1, <1>2, <1>3, <1>4, <1>6, <2>1, <2>3, <2>4, <2>5
    DEF H!WriteMachine, H!debugger, HartPc, Mstatus
<1>8. CASE exec.kind \in {"csr_dcsr", "csr_dpc"}
  <2>1. debug_run
    BY <1>2, <1>8 DEF illegal_cmd
  <2>2. Dcsr' \in [step : BOOLEAN, prv : Modes]
    BY <1>2, <1>5, <1>6 DEF Dcsr, Modes, CsrTypes
  <2>3. csr'.dpc \in Pcs
    BY <1>5 DEF CsrTypes
  <2>4. /\ csr'.prv = csr.prv /\ csr'.mcause_irq = csr.mcause_irq
        /\ csr'.mie = csr.mie /\ csr'.mpie = csr.mpie /\ csr'.mpp = csr.mpp
        /\ csr'.mepc = csr.mepc
    BY <1>2, <1>8, WrittenFields
  <2> QED
    BY <1>1, <1>2, <1>3, <1>4, <1>6, <2>1, <2>2, <2>3, <2>4
    DEF H!WriteDebug, H!machine, HartPc, Dcsr
<1> QED
  BY <1>2, <1>7, <1>8, WrittenFields DEF CsrKinds

LEMMA HartReturns ==
  ASSUME CoreTypeOK, CoreTypeOK', Quiet, TrapInv,
         NEW raised \in SUBSET SyncExc, NEW ebreak \in BOOLEAN, Clock(raised, ebreak), Returns
  PROVE  H!Mret \/ H!Dret
<1>1. H!Instruction
  BY HartInstruction
<1>2. /\ exec.state = "S_TRAP_EXIT" /\ ~InFlight' /\ generics' = generics
      /\ exec'.pc2 = (IF debug_run THEN csr.dpc ELSE csr.mepc)
      /\ csr \in CsrTypes
  BY DEF Returns, TrapExit, Clock, CoreTypeOK, ControlTypeOK, ExecTypes
<1>3. HartPc' = IF debug_run THEN csr.dpc ELSE csr.mepc
  BY <1>2 DEF HartPc
<1>4. exec.kind \in {"mret", "dret"} /\ ~illegal_cmd
  BY <1>2 DEF TrapInv, LegalSystem
<1>5. /\ debug_run => csr' = ReturnFromDebug
      /\ ~debug_run => csr' = ReturnFromTrap
  BY ReturnedFields DEF Clock
<1>6. ~debug_run'
  BY <1>2 DEF Clock, ControlEdge, debug_control, env_enter, env_exit
<1>7. CASE debug_run
  <2>1. /\ csr'.prv = (IF generics.u THEN csr.dprv ELSE "M")
        /\ csr'.mie = csr.mie /\ csr'.mpie = csr.mpie /\ csr'.mpp = csr.mpp
        /\ csr'.mepc = csr.mepc /\ csr'.mcause_irq = csr.mcause_irq
        /\ csr'.step = csr.step /\ csr'.dprv = csr.dprv /\ csr'.dpc = csr.dpc
    BY <1>2, <1>5, <1>7 DEF ReturnFromDebug, CsrTypes
  <2>2. debug_run' = FALSE
    BY <1>6 DEF CoreTypeOK, ControlTypeOK
  <2> QED
    BY <1>1, <1>2, <1>3, <1>7, <2>1, <2>2 DEF H!Dret, H!machine, H!debugger, HartPc
<1>8. CASE ~debug_run
  <2>1. csr.prv = "M"
    <3>1. exec.kind = "mret" /\ csr.prv # "U"
      BY <1>4, <1>8 DEF illegal_cmd
    <3> QED
      BY <1>2, <3>1 DEF CsrTypes, PrivModes
  <2>2. /\ csr'.prv = csr.mpp /\ csr'.mpp = (IF generics.u THEN "U" ELSE "M")
        /\ csr'.mie = csr.mpie /\ csr'.mpie = TRUE
        /\ csr'.mepc = csr.mepc /\ csr'.mcause_irq = csr.mcause_irq
        /\ csr'.step = csr.step /\ csr'.dprv = csr.dprv /\ csr'.dpc = csr.dpc
    BY <1>2, <1>5, <1>8 DEF ReturnFromTrap, CsrTypes
  <2>3. debug_run' = debug_run
    BY <1>6, <1>8 DEF CoreTypeOK, ControlTypeOK
  <2> QED
    BY <1>1, <1>2, <1>3, <1>8, <2>1, <2>2, <2>3 DEF H!Mret, H!debugger, HartPc
<1> QED
  BY <1>7, <1>8

\* The address that a trap saves is that of the first instruction that has not happened.
LEMMA SavedPc ==
  ASSUME CoreTypeOK, TrapInv, Enters
  PROVE  /\ cause \in SyncExc => /\ InFlight /\ HartPc = exec.pc /\ trap_pc = exec.pc
         /\ cause \in DebugCauses \union SystemIrqs =>
              trap_pc = HartPc /\ Aligned(trap_pc) = HartPc
         /\ cause \in SyncExc => Aligned(trap_pc) = HartPc
<1>1. /\ exec.state = "S_TRAP_ENTER" /\ ~ctrl.csr_we
      /\ exec.pc \in Pcs /\ exec.pc2 \in Pcs
  BY DEF Enters, TrapEnter, CoreTypeOK, ControlTypeOK, ExecTypes
<1>2. InFlight <=> Aborted
  BY <1>1 DEF InFlight, InstrStates
<1>3. ASSUME NEW pc \in Pcs, generics.c \/ pc % 2 = 0 PROVE Aligned(pc) = pc
  <2>1. pc \in Nat
    BY CoreAssumption DEF Pcs, CoreAssumption
  <2> QED
    BY <1>3, <2>1 DEF Aligned
<1>4. /\ generics.c \/ exec.pc % 2 = 0
      /\ generics.c \/ "ialign" \in exc_buf \/ exec.pc2 % 2 = 0
  BY DEF TrapInv, SavedAddresses
<1>5. \/ cause \in SyncExc /\ cause \in exc_buf
      \/ /\ exc_buf \intersect SyncExc = {}
         /\ \/ cause = "db_halt" /\ "db_halt" \in irq_buf
            \/ cause = "db_trig" /\ "db_trig" \in exc_buf
            \/ /\ cause = "db_brkp" /\ "db_brkp" \in exc_buf /\ ~Overtaken
            \/ /\ cause = "db_step" /\ "db_step" \in exc_buf
               /\ "db_brkp" \notin exc_buf
      \/ cause \in SystemIrqs /\ exc_buf = {} /\ "db_halt" \notin irq_buf
  BY CauseFacts DEF CoreTypeOK, ControlTypeOK
<1>6. CASE cause \in SyncExc /\ cause \in exc_buf
  <2>1. Aborted
    BY <1>6 DEF Aborted
  <2>2. cause \notin AsyncCauses /\ cause \notin DebugCauses /\ cause \notin SystemIrqs
    BY <1>6 DEF SyncExc, InstrExc, AsyncCauses, SystemIrqs, DebugCauses
  <2> QED
    BY <1>1, <1>2, <1>3, <1>4, <2>1, <2>2 DEF trap_pc, HartPc
<1>7. CASE exc_buf \intersect SyncExc = {} /\ cause = "db_brkp" /\ "db_brkp" \in exc_buf
           /\ ~Overtaken
  <2>1. Aborted /\ cause \notin AsyncCauses /\ cause \notin SyncExc
    BY <1>7 DEF Aborted, AsyncCauses, SystemIrqs, SyncExc, InstrExc
  <2> QED
    BY <1>1, <1>2, <1>3, <1>4, <2>1 DEF trap_pc, HartPc
<1>8. CASE /\ exc_buf \intersect SyncExc = {}
           /\ \/ cause = "db_halt" /\ "db_halt" \in irq_buf
              \/ cause = "db_trig" /\ "db_trig" \in exc_buf
              \/ cause = "db_step" /\ "db_brkp" \notin exc_buf
              \/ cause \in SystemIrqs /\ exc_buf = {}
  <2>1. ~Aborted
    BY <1>8 DEF Aborted, Overtaken
  <2>2. cause \in AsyncCauses /\ cause \notin SyncExc
    BY <1>8 DEF AsyncCauses, SystemIrqs, SyncExc, InstrExc
  <2>3. "ialign" \notin exc_buf
    BY <1>8 DEF SyncExc, InstrExc
  <2> QED
    BY <1>1, <1>2, <1>3, <1>4, <2>1, <2>2, <2>3 DEF trap_pc, HartPc
<1> QED
  BY <1>5, <1>6, <1>7, <1>8

LEMMA HartTraps ==
  ASSUME CoreTypeOK, CoreTypeOK', Quiet, TrapInv,
         NEW raised \in SUBSET SyncExc, NEW ebreak \in BOOLEAN, Clock(raised, ebreak), Enters
  PROVE  H!DebugTrap \/ H!Halt \/ H!Exception \/ H!Interrupt
<1>1. /\ exec.state = "S_TRAP_ENTER" /\ ~InFlight' /\ generics' = generics
      /\ exec'.pc2 = Vector /\ csr \in CsrTypes /\ env_enter /\ ~env_exit
  BY DEF Enters, TrapEnter, Clock, CoreTypeOK, ControlTypeOK, ExecTypes, env_enter, env_exit
<1>2. HartPc' = Vector
  BY <1>1 DEF HartPc
<1>3. H!Trap
  <2>1. open' = FALSE
    BY <1>1 DEF Clock, History
  <2>2. exc_buf' = {}
    BY <1>1, BuffersAfter DEF Clock
  <2>3. Stepped' = FALSE
    BY <2>2 DEF Stepped
  <2> QED
    BY <2>1, <2>3 DEF H!Trap, Stepped
<1>4. /\ debug_run => csr' = csr
      /\ ~debug_run /\ cause \in DebugCauses => csr' = TrapToDebug
      /\ ~debug_run /\ cause \notin DebugCauses => csr' = TrapToMachine
  BY EnteredFields DEF Clock
<1>5. debug_run' <=> debug_run \/ cause \in DebugCauses
  BY <1>1 DEF Clock, ControlEdge, debug_control, CoreTypeOK, ControlTypeOK
<1>6. \/ cause \in SyncExc /\ cause \in exc_buf
      \/ /\ exc_buf \intersect SyncExc = {}
         /\ \/ cause = "db_halt" /\ "db_halt" \in irq_buf
            \/ cause = "db_trig" /\ "db_trig" \in exc_buf
            \/ /\ cause = "db_brkp" /\ "db_brkp" \in exc_buf /\ ~Overtaken
            \/ /\ cause = "db_step" /\ "db_step" \in exc_buf
               /\ "db_brkp" \notin exc_buf
      \/ cause \in SystemIrqs /\ exc_buf = {} /\ "db_halt" \notin irq_buf
  BY CauseFacts DEF CoreTypeOK, ControlTypeOK
<1>7. cause \in SyncExc \union DebugCauses \union SystemIrqs
  BY <1>6 DEF DebugCauses
<1>8. DebugCauses \intersect (SyncExc \union SystemIrqs) = {}
  BY DEF DebugCauses, SyncExc, InstrExc, SystemIrqs
<1>9. cause \in DebugCauses \/ debug_run => generics.sdext
  BY <1>6, <1>8 DEF TrapInv, DebugOnly
<1>10. CASE debug_run
  <2>1. Vector \in {DebugPark, DebugExc}
    BY <1>9, <1>10 DEF Vector
  <2>2. csr' = csr /\ debug_run' = debug_run
    BY <1>4, <1>5, <1>10 DEF CoreTypeOK, ControlTypeOK
  <2> QED
    BY <1>1, <1>2, <1>3, <1>10, <2>1, <2>2 DEF H!DebugTrap, H!machine, H!debugger, HartPc
<1>11. CASE ~debug_run /\ cause \in DebugCauses
  <2>1. Vector = DebugPark
    BY <1>9, <1>11 DEF Vector
  <2>2. csr' = TrapToDebug /\ debug_run' = TRUE
    BY <1>4, <1>5, <1>11 DEF CoreTypeOK, ControlTypeOK
  <2>3. Aligned(trap_pc) = HartPc
    BY <1>11, SavedPc
  <2>4. /\ csr'.prv = "M" /\ csr'.dpc = HartPc /\ csr'.step = csr.step
        /\ csr'.dprv = (IF generics.u THEN csr.prv ELSE "U")
        /\ csr'.mie = csr.mie /\ csr'.mpie = csr.mpie /\ csr'.mpp = csr.mpp
        /\ csr'.mepc = csr.mepc /\ csr'.mcause_irq = csr.mcause_irq
    BY <1>1, <2>2, <2>3 DEF TrapToDebug, CsrTypes
  <2>5. Dcsr' = [Dcsr EXCEPT !.prv = csr.prv]
    BY <1>1, <2>4 DEF Dcsr, TrapInv, MachineOnly
  <2> QED
    BY <1>1, <1>2, <1>3, <1>11, <2>1, <2>2, <2>4, <2>5 DEF H!Halt, H!machine, HartPc, Dcsr
<1>12. CASE ~debug_run /\ cause \notin DebugCauses
  <2>1. Vector = Mtvec
    BY <1>12 DEF Vector
  <2>2. csr' = TrapToMachine /\ debug_run' = debug_run
    BY <1>4, <1>5, <1>12 DEF CoreTypeOK, ControlTypeOK
  <2>3. Aligned(trap_pc) = HartPc
    BY <1>7, <1>12, SavedPc
  <2>4. /\ csr'.prv = "M" /\ csr'.mepc = HartPc
        /\ csr'.mie = FALSE /\ csr'.mpie = csr.mie /\ csr'.mpp = csr.prv
        /\ csr'.step = csr.step /\ csr'.dprv = csr.dprv /\ csr'.dpc = csr.dpc
    BY <1>1, <2>2, <2>3 DEF TrapToMachine, CsrTypes
  <2>5. csr'.mcause_irq = (cause \in SystemIrqs)
    BY <1>1, <2>2, Zenon DEF TrapToMachine, CsrTypes
  <2>6. H!ToMachine
    BY <1>1, <1>2, <1>3, <1>12, <2>1, <2>2, <2>4 DEF H!ToMachine, H!debugger, HartPc
  <2>7. CASE cause \in SyncExc
    <3>1. cause \notin SystemIrqs
      BY <2>7 DEF SyncExc, InstrExc, SystemIrqs
    <3>2. csr'.mcause_irq = FALSE
      <4>1. (cause \in SystemIrqs) = FALSE
        BY <3>1
      <4> QED
        BY <2>5, <4>1
    <3>3. ~Stepped
      BY <2>7, SavedPc DEF Stepped
    <3> QED
      BY <2>6, <3>2, <3>3 DEF H!Exception, Stepped
  <2>8. CASE cause \in SystemIrqs
    <3>1. csr'.mcause_irq = TRUE
      BY <2>5, <2>8
    <3>2. exc_buf = {} /\ "db_halt" \notin irq_buf
      BY <1>6, <2>8 DEF SystemIrqs, SyncExc, InstrExc
    <3>3. ~InFlight /\ env_pend
      BY <1>1, <3>2 DEF InFlight, InstrStates, Aborted, Enters, TrapInv, Due
    <3>4. open
      BY <1>12, <3>2, <3>3 DEF TrapInv, Due
    <3>5. ~Stepped
      BY <3>2 DEF Stepped
    <3> QED
      BY <2>6, <3>1, <3>4, <3>5 DEF H!Interrupt, Stepped
  <2> QED
    BY <1>7, <1>12, <2>7, <2>8
<1> QED
  BY <1>10, <1>11, <1>12

\* The hart is one that takes its traps precisely (module Hart).
THEOREM ControlImplementsHart == Spec => TrapsArePrecise
<1>1. Init => H!Init
  BY HartInit
<1>2. ASSUME CoreInv, CoreInv', Quiet, TrapInv, [Next]_vars
      PROVE  [H!Next]_(H!vars)
  <2>0. CoreTypeOK /\ CoreTypeOK'
    BY <1>2 DEF CoreInv
  <2>1. CASE Next
    <3>1. Flight
      BY <1>2, <2>0, <2>1, FlightStep
    <3>2. PICK raised \in SUBSET SyncExc, ebreak \in BOOLEAN : Clock(raised, ebreak)
      BY <1>2, <2>0, <2>1, FlightStep
    <3>3. generics' = generics
      BY <3>2 DEF Clock
    <3>4. CASE Stays \/ Rests \/ Begins
      BY <1>2, <2>0, <3>2, <3>4, HartStutters
    <3>5. CASE Lands
      BY <1>2, <2>0, <3>2, <3>3, <3>5, HartComputes DEF H!Next
    <3>6. CASE Writes
      BY <1>2, <2>0, <3>2, <3>3, <3>6, HartWrites DEF H!Next
    <3>7. CASE Returns
      BY <1>2, <2>0, <3>2, <3>3, <3>7, HartReturns DEF H!Next
    <3>8. CASE Enters
      BY <1>2, <2>0, <3>2, <3>3, <3>8, HartTraps DEF H!Next
    <3> QED
      BY <3>1, <3>4, <3>5, <3>6, <3>7, <3>8 DEF Flight
  <2>2. CASE UNCHANGED vars
    BY <2>2 DEF vars, controlVars, H!vars, InFlight, Aborted, Overtaken
  <2> QED
    BY <1>2, <2>1, <2>2
<1>3. Init => Quiet
  BY QuietInit
<1>4. CoreTypeOK /\ Quiet /\ [Next]_vars => Quiet'
  BY QuietStep
<1> QED
  BY <1>1, <1>2, <1>3, <1>4, CoreTypeCorrect, CoreInvariant, TrapInvariant, PTL
  DEF Spec, TrapsArePrecise, H!Spec

-------------------------------------------------------------------------------
(* Going on: the clocks that are left until the next instruction begins.     *)

One(b) == IF b THEN 1 ELSE 0
Odd    == exec.pc2 % 2

\* The fetch engine waits for room: in this clock, and still when the issue engine has
\* taken its part.
Stuck   == fetch.state = "S_REQUEST" /\ ~F!free
Clogged == fetch.state = "S_REQUEST" /\ \E i \in {0, 1} : Len(Left(i, TRUE)) >= 2

\* The words that are missing to issue the instruction at pc2, and the clocks until it
\* begins, those of the bus apart.
Missing == IF F!valid THEN 0 ELSE IF F!avail(F!first) THEN 1 ELSE 1 + Odd
Wait    == IF fetch.reset THEN 3 + Odd ELSE Missing + One(fetch.state # "S_PENDING")

\* What follows a trap: in debug mode the next instruction; for a cause of the debugger
\* the trap that a halt request leaves pending; otherwise both of these.
Level ==
  IF debug_run THEN 5
  ELSE IF exc_buf \intersect SyncExc = {} /\ (exc_buf # {} \/ "db_halt" \in irq_buf) THEN 7
  ELSE 11
Coming == TrapsFirst \/ "db_halt" \in irq_buf

\* Clocks until the execute engine leaves S_ALU_WAIT.
AluLeft == IF Faulted THEN 1 ELSE 2^MonitorBits + 2 - monitor_cnt

AtRestart ==
  IF Coming THEN Level + One(fetch.state # "S_PENDING")
  ELSE IF debug_run THEN 3 + One(fetch.state = "S_REQUEST") + Odd
  ELSE 9 + One(fetch.state = "S_REQUEST") + 2 * Odd
AtDispatch ==
  IF TrapsFirst THEN Level + One(Clogged)
  ELSE IF hwtrig THEN 9
  ELSE Wait + (IF debug_run THEN 0 ELSE 6 + Odd)
AtTrapEnter == Level - 1 + One(Stuck \/ fetch.state = "S_RESTART")

\* At most so many clocks.
Remaining ==
  CASE exec.state \in {"S_EXECUTE", "S_SLEEP"}                    -> 0
    [] exec.state = "S_ALU_WAIT"                                  -> 11 + AluLeft + One(Clogged)
    [] exec.state = "S_SYSTEM"                                    -> 14
    [] exec.state \in {"S_TRAP_EXIT", "S_BRANCH", "S_MEM_REQ"}    -> 13
    [] exec.state = "S_MEM_RSP"                                   -> 12
    [] exec.state = "S_RESTART"                                   -> AtRestart
    [] exec.state = "S_DISPATCH"                                  -> AtDispatch
    [] exec.state = "S_TRAP_ENTER"                                -> AtTrapEnter

\* The prefetch buffer takes what is fetched, and the monitor watches the co-processor.
Room ==
  /\ \A i \in {0, 1} : Len(ipb[i]) <= IF fetch.state = "S_PENDING" THEN 1 ELSE 2
  /\ fetch.state = "S_REQUEST" => ~fetch.reset
  /\ exec.state = "S_EXECUTE" =>
       \E i \in {0, 1} : Len(ipb[i]) <= IF fetch.state = "S_PENDING" THEN 0 ELSE 1
  /\ exec.state = "S_ALU_WAIT" /\ ~Faulted => monitor_cnt <= 2^MonitorBits
  /\ ctrl.lsu_req => exec.state = "S_MEM_RSP"

\* The inductive invariant.
IdleInv == Room /\ idle + Remaining <= MaxIdle

LEMMA OneIs == \A b \in BOOLEAN : One(b) \in {0, 1} /\ (b => One(b) = 1) /\ (~b => One(b) = 0)
BY DEF One

LEMMA RemainingIs ==
  /\ exec.state \in {"S_EXECUTE", "S_SLEEP"} => Remaining = 0
  /\ exec.state = "S_ALU_WAIT" => Remaining = 11 + AluLeft + One(Clogged)
  /\ exec.state = "S_SYSTEM" => Remaining = 14
  /\ exec.state \in {"S_TRAP_EXIT", "S_BRANCH", "S_MEM_REQ"} => Remaining = 13
  /\ exec.state = "S_MEM_RSP" => Remaining = 12
  /\ exec.state = "S_RESTART" => Remaining = AtRestart
  /\ exec.state = "S_DISPATCH" => Remaining = AtDispatch
  /\ exec.state = "S_TRAP_ENTER" => Remaining = AtTrapEnter
BY DEF Remaining

\* What the engines leave to each other at a clock edge.
Moves ==
  /\ exec.state = "S_RESTART" => exec'.state = "S_DISPATCH" /\ exec'.pc2 = exec.pc2
  /\ exec.state = "S_DISPATCH" /\ TrapsFirst => exec'.state = "S_TRAP_ENTER"
  /\ exec.state = "S_DISPATCH" /\ ~TrapsFirst =>
       IF Accepts(F!valid) THEN exec'.state = "S_EXECUTE"
       ELSE exec'.state = "S_DISPATCH" /\ exec'.pc2 = exec.pc2
  /\ exec.state = "S_TRAP_ENTER" => exec'.state = "S_RESTART" /\ exec'.pc2 % 2 = 0
  /\ exec.state = "S_TRAP_EXIT" => exec'.state = "S_RESTART"
  /\ exec.state = "S_EXECUTE" => exec'.state \in {"S_DISPATCH", "S_ALU_WAIT", "S_MEM_REQ",
                                                  "S_BRANCH", "S_RESTART", "S_SYSTEM"}
  /\ exec.state = "S_ALU_WAIT" =>
       exec'.state = "S_DISPATCH" \/ (exec'.state = "S_ALU_WAIT" /\ ~Faulted)
  /\ exec.state = "S_BRANCH" => exec'.state = "S_DISPATCH"
  /\ exec.state = "S_MEM_REQ" => exec'.state \in {"S_DISPATCH", "S_MEM_RSP"}
  /\ exec.state = "S_MEM_RSP" => exec'.state \in {"S_DISPATCH", "S_MEM_RSP"}
  /\ exec.state = "S_SYSTEM" => exec'.state \in {"S_TRAP_EXIT", "S_SLEEP", "S_DISPATCH"}
  /\ exec.state = "S_SLEEP" => exec'.state \in {"S_SLEEP", "S_DISPATCH"}
  /\ \/ exec.state \in {"S_RESTART", "S_EXECUTE", "S_ALU_WAIT", "S_TRAP_ENTER"}
     \/ exec.state = "S_DISPATCH" /\ ~Accepts(F!valid)
     => ControlEdge({}, FALSE)
  /\ ctrl'.lsu_req => exec'.state = "S_MEM_RSP"
  /\ MatchBuffer /\ Debugger /\ History /\ generics' = generics

Fetches(r) ==
  /\ F!FrontendEdge(r, if_ready, exec.pc2, csr.prv, debug_run)
  /\ r => exec.state \in {"S_RESTART", "S_BRANCH"}
  /\ exec.state = "S_RESTART" => r

LEMMA EngineMoves ==
  ASSUME CoreTypeOK, Next PROVE Moves /\ \E r \in BOOLEAN : Fetches(r)
<1> USE DEF Around
<1>0. /\ exec \in ExecTypes /\ DOMAIN exec = {"state", "kind", "bad", "ci", "pc", "pc2"}
  BY DEF CoreTypeOK, ControlTypeOK, ExecTypes
<1>1. MatchBuffer /\ Debugger /\ History /\ generics' = generics
  BY DEF Next, TakeBranch
<1>13. ctrl'.lsu_req => exec'.state = "S_MEM_RSP"
  <2>0. ASSUME NEW signals, Control(signals), "lsu_req" \notin signals PROVE ~ctrl'.lsu_req
    BY <2>0, ControlSignals DEF CoreTypeOK, ControlTypeOK
  <2>1. CASE \/ Restart \/ Dispatch(F!valid, F!compressed, F!fault)
             \/ TrapEnter \/ TrapExit \/ Sleep
    <3>1. Control({})
      BY <2>1 DEF Restart, Dispatch, TrapEnter, TrapExit, Sleep
    <3> QED
      BY <2>0, <3>1
  <2>2. CASE \/ Execute \/ (\E done \in BOOLEAN : AluWait(done)) \/ TakeBranch
             \/ (\E ack, err \in BOOLEAN : MemRsp(ack, err))
    <3>1. Control({}) \/ Control({"rf_wb_en"})
      BY <2>2 DEF Execute, AluWait, TakeBranch, Branch, MemRsp
    <3> QED
      BY <2>0, <3>1
  <2>3. CASE System
    <3>1. Control({"rf_wb_en"} \union (IF WritesCsr THEN {"csr_we"} ELSE {}))
      BY <2>3 DEF System
    <3> QED
      BY <2>0, <3>1
  <2>4. CASE MemReq /\ Faulted
    <3>1. Control({})
      BY <2>4 DEF MemReq
    <3> QED
      BY <2>0, <3>1
  <2>5. CASE MemReq /\ ~Faulted
    BY <1>0, <2>5 DEF MemReq, Go
  <2> QED
    BY <2>1, <2>2, <2>3, <2>4, <2>5 DEF Next
<1> USE DEF Moves
<1>2. CASE Restart /\ Around(TRUE)
  <2>1. Moves
    BY <1>0, <1>1, <1>13, <1>2 DEF Restart, Go
  <2>2. Fetches(TRUE)
    BY <1>2 DEF Restart, Fetches
  <2> QED
    BY <2>1, <2>2
<1>3. CASE Dispatch(F!valid, F!compressed, F!fault) /\ Around(FALSE)
  <2>1. exec.state = "S_DISPATCH"
    BY <1>3 DEF Dispatch
  <2>2. CASE Accepts(F!valid)
    <3>1. PICK kind \in generics.kinds, bad \in BOOLEAN :
            exec' = [state |-> "S_EXECUTE", kind |-> kind, bad |-> bad,
                     ci |-> F!compressed, pc |-> exec.pc2, pc2 |-> exec.pc2]
      BY <1>3, <2>2 DEF Dispatch, Accepts
    <3>2. exec'.state = "S_EXECUTE" /\ ~TrapsFirst
      BY <2>2, <3>1 DEF Accepts
    <3> QED
      BY <1>1, <1>13, <1>3, <2>1, <2>2, <3>2 DEF Fetches
  <2>3. CASE ~Accepts(F!valid) /\ TrapsFirst
    BY <1>0, <1>1, <1>13, <1>3, <2>1, <2>3 DEF Dispatch, Go, Fetches
  <2>4. CASE ~Accepts(F!valid) /\ ~TrapsFirst
    BY <1>0, <1>1, <1>13, <1>3, <2>1, <2>4 DEF Dispatch, Fetches
  <2> QED
    BY <2>2, <2>3, <2>4
<1>4. CASE TrapEnter /\ Around(FALSE)
  <2>1. Vector % 2 = 0
    BY EntryPoints DEF Vector
  <2> QED
    BY <1>0, <1>1, <1>13, <1>4, <2>1 DEF TrapEnter, Fetches
<1>5. CASE TrapExit /\ Around(FALSE)
  BY <1>0, <1>1, <1>13, <1>5 DEF TrapExit, Fetches
<1>6. CASE Execute /\ Around(FALSE)
  <2>1. AfterExecute \in {"S_DISPATCH", "S_ALU_WAIT", "S_MEM_REQ", "S_BRANCH", "S_RESTART",
                          "S_SYSTEM"}
    BY DEF AfterExecute
  <2> QED
    BY <1>0, <1>1, <1>13, <1>6, <2>1 DEF Execute, Fetches
<1>7. CASE (\E done \in BOOLEAN : AluWait(done)) /\ Around(FALSE)
  BY <1>0, <1>1, <1>13, <1>7 DEF AluWait, AluLeaves, Go, Fetches
<1>8. CASE TakeBranch
  <2>1. PICK taken \in BOOLEAN, target \in Targets :
          Branch(taken, target) /\ Around(Reset(taken))
    BY <1>8 DEF TakeBranch
  <2>2. PICK r \in BOOLEAN : r = Reset(taken)
    BY DEF Reset
  <2>3. exec.state = "S_BRANCH" /\ exec'.state = "S_DISPATCH"
    BY <1>0, <2>1 DEF Branch
  <2>4. Fetches(r)
    BY <2>1, <2>2, <2>3 DEF Fetches
  <2> QED
    BY <1>1, <1>13, <2>3, <2>4
<1>9. CASE MemReq /\ Around(FALSE)
  BY <1>0, <1>1, <1>13, <1>9 DEF MemReq, Go, Fetches
<1>10. CASE (\E ack, err \in BOOLEAN : MemRsp(ack, err)) /\ Around(FALSE)
  BY <1>0, <1>1, <1>13, <1>10 DEF MemRsp, Go, Fetches
<1>11. CASE System /\ Around(FALSE)
  <2>1. AfterSystem \in {"S_TRAP_EXIT", "S_SLEEP", "S_DISPATCH"}
    BY DEF AfterSystem
  <2> QED
    BY <1>0, <1>1, <1>13, <1>11, <2>1 DEF System, Go, Fetches
<1>12. CASE Sleep /\ Around(FALSE)
  BY <1>0, <1>1, <1>13, <1>12 DEF Sleep, Go, Fetches
<1> QED
  BY <1>2, <1>3, <1>4, <1>5, <1>6, <1>7, <1>8, <1>9, <1>10, <1>11, <1>12 DEF Next


\* The fetch engine and the prefetch buffer at a clock edge.
FetchMoves(r, ready) ==
  /\ fetch.state = "S_RESTART" => fetch'.state = "S_REQUEST" /\ ~fetch'.reset
  /\ fetch.state = "S_REQUEST" =>
       fetch'.state = IF F!free THEN "S_PENDING" ELSE IF r THEN "S_RESTART" ELSE "S_REQUEST"
  /\ fetch.state = "S_PENDING" =>
       \/ fetch'.state = "S_PENDING"
       \/ fetch'.state = IF F!restart(r) THEN "S_RESTART" ELSE "S_REQUEST"
  /\ fetch.state # "S_RESTART" => (fetch'.reset <=> F!restart(r))
  /\ F!restart(r) => ipb'[0] = <<>> /\ ipb'[1] = <<>>
  /\ ~F!restart(r) =>
       IF fetch.state = "S_PENDING" /\ fetch'.state # "S_PENDING"
       THEN /\ Len(ipb'[1]) = Len(Left(1, ready)) + 1
            /\ Len(ipb'[0]) \in {Len(Left(0, ready)), Len(Left(0, ready)) + 1}
       ELSE \A i \in {0, 1} : ipb'[i] = Left(i, ready)
  /\ ~generics.c => align_q' = FALSE
  /\ generics.c /\ ~fetch.reset /\ ~(F!valid /\ ready) => align_q' = align_q

LEMMA FetchEdge ==
  ASSUME FrontendTypeOK, Paired, Restarts, fetch.state = "S_REQUEST" => ~fetch.reset,
         NEW r \in BOOLEAN, NEW ready \in BOOLEAN, NEW pc_nxt, NEW prv, NEW dbg,
         F!FrontendEdge(r, ready, pc_nxt, prv, dbg)
  PROVE  FetchMoves(r, ready)
<1>1. PICK ack \in BOOLEAN, err \in BOOLEAN, compr \in HalfBits :
        /\ ack => fetch.state = "S_PENDING"
        /\ F!fetch_fsm(r, pc_nxt, prv, dbg, ack)
        /\ F!prefetch_buffer(r, ready, ack, compr, err)
        /\ F!issue_fsm_sync(ready, pc_nxt)
  BY Zenon DEF F!FrontendEdge, HalfBits
<1>2. fetch \in FetchTypes
  BY DEF FrontendTypeOK
<1>3. /\ fetch.state = "S_RESTART" => fetch'.state = "S_REQUEST" /\ ~fetch'.reset
      /\ fetch.state = "S_REQUEST" =>
           fetch'.state = IF F!free THEN "S_PENDING" ELSE IF r THEN "S_RESTART" ELSE "S_REQUEST"
      /\ fetch.state = "S_PENDING" =>
           fetch'.state = IF ~ack THEN "S_PENDING"
                          ELSE IF F!restart(r) THEN "S_RESTART" ELSE "S_REQUEST"
      /\ fetch.state # "S_RESTART" => (fetch'.reset <=> F!restart(r))
  BY <1>1, <1>2 DEF F!fetch_fsm, F!restart, F!free, FetchTypes
<1>4. F!restart(r) => ipb'[0] = <<>> /\ ipb'[1] = <<>>
  BY <1>1, IpbAfter
<1>5. ASSUME ~F!restart(r), ack
      PROVE  /\ Len(ipb'[1]) = Len(Left(1, ready)) + 1
             /\ Len(ipb'[0]) \in {Len(Left(0, ready)), Len(Left(0, ready)) + 1}
  <2>1. ASSUME NEW i \in {0, 1}
        PROVE  /\ Left(i, ready) \in Queues /\ F!wdata(i, compr[i], err) \in F!Halves
               /\ Len(Append(Left(i, ready), F!wdata(i, compr[i], err))) = Len(Left(i, ready)) + 1
    <3>1. compr[i] \in BOOLEAN
      BY DEF HalfBits
    <3>2. Left(i, ready) \in Queues /\ F!wdata(i, compr[i], err) \in F!Halves
      BY <1>2, <3>1, LeftTypes, WdataTypes
    <3> QED
      BY <3>2, AppendProperties DEF Queues
  <2>2. F!we(1, ack)
    BY <1>1, <1>5 DEF F!we
  <2>3. ipb'[1] = Append(Left(1, ready), F!wdata(1, compr[1], err))
    BY <1>1, <1>5, <2>2 DEF F!prefetch_buffer, Left
  <2>4. \/ ipb'[0] = Append(Left(0, ready), F!wdata(0, compr[0], err))
        \/ ipb'[0] = Left(0, ready)
    BY <1>1, <1>5 DEF F!prefetch_buffer, Left
  <2> QED
    BY <2>1, <2>3, <2>4
<1>6. ASSUME ~F!restart(r), ~ack, NEW i \in {0, 1} PROVE ipb'[i] = Left(i, ready)
  <2>1. ~F!we(i, ack)
    BY <1>6 DEF F!we
  <2> QED
    BY <1>1, <1>6, <2>1, IpbAfter
<1>7. ~F!restart(r) =>
       IF fetch.state = "S_PENDING" /\ fetch'.state # "S_PENDING"
       THEN /\ Len(ipb'[1]) = Len(Left(1, ready)) + 1
            /\ Len(ipb'[0]) \in {Len(Left(0, ready)), Len(Left(0, ready)) + 1}
       ELSE \A i \in {0, 1} : ipb'[i] = Left(i, ready)
  BY <1>1, <1>3, <1>5, <1>6
<1>8. /\ ~generics.c => align_q' = FALSE
      /\ generics.c /\ ~fetch.reset /\ ~(F!valid /\ ready) => align_q' = align_q
  BY <1>1 DEF F!issue_fsm_sync
<1> QED
  BY <1>3, <1>4, <1>7, <1>8 DEF FetchMoves

\* What the issue engine leaves.
LEMMA LeftLengths ==
  ASSUME FrontendTypeOK, Paired
  PROVE  /\ \A i \in {0, 1} : /\ Len(ipb[i]) \in Nat /\ (ipb[i] = <<>> <=> Len(ipb[i]) = 0)
                              /\ Left(i, FALSE) = ipb[i]
                              /\ Len(Left(i, TRUE)) \in {Len(ipb[i]), Len(ipb[i]) - 1}
                              /\ Len(Left(i, TRUE)) \in Nat
         /\ F!first \in {0, 1} /\ F!second = 1 - F!first
         /\ F!valid => /\ Len(Left(F!first, TRUE)) = Len(ipb[F!first]) - 1
                       /\ ~F!compressed =>
                            Len(Left(F!second, TRUE)) = Len(ipb[F!second]) - 1
         /\ ~F!valid => \A i \in {0, 1} : Left(i, TRUE) = ipb[i]
<1>0. F!first \in {0, 1} /\ F!second = 1 - F!first
  BY DEF F!first, F!second
<1>1. ASSUME NEW i \in {0, 1}
      PROVE  /\ Len(ipb[i]) \in Nat /\ (ipb[i] = <<>> <=> Len(ipb[i]) = 0)
             /\ Left(i, FALSE) = ipb[i]
             /\ F!valid /\ i \in F!taken_from => Len(Left(i, TRUE)) = Len(ipb[i]) - 1
             /\ ~(F!valid /\ i \in F!taken_from) => Left(i, TRUE) = ipb[i]
             /\ Len(Left(i, TRUE)) \in Nat
  <2>1. ipb[i] \in Seq(F!Halves)
    BY DEF FrontendTypeOK, Queues
  <2>2. ipb[i] # <<>> => Len(Tail(ipb[i])) = Len(ipb[i]) - 1
    BY <2>1, HeadTailProperties
  <2>3. F!valid /\ i \in F!taken_from => ipb[i] # <<>>
    BY TakenWasThere
  <2> QED
    BY <2>1, <2>2, <2>3, EmptySeq, LenProperties, LeftTypes DEF Left
<1>2. /\ F!first \in F!taken_from
      /\ ~F!compressed => F!second \in F!taken_from
  BY <1>0 DEF F!taken_from
<1>3. F!second \in {0, 1}
  BY <1>0
<1>4. F!valid => /\ Len(Left(F!first, TRUE)) = Len(ipb[F!first]) - 1
                 /\ ~F!compressed => Len(Left(F!second, TRUE)) = Len(ipb[F!second]) - 1
  BY <1>0, <1>1, <1>2, <1>3
<1>5. \A i \in {0, 1} : Len(Left(i, TRUE)) \in {Len(ipb[i]), Len(ipb[i]) - 1}
  BY <1>1
<1> QED
  BY <1>0, <1>1, <1>4, <1>5

LEMMA Lengths == FrontendTypeOK => Len(ipb[0]) \in Nat /\ Len(ipb[1]) \in Nat
BY DEF FrontendTypeOK, Queues

\* How long the two FIFOs are, where the frontend is in step.
Shape ==
  /\ align_q => generics.c
  /\ ~align_q => Len(ipb[0]) = Len(ipb[1])
  /\ align_q => \/ Len(ipb[0]) = 0 /\ Len(ipb[1]) = 0
                \/ Len(ipb[1]) = Len(ipb[0]) + 1
  /\ exec.state \in {"S_DISPATCH", "S_ALU_WAIT"} => (align_q <=> Odd = 1)

LEMMA ShapeHolds == CoreInv /\ ~Doomed /\ ~fetch.reset => Shape
<1> SUFFICES ASSUME CoreInv, ~Doomed, ~fetch.reset PROVE Shape
  OBVIOUS
<1>1. NextPc \in Pcs /\ exec.pc2 \in Pcs /\ ipb[0] \in Queues /\ ipb[1] \in Queues
  BY NextPcType DEF CoreInv, CoreTypeOK, FrontendTypeOK
<1>2. At(NextPc) /\ NextPc % 2 \in {0, 1} /\ exec.pc2 % 2 \in {0, 1}
  BY <1>1, NextParity DEF CoreInv, InStep
<1>3. ~generics.c => NextPc % 2 = 0
  BY DEF CoreInv, Evenness
<1>4. exec.state \in {"S_DISPATCH", "S_ALU_WAIT"} => NextPc = exec.pc2
  BY DEF NextPc
<1>5. CASE NextPc % 2 = 0
  BY <1>2, <1>4, <1>5 DEF Shape, At, Buffered, Odd
<1>6. CASE NextPc % 2 = 1
  BY <1>2, <1>3, <1>4, <1>6 DEF Shape, At, Buffered, Odd
<1> QED
  BY <1>2, <1>5, <1>6

\* What is missing there.
LEMMA ShapeTells ==
  FrontendTypeOK /\ Paired /\ Shape =>
    /\ F!valid => ipb[F!first] # <<>>
    /\ ~F!valid => Len(ipb[0]) = 0 /\ Len(ipb[1]) <= 1
    /\ ~F!valid /\ ~align_q => Len(ipb[1]) = 0
    /\ Len(ipb[0]) >= 1 => F!valid
    /\ F!first = One(align_q)
<1> SUFFICES ASSUME FrontendTypeOK, Paired, Shape
             PROVE  /\ F!valid => ipb[F!first] # <<>>
                    /\ ~F!valid => Len(ipb[0]) = 0 /\ Len(ipb[1]) <= 1
                    /\ ~F!valid /\ ~align_q => Len(ipb[1]) = 0
                    /\ Len(ipb[0]) >= 1 => F!valid
                    /\ F!first = One(align_q)
  OBVIOUS
<1>1. /\ Len(ipb[0]) \in Nat /\ Len(ipb[1]) \in Nat
      /\ ipb[0] = <<>> <=> Len(ipb[0]) = 0
      /\ ipb[1] = <<>> <=> Len(ipb[1]) = 0
  BY LeftLengths
<1>2. F!first = (IF align_q THEN 1 ELSE 0) /\ F!second = (IF align_q THEN 0 ELSE 1)
  BY DEF F!first, F!second
<1>3. CASE align_q
  BY <1>1, <1>2, <1>3 DEF Shape, F!valid, F!avail, One
<1>4. CASE ~align_q /\ generics.c
  BY <1>1, <1>2, <1>4 DEF Shape, F!valid, F!avail, One
<1>5. CASE ~align_q /\ ~generics.c
  BY <1>1, <1>2, <1>5 DEF Shape, F!valid, F!avail, One
<1> QED
  BY <1>3, <1>4, <1>5

LEMMA MissingTells ==
  FrontendTypeOK /\ Paired /\ Shape /\ Odd \in {0, 1} =>
    /\ Len(ipb[0]) >= 1 => Missing = 0
    /\ align_q /\ Len(ipb[1]) >= 1 => Missing <= 1
    /\ ~F!valid => Missing = IF align_q /\ Len(ipb[1]) = 0 THEN 1 + Odd ELSE IF align_q THEN 1
                             ELSE 1 + Odd
<1> SUFFICES ASSUME FrontendTypeOK, Paired, Shape, Odd \in {0, 1}
             PROVE  /\ Len(ipb[0]) >= 1 => Missing = 0
                    /\ align_q /\ Len(ipb[1]) >= 1 => Missing <= 1
                    /\ ~F!valid => Missing = IF align_q /\ Len(ipb[1]) = 0 THEN 1 + Odd
                                             ELSE IF align_q THEN 1 ELSE 1 + Odd
  OBVIOUS
<1>1. /\ Len(ipb[0]) \in Nat /\ Len(ipb[1]) \in Nat
      /\ ipb[0] = <<>> <=> Len(ipb[0]) = 0
      /\ ipb[1] = <<>> <=> Len(ipb[1]) = 0
      /\ align_q => F!first = 1
      /\ ~align_q => F!first = 0
  BY LeftLengths DEF F!first
<1> QED
  BY <1>1, ShapeTells DEF Missing, F!avail

LEMMA Unclogged ==
  FrontendTypeOK /\ Paired /\ Shape /\ Len(ipb[0]) <= 2 /\ Len(ipb[1]) <= 2
  /\ (Len(ipb[0]) <= 1 \/ Len(ipb[1]) <= 1) => ~Clogged
<1> SUFFICES ASSUME FrontendTypeOK, Paired, Shape, Len(ipb[0]) <= 2, Len(ipb[1]) <= 2,
                    Len(ipb[0]) <= 1 \/ Len(ipb[1]) <= 1
             PROVE  ~Clogged
  OBVIOUS
<1> DEFINE n0 == Len(ipb[0])
           n1 == Len(ipb[1])
           l0 == Len(Left(0, TRUE))
           l1 == Len(Left(1, TRUE))
<1>1. /\ n0 \in Nat /\ l0 \in Nat /\ n1 \in Nat /\ l1 \in Nat
      /\ l0 = n0 \/ l0 = n0 - 1
      /\ l1 = n1 \/ l1 = n1 - 1
  BY LeftLengths
<1>2. F!valid /\ F!first = 1 => l1 = n1 - 1
  BY LeftLengths
<1>3. /\ ~align_q => n0 = n1
      /\ align_q => (n0 = 0 /\ n1 = 0) \/ n1 = n0 + 1
  BY DEF Shape
<1>4. n0 >= 1 => F!valid
  BY ShapeTells
<1>5. align_q => F!first = 1
  BY DEF F!first
<1>6. n0 <= 2 /\ n1 <= 2 /\ (n0 <= 1 \/ n1 <= 1)
  OBVIOUS
<1>7. Clogged => l0 >= 2 \/ l1 >= 2
  BY DEF Clogged
<1> HIDE DEF n0, n1, l0, l1
<1> QED
  BY <1>1, <1>2, <1>3, <1>4, <1>5, <1>6, <1>7

\* The bounds of what is left.
LEMMA Ranges ==
  CoreTypeOK =>
    /\ Odd \in {0, 1} /\ Level \in {5, 7, 11} /\ Missing \in 0 .. 2 /\ Wait \in 0 .. 4
    /\ AtRestart \in 0 .. 12 /\ AtTrapEnter \in 0 .. 11
    /\ AtDispatch \in 0 .. 12 /\ (~Clogged => AtDispatch <= 11)
<1> SUFFICES ASSUME CoreTypeOK
             PROVE  /\ Odd \in {0, 1} /\ Level \in {5, 7, 11} /\ Missing \in 0 .. 2
                    /\ Wait \in 0 .. 4
                    /\ AtRestart \in 0 .. 12 /\ AtTrapEnter \in 0 .. 11
                    /\ AtDispatch \in 0 .. 12 /\ (~Clogged => AtDispatch <= 11)
  OBVIOUS
<1>1. Odd \in {0, 1}
  BY NextPcType, NextParity DEF Odd
<1>2. Level \in {5, 7, 11}
  BY DEF Level
<1>3. Missing \in 0 .. 2
  BY <1>1 DEF Missing
<1>4. Wait \in 0 .. 4
  BY <1>1, <1>3 DEF Wait, One
<1>5. AtRestart \in 0 .. 12
  BY <1>1, <1>2 DEF AtRestart, One
<1>6. AtTrapEnter \in 0 .. 11
  BY <1>2 DEF AtTrapEnter, One
<1>7. AtDispatch \in 0 .. 12 /\ (~Clogged => AtDispatch <= 11)
  BY <1>1, <1>2, <1>4 DEF AtDispatch, One
<1> QED
  BY <1>1, <1>2, <1>3, <1>4, <1>5, <1>6, <1>7

\* What a clock edge leaves in the trap buffers, while the engine restarts or waits.
LEMMA CalmBuffers ==
  ASSUME CoreInv, TrapInv, ControlEdge({}, FALSE), exec.state \in {"S_RESTART", "S_DISPATCH"}
  PROVE  /\ debug_run' <=> debug_run
         /\ exc_buf' = exc_buf \union (IF hwtrig /\ ~debug_run THEN {"db_trig"} ELSE {})
         /\ env_pend' <=> env_pend \/ exc_fire \/ "db_halt" \in irq_buf
         /\ "db_halt" \in irq_buf' => trig_halt \/ (env_pend /\ "db_halt" \in irq_buf)
         /\ "db_halt" \in irq_buf /\ ~debug_run => "db_halt" \in irq_buf'
<1>1. PICK raised \in SUBSET SyncExc, ebreak \in BOOLEAN :
        raised = {} /\ ~ebreak /\ ControlEdge(raised, ebreak)
  OBVIOUS
<1>2. CoreTypeOK /\ ControlTypeOK /\ ~env_enter /\ ~env_exit /\ ~instr_il /\ ~system_irq_fire
  BY DEF CoreInv, CoreTypeOK, env_enter, env_exit, instr_il, system_irq_fire
<1>3. debug_run' <=> debug_run
  BY <1>1, <1>2, ControlEdgeFacts
<1>4. env_pend' <=> env_pend \/ exc_fire \/ "db_halt" \in irq_buf
  BY <1>1, <1>2, BuffersAfter DEF irq_fire
<1>5. "db_halt" \in irq_buf' <=> trig_halt \/ (env_pend /\ "db_halt" \in irq_buf)
  BY <1>1, <1>2, BuffersAfter
<1>6. "db_halt" \in irq_buf /\ ~debug_run => trig_halt
  BY DEF TrapInv, Halts, DebugOnly, trig_halt
<1>7. exc_buf' = exc_buf \union debug_triggers(FALSE)
  BY <1>2 DEF ControlEdge, trap_buffer, exc_buf_after, ebreak_trig
<1>8. hwtrig => generics.sdext
  BY GenericsTypes DEF CoreInv, Matches, CoreTypeOK, ControlTypeOK
<1>9. debug_triggers(FALSE) = IF hwtrig /\ ~debug_run THEN {"db_trig"} ELSE {}
  BY <1>8 DEF debug_triggers
<1> QED
  BY <1>3, <1>4, <1>5, <1>6, <1>7, <1>9

\* What comes first then.
LEMMA CalmLevel ==
  ASSUME CoreInv, TrapInv, Room, ControlEdge({}, FALSE), MatchBuffer,
         exec.state \in {"S_RESTART", "S_DISPATCH"}
  PROVE  /\ debug_run' <=> debug_run
         /\ Level' <= Level
         /\ ~TrapsFirst /\ TrapsFirst' => Level' <= 7
         /\ Coming /\ (exec.state = "S_RESTART" \/ TrapsFirst) => TrapsFirst'
         /\ ~Coming /\ debug_run => ~TrapsFirst'
         /\ exec.state = "S_DISPATCH" /\ debug_run /\ ~TrapsFirst => ~Coming
         /\ exec.state = "S_DISPATCH" /\ hwtrig => TrapsFirst'
         /\ hwtrig' => hwtrig /\ TrapsFirst'
<1>1. /\ debug_run' <=> debug_run
      /\ exc_buf' = exc_buf \union (IF hwtrig /\ ~debug_run THEN {"db_trig"} ELSE {})
      /\ env_pend' <=> env_pend \/ exc_fire \/ "db_halt" \in irq_buf
      /\ "db_halt" \in irq_buf /\ ~debug_run => "db_halt" \in irq_buf'
  BY CalmBuffers
<1>2. "db_trig" \notin SyncExc
  BY DEF SyncExc, InstrExc
<1>3. exc_buf' \intersect SyncExc = exc_buf \intersect SyncExc
  BY <1>1, <1>2
<1>4. TrapsFirst' <=> env_pend' \/ exc_buf' # {}
  BY DEF TrapsFirst, exc_fire
<1>5. TrapsFirst <=> env_pend \/ exc_buf # {}
  BY DEF TrapsFirst, exc_fire
<1>6. Level' <= Level
  BY <1>1, <1>3 DEF Level
<1>7. ~TrapsFirst /\ TrapsFirst' => Level' <= 7
  BY <1>1, <1>3, <1>4, <1>5 DEF Level, exc_fire
<1>8. exec.state = "S_DISPATCH" => (hwtrig => ~debug_run) /\ ("db_halt" \in irq_buf => ~debug_run)
  BY DEF CoreInv, Matches, TrapInv, Halts
<1>9. hwtrig' => hwtrig /\ ~debug_run
  BY DEF MatchBuffer, Room
<1>10. hwtrig /\ ~debug_run => TrapsFirst'
  BY <1>1, <1>4
<1>11. Coming <=> TrapsFirst \/ "db_halt" \in irq_buf
  BY DEF Coming
<1> QED
  BY <1>1, <1>4, <1>5, <1>6, <1>7, <1>8, <1>9, <1>10, <1>11 DEF exc_fire

LEMMA EmptyMisses ==
  ipb[0] = <<>> /\ ipb[1] = <<>> => ~F!valid /\ ~Clogged /\ F!free /\ Missing = 1 + Odd
<1> SUFFICES ASSUME ipb[0] = <<>>, ipb[1] = <<>>
             PROVE  ~F!valid /\ ~Clogged /\ F!free /\ Missing = 1 + Odd
  OBVIOUS
<1>1. F!first \in {0, 1}
  BY DEF F!first
<1>2. ~F!avail(F!first) /\ ~F!avail(0)
  BY <1>1 DEF F!avail
<1>3. ~F!valid
  BY <1>2 DEF F!valid, F!compressed
<1>4. Left(0, TRUE) = <<>> /\ Left(1, TRUE) = <<>>
  BY <1>3 DEF Left
<1>5. Len(<<>>) = 0
  OBVIOUS
<1>6. ~Clogged
  <2> DEFINE l0 == Len(Left(0, TRUE))
             l1 == Len(Left(1, TRUE))
             l  == Len(<<>>)
  <2>1. l0 = l /\ l1 = l
    BY <1>4, Zenon
  <2>2. Clogged => l0 >= 2 \/ l1 >= 2
    BY DEF Clogged
  <2>3. l = 0
    OBVIOUS
  <2> HIDE DEF l0, l1, l
  <2> QED
    BY <2>1, <2>2, <2>3
<1>7. F!free
  BY <1>5 DEF F!free, F!IpbDepth
<1> QED
  BY <1>2, <1>3, <1>6, <1>7 DEF Missing

\* The clocks that a clock edge counts.
Counted == One(fetch.state # "S_PENDING" /\ exec.state # "S_MEM_RSP")

LEMMA RestartRemains ==
  ASSUME CoreInv, TrapInv, Room, Moves, FetchMoves(TRUE, FALSE), CoreTypeOK',
         exec.state = "S_RESTART"
  PROVE  Remaining' + Counted <= Remaining
<1>1. /\ exec'.state = "S_DISPATCH" /\ Odd' = Odd
      /\ ControlEdge({}, FALSE) /\ MatchBuffer
  BY DEF Moves, Odd
<1>2. ipb'[0] = <<>> /\ ipb'[1] = <<>>
  BY DEF FetchMoves, F!restart
<1>3. ~Clogged' /\ Missing' = 1 + Odd
  <2>1. (ipb[0] = <<>> /\ ipb[1] = <<>>)' => (~Clogged)' /\ (Missing = 1 + Odd)'
    BY EmptyMisses, PTL
  <2> QED
    BY <1>1, <1>2, <2>1
<1>4. Remaining = AtRestart /\ Remaining' = AtDispatch'
  <2>1. (exec.state = "S_DISPATCH" => Remaining = AtDispatch)'
    BY RemainingIs, PTL
  <2> QED
    BY <1>1, <2>1, RemainingIs
<1>5. Odd \in {0, 1} /\ Level \in {5, 7, 11} /\ Level' \in {5, 7, 11}
  <2>1. (Level \in {5, 7, 11})'
    BY Ranges, PTL
  <2> QED
    BY <2>1, Ranges DEF CoreInv
<1>6. /\ debug_run' <=> debug_run
      /\ Level' <= Level
      /\ ~TrapsFirst /\ TrapsFirst' => Level' <= 7
      /\ Coming => TrapsFirst'
      /\ ~Coming /\ debug_run => ~TrapsFirst'
      /\ hwtrig' => TrapsFirst'
  BY <1>1, CalmLevel
<1>7. TrapsFirst => Coming
  BY DEF Coming
<1>8. /\ fetch.state \in {"S_RESTART", "S_REQUEST", "S_PENDING"}
      /\ fetch.state = "S_RESTART" => fetch'.state = "S_REQUEST" /\ ~fetch'.reset
      /\ fetch.state # "S_RESTART" => fetch'.reset
  BY DEF FetchMoves, F!restart, CoreInv, CoreTypeOK, FrontendTypeOK, FetchTypes
<1>9. Wait' = IF fetch.state = "S_RESTART" THEN 2 + Odd ELSE 3 + Odd
  BY <1>1, <1>3, <1>5, <1>8 DEF Wait, One
<1>10. AtDispatch' = IF TrapsFirst' THEN Level'
                     ELSE Wait' + (IF debug_run THEN 0 ELSE 6 + Odd)
  BY <1>1, <1>3, <1>5, <1>6 DEF AtDispatch, One
<1>11. /\ Counted \in {0, 1}
       /\ fetch.state = "S_PENDING" => Counted = 0
       /\ fetch.state # "S_PENDING" => Counted = 1
  BY DEF Counted, One
<1>12. AtRestart = IF Coming THEN Level + Counted
                   ELSE IF debug_run THEN 3 + One(fetch.state = "S_REQUEST") + Odd
                   ELSE 9 + One(fetch.state = "S_REQUEST") + 2 * Odd
  BY DEF AtRestart, Counted
<1>13. One(fetch.state = "S_REQUEST") \in {0, 1}
       /\ (fetch.state = "S_REQUEST" => One(fetch.state = "S_REQUEST") = 1)
  BY DEF One
<1> DEFINE level == Level
           then  == Level'
           odd   == Odd
           req   == One(fetch.state = "S_REQUEST")
<1> HIDE DEF level, then, odd, req
<1>14. CASE Coming
  <2>1. Remaining = level + Counted /\ Remaining' = then
    BY <1>4, <1>6, <1>10, <1>12, <1>14 DEF level, then
  <2>2. level \in Int /\ then \in Int /\ then <= level
    BY <1>5, <1>6 DEF level, then
  <2> QED
    BY <1>11, <2>1, <2>2
<1>15. CASE ~Coming /\ TrapsFirst'
  <2>1. Remaining = 9 + req + 2 * odd /\ Remaining' = then
    BY <1>4, <1>6, <1>10, <1>12, <1>15 DEF level, then, req, odd
  <2>2. then \in Int /\ then <= 7 /\ odd \in {0, 1} /\ req \in {0, 1}
    BY <1>5, <1>6, <1>7, <1>13, <1>15 DEF level, then, req, odd
  <2> QED
    BY <1>11, <2>1, <2>2
<1>16. CASE ~Coming /\ ~TrapsFirst' /\ debug_run
  <2>1. Remaining = 3 + req + odd
        /\ Remaining' = IF fetch.state = "S_RESTART" THEN 2 + odd ELSE 3 + odd
    BY <1>4, <1>5, <1>9, <1>10, <1>12, <1>16 DEF req, odd
  <2>2. odd \in {0, 1} /\ req \in {0, 1} /\ (fetch.state = "S_REQUEST" => req = 1)
    BY <1>5, <1>13 DEF req, odd
  <2> QED
    BY <1>8, <1>11, <2>1, <2>2
<1>17. CASE ~Coming /\ ~TrapsFirst' /\ ~debug_run
  <2>1. Remaining = 9 + req + 2 * odd
        /\ Remaining' = IF fetch.state = "S_RESTART" THEN 8 + 2 * odd ELSE 9 + 2 * odd
    BY <1>4, <1>5, <1>9, <1>10, <1>12, <1>17 DEF req, odd
  <2>2. odd \in {0, 1} /\ req \in {0, 1} /\ (fetch.state = "S_REQUEST" => req = 1)
    BY <1>5, <1>13 DEF req, odd
  <2> QED
    BY <1>8, <1>11, <2>1, <2>2
<1> QED
  BY <1>14, <1>15, <1>16, <1>17

LEMMA CloggedIs ==
  FrontendTypeOK /\ Paired /\ Clogged => Len(ipb[0]) >= 2 \/ Len(ipb[1]) >= 2
<1> SUFFICES ASSUME FrontendTypeOK, Paired, Clogged
             PROVE  Len(ipb[0]) >= 2 \/ Len(ipb[1]) >= 2
  OBVIOUS
<1> DEFINE n0 == Len(ipb[0])
           n1 == Len(ipb[1])
           l0 == Len(Left(0, TRUE))
           l1 == Len(Left(1, TRUE))
<1>1. /\ n0 \in Nat /\ l0 \in Nat /\ n1 \in Nat /\ l1 \in Nat
      /\ l0 = n0 \/ l0 = n0 - 1
      /\ l1 = n1 \/ l1 = n1 - 1
  BY LeftLengths
<1>2. l0 >= 2 \/ l1 >= 2
  BY DEF Clogged
<1> HIDE DEF n0, n1, l0, l1
<1>3. n0 >= 2 \/ n1 >= 2
  BY <1>1, <1>2
<1> QED
  BY <1>3 DEF n0, n1

LEMMA SameIssue ==
  ASSUME ipb' = ipb, align_q' = align_q, generics' = generics
  PROVE  /\ F!valid' <=> F!valid
         /\ Odd' = Odd => Missing' = Missing
         /\ fetch'.state = "S_REQUEST" /\ fetch.state = "S_REQUEST" => (Clogged' <=> Clogged)
<1>1. /\ F!first' = F!first /\ F!second' = F!second
      /\ F!avail(0)' <=> F!avail(0)
      /\ F!avail(F!first)' <=> F!avail(F!first)
      /\ F!avail(F!second)' <=> F!avail(F!second)
      /\ F!compressed' <=> F!compressed
  BY DEF F!first, F!second, F!avail, F!compressed
<1>2. F!valid' <=> F!valid
  BY <1>1 DEF F!valid
<1>3. ASSUME NEW i \in {0, 1} PROVE Left(i, TRUE)' = Left(i, TRUE)
  BY <1>1, <1>2 DEF Left, F!taken_from
<1> QED
  BY <1>1, <1>2, <1>3 DEF Missing, Clogged

LEMMA DispatchTraps ==
  ASSUME CoreInv, TrapInv, Room, Moves, FetchMoves(FALSE, TRUE), CoreTypeOK',
         exec.state = "S_DISPATCH", TrapsFirst
  PROVE  Remaining' + Counted <= Remaining
<1>0. CoreTypeOK /\ FrontendTypeOK /\ Paired /\ Restarts
  BY DEF CoreInv, CoreTypeOK
<1>1. exec'.state = "S_TRAP_ENTER" /\ ControlEdge({}, FALSE) /\ MatchBuffer
  BY DEF Moves, Accepts
<1>2. Remaining = AtDispatch /\ Remaining' = AtTrapEnter'
  <2>1. (exec.state = "S_TRAP_ENTER" => Remaining = AtTrapEnter)'
    BY RemainingIs, PTL
  <2> QED
    BY <1>1, <2>1, RemainingIs
<1> DEFINE level == Level
           then  == Level'
           clog  == One(Clogged)
           stuck == One(Stuck \/ fetch.state = "S_RESTART")'
<1>3. level \in Int /\ then \in Int /\ then <= level
  <2>1. (Level \in {5, 7, 11})'
    BY Ranges, PTL
  <2> QED
    BY <1>0, <1>1, <2>1, CalmLevel, Ranges
<1>4. Remaining = level + clog /\ Remaining' = then - 1 + stuck
  BY <1>2 DEF AtDispatch, AtTrapEnter
<1>5. Stuck' => fetch.state = "S_PENDING" \/ Clogged
  <2> SUFFICES ASSUME Stuck', fetch.state # "S_PENDING" PROVE Clogged
    OBVIOUS
  <2>1. CASE fetch.state = "S_RESTART"
    <3>1. ipb'[0] = <<>> /\ ipb'[1] = <<>>
      BY <1>0, <2>1 DEF FetchMoves, F!restart, Restarts
    <3>2. (ipb[0] = <<>> /\ ipb[1] = <<>>)' => F!free'
      BY EmptyMisses, PTL
    <3> QED
      BY <3>1, <3>2 DEF Stuck
  <2>2. CASE fetch.state = "S_REQUEST"
    <3>1. ~fetch.reset /\ fetch'.state = "S_REQUEST"
      BY <2>2 DEF Room, Stuck
    <3>2. ipb'[0] = Left(0, TRUE) /\ ipb'[1] = Left(1, TRUE)
      BY <2>2, <3>1 DEF FetchMoves, F!restart
    <3> DEFINE l0 == Len(Left(0, TRUE))
               l1 == Len(Left(1, TRUE))
    <3>3. \E i \in {0, 1} : ~(Len(ipb'[i]) < 2)
      BY DEF Stuck, F!free, F!IpbDepth
    <3>4. ~(l0 < 2) \/ ~(l1 < 2)
      BY <3>2, <3>3
    <3>5. l0 \in Nat /\ l1 \in Nat
      BY <1>0, LeftLengths
    <3>6. l0 >= 2 \/ l1 >= 2 => Clogged
      BY <2>2 DEF Clogged
    <3> HIDE DEF l0, l1
    <3> QED
      BY <3>4, <3>5, <3>6
  <2> QED
    BY <1>0, <2>1, <2>2 DEF FrontendTypeOK, FetchTypes
<1>6. fetch'.state = "S_RESTART" => fetch.state = "S_PENDING"
  BY <1>0 DEF FetchMoves, Room, F!restart, FrontendTypeOK, FetchTypes
<1>7. /\ clog \in {0, 1} /\ stuck \in {0, 1} /\ Counted \in {0, 1}
      /\ fetch.state = "S_PENDING" => Counted = 0
      /\ stuck = 1 => fetch.state = "S_PENDING" \/ clog = 1
  BY <1>5, <1>6 DEF Counted, One
<1> HIDE DEF level, then, clog, stuck
<1> QED
  BY <1>3, <1>4, <1>7

LEMMA DispatchHolds ==
  ASSUME CoreInv, TrapInv, Room, Moves, FetchMoves(FALSE, TRUE), CoreTypeOK',
         exec.state = "S_DISPATCH", ~TrapsFirst, hwtrig
  PROVE  Remaining' + Counted <= Remaining
<1>1. exec'.state = "S_DISPATCH" /\ ControlEdge({}, FALSE) /\ MatchBuffer
  BY DEF Moves, Accepts
<1>2. Remaining = AtDispatch /\ Remaining' = AtDispatch'
  <2>1. (exec.state = "S_DISPATCH" => Remaining = AtDispatch)'
    BY RemainingIs, PTL
  <2> QED
    BY <1>1, <2>1, RemainingIs
<1>3. TrapsFirst' /\ Level' <= 7
  BY <1>1, CalmLevel
<1> DEFINE then == Level'
           clog == One(Clogged)'
<1>4. then \in Int /\ then <= 7
  <2>1. (Level \in {5, 7, 11})'
    BY Ranges, PTL
  <2> QED
    BY <1>3, <2>1
<1>5. Remaining = 9 /\ Remaining' = then + clog
  BY <1>2, <1>3 DEF AtDispatch
<1>6. clog \in {0, 1} /\ Counted \in {0, 1}
  BY DEF Counted, One
<1> HIDE DEF then, clog
<1> QED
  BY <1>4, <1>5, <1>6

LEMMA DispatchAccepts ==
  ASSUME CoreInv, Room, Moves, CoreTypeOK', exec.state = "S_DISPATCH", Accepts(F!valid)
  PROVE  Remaining' + Counted <= Remaining
<1>0. CoreTypeOK /\ FrontendTypeOK /\ Restarts
  BY DEF CoreInv, CoreTypeOK
<1>1. Remaining' = 0
  <2>1. (exec.state \in {"S_EXECUTE", "S_SLEEP"} => Remaining = 0)'
    BY RemainingIs, PTL
  <2> QED
    BY <2>1 DEF Moves, Accepts
<1>2. ~TrapsFirst /\ ~hwtrig /\ ~fetch.reset
  BY <1>0, NothingIssued DEF Accepts
<1>3. Odd \in {0, 1}
  BY <1>0, Ranges
<1>4. Wait = One(fetch.state # "S_PENDING")
  BY <1>2 DEF Wait, Missing, Accepts, One
<1>5. Counted = One(fetch.state # "S_PENDING") /\ Counted \in {0, 1}
  BY DEF Counted, One
<1>6. Remaining = Counted + (IF debug_run THEN 0 ELSE 6 + Odd)
  BY <1>2, <1>4, <1>5, RemainingIs DEF AtDispatch
<1> QED
  BY <1>1, <1>3, <1>5, <1>6

\* While the instruction is not there the fetch brings it nearer.
LEMMA WaitFalls ==
  ASSUME CoreInv, Room, Moves, FetchMoves(FALSE, TRUE), CoreInv',
         exec.state = "S_DISPATCH", ~TrapsFirst, ~TrapsFirst', ~hwtrig, ~F!valid
  PROVE  Wait' + Counted <= Wait
<1>0. /\ CoreTypeOK /\ FrontendTypeOK /\ Paired /\ Restarts
      /\ CoreTypeOK' /\ FrontendTypeOK' /\ Paired'
  BY DEF CoreInv, CoreTypeOK
<1>1. exec'.state = "S_DISPATCH" /\ Odd' = Odd /\ generics' = generics
  BY DEF Moves, Accepts, Odd
<1> DEFINE odd   == Odd
           miss  == Missing
           later == Missing'
<1>2. /\ odd \in {0, 1} /\ miss \in 0 .. 2 /\ later \in 0 .. 2
      /\ fetch.state \in {"S_RESTART", "S_REQUEST", "S_PENDING"}
  <2>1. (Missing \in 0 .. 2)'
    BY <1>0, Ranges, PTL
  <2> QED
    BY <1>0, <2>1, Ranges DEF FrontendTypeOK, FetchTypes
<1>3. /\ Counted \in {0, 1}
      /\ fetch.state = "S_PENDING" => Counted = 0
      /\ fetch.state # "S_PENDING" => Counted = 1
  BY DEF Counted, One
<1>4. CASE fetch.reset /\ fetch.state = "S_RESTART"
  <2>1. ipb'[0] = <<>> /\ ipb'[1] = <<>>
    BY <1>4 DEF FetchMoves, F!restart
  <2>2. later = 1 + odd
    <3>1. (ipb[0] = <<>> /\ ipb[1] = <<>>)' => (Missing = 1 + Odd)'
      BY EmptyMisses, PTL
    <3> QED
      BY <1>1, <2>1, <3>1
  <2>3. fetch'.state = "S_REQUEST" /\ ~fetch'.reset
    BY <1>4 DEF FetchMoves
  <2>4. Wait = 3 + odd /\ Wait' = later + 1
    BY <1>4, <2>3 DEF Wait, One
  <2> HIDE DEF odd, later
  <2> QED
    BY <1>2, <1>3, <2>2, <2>4
<1>5. CASE fetch.reset /\ fetch.state # "S_RESTART"
  <2>1. fetch.state = "S_PENDING" /\ fetch'.reset
    BY <1>2, <1>5 DEF FetchMoves, F!restart, Room
  <2>2. Wait = 3 + odd /\ Wait' = 3 + odd
    BY <1>1, <1>5, <2>1 DEF Wait
  <2> HIDE DEF odd
  <2> QED
    BY <1>2, <1>3, <2>1, <2>2
<1>6. CASE ~fetch.reset
  <2>0. fetch.state # "S_RESTART" /\ ~fetch'.reset
    BY <1>0, <1>6 DEF Restarts, FetchMoves, F!restart
  <2>1. Shape
    BY <1>6, ShapeHolds DEF Doomed
  <2>2. Shape'
    <3>1. (CoreInv /\ ~Doomed /\ ~fetch.reset)' => Shape'
      BY ShapeHolds, PTL
    <3>2. ~Doomed'
      BY <1>1 DEF Doomed
    <3> QED
      BY <2>0, <3>1, <3>2
  <2>3. align_q' = align_q
    BY <1>0, <1>6, <2>1 DEF FetchMoves, Shape, FrontendTypeOK
  <2>4. Left(0, TRUE) = ipb[0] /\ Left(1, TRUE) = ipb[1]
    BY <1>0, LeftLengths
  <2> DEFINE n0 == Len(ipb[0])
             n1 == Len(ipb[1])
             m0 == Len(ipb'[0])
             m1 == Len(ipb'[1])
  <2>5. /\ n0 = 0 /\ n1 <= 1 /\ (~align_q => n1 = 0) /\ n1 \in Nat
        /\ miss = IF align_q /\ n1 = 0 THEN 1 + odd ELSE IF align_q THEN 1 ELSE 1 + odd
    BY <1>0, <1>2, <2>1, LeftLengths, ShapeTells, MissingTells
  <2>6. align_q <=> odd = 1
    BY <2>1 DEF Shape
  <2>7. Wait = miss + One(fetch.state # "S_PENDING")
        /\ Wait' = later + One(fetch'.state # "S_PENDING")
    BY <1>6, <2>0 DEF Wait
  <2>8. CASE ~(fetch.state = "S_PENDING" /\ fetch'.state # "S_PENDING")
    <3>1. ipb'[0] = ipb[0] /\ ipb'[1] = ipb[1]
      BY <1>6, <2>4, <2>8 DEF FetchMoves, F!restart
    <3>2. ipb' = ipb
      BY <1>0, <3>1 DEF FrontendTypeOK
    <3>3. later = miss
      BY <1>1, <2>3, <3>2, SameIssue
    <3>4. fetch.state = "S_REQUEST" => F!free
      <4>1. n0 < 2 /\ n1 < 2
        BY <2>5
      <4> QED
        BY <4>1 DEF F!free, F!IpbDepth
    <3>5. fetch'.state = "S_PENDING"
      BY <1>2, <2>0, <2>8, <3>4 DEF FetchMoves
    <3>6. Wait = miss + Counted /\ Wait' = later
      <4>1. Wait' = later + 0
        BY <2>7, <3>5 DEF One
      <4>2. One(fetch.state # "S_PENDING") = Counted
        BY <1>3 DEF One
      <4> HIDE DEF later
      <4> QED
        BY <1>2, <2>7, <4>1, <4>2
    <3> HIDE DEF miss, later
    <3> QED
      BY <1>2, <1>3, <3>3, <3>6
  <2>9. CASE fetch.state = "S_PENDING" /\ fetch'.state # "S_PENDING"
    <3>1. m1 = n1 + 1
      BY <1>6, <2>4, <2>9 DEF FetchMoves, F!restart
    <3>2. m0 \in Nat
      <4>1. FrontendTypeOK' => (Len(ipb[0]) \in Nat)'
        BY Lengths, PTL
      <4> QED
        BY <1>0, <4>1
    <3>3. /\ ~align_q => m0 = m1
          /\ align_q => (m0 = 0 /\ m1 = 0) \/ m1 = m0 + 1
      BY <2>2, <2>3 DEF Shape
    <3>4. /\ m0 >= 1 => later = 0
          /\ align_q /\ m1 >= 1 => later <= 1
      <4>1. (FrontendTypeOK /\ Paired /\ Shape /\ Odd \in {0, 1})' =>
              /\ (Len(ipb[0]) >= 1 => Missing = 0)'
              /\ (align_q /\ Len(ipb[1]) >= 1 => Missing <= 1)'
        BY MissingTells, PTL
      <4> QED
        BY <1>0, <1>1, <1>2, <2>2, <2>3, <4>1
    <3>5. Wait = miss + 0 /\ Wait' = later + 1
      BY <2>7, <2>9 DEF One
    <3> HIDE DEF miss, later, odd, n0, n1, m0, m1
    <3>6. CASE ~align_q
      BY <1>2, <1>3, <2>5, <2>9, <3>1, <3>2, <3>3, <3>4, <3>5, <3>6
    <3>7. CASE align_q /\ n1 = 0
      BY <1>2, <1>3, <2>5, <2>6, <2>9, <3>1, <3>2, <3>3, <3>4, <3>5, <3>7
    <3>8. CASE align_q /\ n1 = 1
      BY <1>2, <1>3, <2>5, <2>6, <2>9, <3>1, <3>2, <3>3, <3>4, <3>5, <3>8
    <3> QED
      BY <2>5, <3>6, <3>7, <3>8
  <2> QED
    BY <2>8, <2>9
<1> QED
  BY <1>4, <1>5, <1>6

LEMMA DispatchWaits ==
  ASSUME CoreInv, TrapInv, Room, Moves, FetchMoves(FALSE, TRUE), CoreInv',
         exec.state = "S_DISPATCH", ~TrapsFirst, ~hwtrig, ~F!valid
  PROVE  Remaining' + Counted <= Remaining
<1>0. CoreTypeOK /\ FrontendTypeOK /\ Paired /\ Restarts /\ CoreTypeOK'
  BY DEF CoreInv, CoreTypeOK
<1>1. exec'.state = "S_DISPATCH" /\ Odd' = Odd /\ ControlEdge({}, FALSE) /\ MatchBuffer
  BY DEF Moves, Accepts, Odd
<1>2. Remaining = AtDispatch /\ Remaining' = AtDispatch'
  <2>1. (exec.state = "S_DISPATCH" => Remaining = AtDispatch)'
    BY RemainingIs, PTL
  <2> QED
    BY <1>1, <2>1, RemainingIs
<1>3. /\ debug_run' <=> debug_run
      /\ TrapsFirst' => Level' <= 7 /\ ~debug_run
      /\ ~hwtrig'
  BY <1>1, CalmLevel
<1> DEFINE rest == IF debug_run THEN 0 ELSE 6 + Odd
           odd  == Odd
           w    == Wait
           v    == Wait'
           then == Level'
           clog == One(Clogged)'
<1>4. /\ Remaining = w + rest
      /\ ~TrapsFirst' => Remaining' = v + rest
      /\ TrapsFirst' => Remaining' = then + clog
  BY <1>1, <1>2, <1>3 DEF AtDispatch
<1>5. /\ odd \in {0, 1} /\ then \in Int /\ w \in 0 .. 4 /\ v \in 0 .. 4
      /\ clog \in {0, 1} /\ Counted \in {0, 1}
  <2>1. (Level \in {5, 7, 11} /\ Wait \in 0 .. 4)'
    BY <1>0, Ranges, PTL
  <2> QED
    BY <1>0, <2>1, Ranges DEF One, Counted
<1>6. rest = IF debug_run THEN 0 ELSE 6 + odd
  OBVIOUS
<1>7. CASE ~TrapsFirst'
  <2>1. v + Counted <= w
    BY <1>7, WaitFalls
  <2> HIDE DEF rest, odd, w, v
  <2>2. rest \in Int
    BY <1>5, <1>6
  <2> QED
    BY <1>4, <1>5, <1>7, <2>1, <2>2
<1>8. CASE TrapsFirst'
  <2>1. then <= 7 /\ rest = 6 + odd
    BY <1>3, <1>8
  <2>2. w >= 1 + Counted
    <3>1. Missing \in {1, 1 + Odd}
      BY DEF Missing
    <3>2. fetch.state = "S_PENDING" => Counted = 0
      BY DEF Counted, One
    <3> QED
      BY <1>0, <1>5, <3>1, <3>2, Ranges DEF Wait, One
  <2>3. CASE ~Clogged'
    <3>1. clog = 0
      BY <2>3 DEF One
    <3> HIDE DEF rest, odd, w, then, clog
    <3> QED
      BY <1>4, <1>5, <1>8, <2>1, <2>2, <3>1
  <2>4. CASE Clogged'
    <3>1. ~fetch.reset
      <4>1. fetch.reset => ipb'[0] = <<>> /\ ipb'[1] = <<>>
        BY DEF FetchMoves, F!restart
      <4>2. (ipb[0] = <<>> /\ ipb[1] = <<>>)' => (~Clogged)'
        BY EmptyMisses, PTL
      <4> QED
        BY <2>4, <4>1, <4>2
    <3>2. Shape
      BY <3>1, ShapeHolds DEF Doomed
    <3> DEFINE n0 == Len(ipb[0])
               n1 == Len(ipb[1])
               m0 == Len(ipb'[0])
               m1 == Len(ipb'[1])
    <3>3. n0 = 0 /\ n1 <= 1 /\ (~align_q => n1 = 0) /\ n1 \in Nat
      BY <1>0, <3>2, LeftLengths, ShapeTells
    <3>4. m0 \in Nat /\ m1 \in Nat /\ (m0 >= 2 \/ m1 >= 2)
      <4>1. (FrontendTypeOK /\ Paired /\ Clogged)' => (Len(ipb[0]) >= 2 \/ Len(ipb[1]) >= 2)'
        BY CloggedIs, PTL
      <4>2. FrontendTypeOK' => (Len(ipb[0]) \in Nat /\ Len(ipb[1]) \in Nat)'
        BY Lengths, PTL
      <4> QED
        BY <1>0, <2>4, <4>1, <4>2 DEF CoreTypeOK, CoreInv
    <3>5. Left(0, TRUE) = ipb[0] /\ Left(1, TRUE) = ipb[1]
      BY <1>0, LeftLengths
    <3>6. IF fetch.state = "S_PENDING" /\ fetch'.state # "S_PENDING"
          THEN m1 = n1 + 1 /\ m0 \in {n0, n0 + 1}
          ELSE m0 = n0 /\ m1 = n1
      BY <3>1, <3>5 DEF FetchMoves, F!restart
    <3>7. align_q <=> odd = 1
      BY <3>2 DEF Shape
    <3>8. fetch.state = "S_PENDING" => Counted = 0
      BY DEF Counted, One
    <3> HIDE DEF rest, odd, w, then, clog, n0, n1, m0, m1
    <3>9. fetch.state = "S_PENDING" /\ n1 = 1
      BY <3>3, <3>4, <3>6
    <3>10. Counted = 0 /\ odd = 1
      BY <3>3, <3>7, <3>8, <3>9
    <3> QED
      BY <1>4, <1>5, <1>8, <2>1, <2>2, <3>10
  <2> QED
    BY <2>3, <2>4
<1> QED
  BY <1>7, <1>8

LEMMA TrapEnterRemains ==
  ASSUME CoreInv, TrapInv, Room, Moves, FetchMoves(FALSE, FALSE), CoreTypeOK',
         exec.state = "S_TRAP_ENTER"
  PROVE  Remaining' + Counted <= Remaining
<1>0. CoreTypeOK /\ ControlTypeOK /\ FrontendTypeOK /\ Restarts
  BY DEF CoreInv, CoreTypeOK
<1>1. exec'.state = "S_RESTART" /\ Odd' = 0 /\ ControlEdge({}, FALSE)
  BY DEF Moves, Odd
<1>2. Remaining = AtTrapEnter /\ Remaining' = AtRestart'
  <2>1. (exec.state = "S_RESTART" => Remaining = AtRestart)'
    BY RemainingIs, PTL
  <2> QED
    BY <1>1, <2>1, RemainingIs
<1>3. exc_buf' = {} /\ ~env_pend'
      /\ ("db_halt" \in irq_buf' <=> trig_halt \/ (env_pend /\ "db_halt" \in irq_buf))
  <2>1. PICK raised \in SUBSET SyncExc, ebreak \in BOOLEAN :
          raised = {} /\ ~ebreak /\ ControlEdge(raised, ebreak)
    BY <1>1
  <2> QED
    BY <1>0, <2>1, BuffersAfter DEF env_enter
<1>4. Coming' <=> "db_halt" \in irq_buf'
  BY <1>3 DEF Coming, TrapsFirst, exc_fire
<1>5. debug_run' <=> debug_run \/ cause \in DebugCauses
  BY <1>1 DEF ControlEdge, debug_control, env_enter, env_exit
<1>6. debug_run => ~Coming'
  BY <1>3, <1>4 DEF trig_halt, TrapInv, Halts
<1>7. Level = 7 => debug_run'
  <2> SUFFICES ASSUME ~debug_run, exc_buf \intersect SyncExc = {},
                      exc_buf # {} \/ "db_halt" \in irq_buf
               PROVE  cause \in DebugCauses
    BY <1>5 DEF Level
  <2> QED
    BY <1>0, CauseFacts DEF ControlTypeOK, DebugCauses, CoreTypeOK
<1> DEFINE level == Level
           then  == Level'
           held  == One(Stuck \/ fetch.state = "S_RESTART")
           busy  == One(fetch.state # "S_PENDING")'
           req   == One(fetch.state = "S_REQUEST")'
<1>8. /\ level \in {5, 7, 11} /\ then \in {5, 7, 11}
      /\ held \in {0, 1} /\ busy \in {0, 1} /\ req \in {0, 1} /\ Counted \in {0, 1}
  <2>1. (Level \in {5, 7, 11})'
    BY Ranges, PTL
  <2> QED
    BY <1>0, <2>1, Ranges DEF One, Counted
<1>9. level = 5 <=> debug_run
  BY DEF Level
<1>10. /\ debug_run' => then = 5
       /\ Coming' => then <= 7
  BY <1>3, <1>4 DEF Level
<1>11. Remaining = level - 1 + held
       /\ Remaining' = IF Coming' THEN then + busy ELSE IF debug_run' THEN 3 + req ELSE 9 + req
  <2>1. /\ 3 + req + Odd' = 3 + req
        /\ 9 + req + 2 * Odd' = 9 + req
    <3> HIDE DEF req
    <3> QED
      BY <1>1, <1>8
  <2>2. AtRestart' = IF Coming' THEN then + busy
                     ELSE IF debug_run' THEN 3 + req + Odd' ELSE 9 + req + 2 * Odd'
    BY DEF AtRestart
  <2> QED
    BY <1>2, <2>1, <2>2 DEF AtTrapEnter
<1>12. /\ fetch.state = "S_PENDING" => Counted = 0
       /\ fetch.state # "S_PENDING" => \/ held = 1
                                       \/ busy = 0 /\ req = 0
  <2>1. fetch.state = "S_REQUEST" /\ ~Stuck => fetch'.state = "S_PENDING"
    BY DEF Stuck, FetchMoves
  <2> QED
    BY <1>0, <2>1 DEF One, Counted, FrontendTypeOK, FetchTypes
<1> HIDE DEF level, then, held, busy, req
<1>13. CASE debug_run
  <2>1. level = 5 /\ Remaining' = 3 + req
    BY <1>5, <1>6, <1>9, <1>11, <1>13
  <2> QED
    BY <1>8, <1>11, <1>12, <2>1
<1>14. CASE ~debug_run /\ level = 7
  <2>1. Remaining' = 5 + busy \/ Remaining' = 3 + req
    BY <1>7, <1>10, <1>11, <1>14 DEF level
  <2> QED
    BY <1>8, <1>11, <1>12, <1>14, <2>1
<1>15. CASE ~debug_run /\ level = 11
  <2>1. \/ Remaining' = then + busy /\ then <= 7
        \/ Remaining' = 3 + req
        \/ Remaining' = 9 + req
    BY <1>10, <1>11
  <2> QED
    BY <1>8, <1>11, <1>12, <1>15, <2>1
<1> QED
  BY <1>8, <1>9, <1>13, <1>14, <1>15

\* The monitor of the co-processor.
LEMMA MonitorCounts ==
  ASSUME CoreTypeOK, Room, ControlEdge({}, FALSE), exec.state \in {"S_EXECUTE", "S_ALU_WAIT"}
  PROVE  /\ exec.state = "S_EXECUTE" => monitor_cnt' = 0
         /\ exec.state = "S_ALU_WAIT" /\ Faulted => Faulted'
         /\ exec.state = "S_ALU_WAIT" /\ ~Faulted =>
              \/ Faulted'
              \/ monitor_cnt < 2^MonitorBits /\ monitor_cnt' = monitor_cnt + 1
<1> DEFINE N == 2^MonitorBits
<1>1. N \in Nat \ {0} /\ 2 * N \in Nat \ {0}
      /\ monitor_cnt' = IF exec.state = "S_ALU_WAIT" THEN (monitor_cnt + 1) % (2 * N) ELSE 0
  BY CoreAssumption DEF CoreAssumption, ControlEdge, multi_cycle_monitor
<1>2. monitor_cnt \in Nat
  BY DEF CoreTypeOK, ControlTypeOK
<1>3. PICK raised \in SUBSET SyncExc, ebreak \in BOOLEAN :
        raised = {} /\ ~ebreak /\ ControlEdge(raised, ebreak)
  OBVIOUS
<1>4. exc_buf \subseteq exc_buf' /\ (instr_il => "illegal" \in exc_buf')
  BY <1>3, BuffersAfter DEF env_enter
<1>5. Faulted => Faulted'
  BY <1>4 DEF Faulted
<1>6. ASSUME exec.state = "S_ALU_WAIT", ~Faulted, ~Faulted'
      PROVE  monitor_cnt < N /\ monitor_cnt' = monitor_cnt + 1
  <2>1. ~instr_il
    BY <1>4, <1>6 DEF Faulted, InstrExc
  <2>2. ~(monitor_cnt >= N)
    BY <1>6, <2>1 DEF instr_il
  <2>3. monitor_cnt' = (monitor_cnt + 1) % (2 * N)
    BY <1>1, <1>6
  <2> HIDE DEF N
  <2>4. monitor_cnt < N /\ monitor_cnt + 1 \in Nat /\ monitor_cnt + 1 < 2 * N
    BY <1>1, <1>2, <2>2
  <2>5. (monitor_cnt + 1) % (2 * N) = monitor_cnt + 1
    BY <1>1, <2>4, ModRange
  <2> QED
    BY <2>3, <2>4, <2>5
<1> QED
  BY <1>1, <1>5, <1>6

LEMMA AluRemains ==
  ASSUME CoreInv, Room, Moves, FetchMoves(FALSE, FALSE), CoreInv', exec.state = "S_ALU_WAIT"
  PROVE  Remaining' + Counted <= Remaining
<1>0. CoreTypeOK /\ FrontendTypeOK /\ Paired /\ Restarts /\ CoreTypeOK' /\ FrontendTypeOK'
  BY DEF CoreInv, CoreTypeOK
<1>1. /\ ControlEdge({}, FALSE) /\ generics' = generics
      /\ exec'.state = "S_DISPATCH" \/ (exec'.state = "S_ALU_WAIT" /\ ~Faulted)
  BY DEF Moves
<1> DEFINE N    == 2^MonitorBits
           cnt  == monitor_cnt
           clog == One(Clogged)
           then == One(Clogged)'
           left == AluLeft
           next == AluLeft'
           disp == AtDispatch'
<1>2. N \in Nat \ {0} /\ cnt \in Nat
  BY <1>0, CoreAssumption DEF CoreAssumption, CoreTypeOK, ControlTypeOK
<1>3. ~Faulted => cnt <= N
  BY DEF Room
<1>4. left = IF Faulted THEN 1 ELSE N + 2 - cnt
  BY DEF AluLeft
<1>5. ~Faulted => \/ next = 1
                  \/ cnt < N /\ next = N + 2 - (cnt + 1)
  BY <1>0, <1>1, MonitorCounts DEF AluLeft
<1>6. /\ exec'.state = "S_DISPATCH" => Remaining' = disp
      /\ exec'.state = "S_ALU_WAIT" => Remaining' = 11 + next + then
  <2>1. (/\ exec.state = "S_DISPATCH" => Remaining = AtDispatch
         /\ exec.state = "S_ALU_WAIT" => Remaining = 11 + AluLeft + One(Clogged))'
    BY RemainingIs, PTL
  <2> QED
    BY <2>1
<1>7. Remaining = 11 + left + clog
  BY RemainingIs
<1>8. Clogged' => fetch.state = "S_PENDING" \/ Clogged
  <2> SUFFICES ASSUME Clogged', fetch.state # "S_PENDING" PROVE Clogged
    OBVIOUS
  <2>1. ~fetch.reset /\ fetch.state = "S_REQUEST" /\ fetch'.state = "S_REQUEST"
    BY <1>0 DEF CoreInv, RestartStates, Restarts, Clogged, FrontendTypeOK, FetchTypes
  <2>2. Left(0, FALSE) = ipb[0] /\ Left(1, FALSE) = ipb[1]
    BY <1>0, LeftLengths
  <2>3. ipb'[0] = ipb[0] /\ ipb'[1] = ipb[1]
    BY <2>1, <2>2 DEF FetchMoves, F!restart
  <2>4. ipb' = ipb
    BY <1>0, <2>3 DEF FrontendTypeOK
  <2>5. Shape
    BY <2>1, ShapeHolds DEF Doomed
  <2>6. align_q' = align_q
    BY <1>0, <2>1, <2>5 DEF FetchMoves, Shape, FrontendTypeOK
  <2> QED
    BY <1>1, <2>1, <2>4, <2>6, SameIssue
<1>9. /\ clog \in {0, 1} /\ then \in {0, 1} /\ Counted \in {0, 1}
      /\ then = 1 => Counted = 0 \/ clog = 1
  BY <1>8 DEF One, Counted
<1>10. disp \in 0 .. 12 /\ (then = 0 => disp <= 11)
  <2>1. (CoreTypeOK => AtDispatch \in 0 .. 12 /\ (~Clogged => AtDispatch <= 11))'
    BY Ranges, PTL
  <2>2. Clogged' => then = 1
    BY DEF One
  <2> QED
    BY <1>0, <2>1, <2>2
<1> HIDE DEF N, cnt, clog, then, left, next, disp
<1>11. CASE exec'.state = "S_DISPATCH" /\ Faulted
  BY <1>4, <1>6, <1>7, <1>9, <1>10, <1>11
<1>12. CASE exec'.state = "S_DISPATCH" /\ ~Faulted
  <2>1. left \in Nat /\ left >= 2
    BY <1>2, <1>3, <1>4, <1>12
  <2> QED
    BY <1>6, <1>7, <1>9, <1>10, <1>12, <2>1
<1>13. CASE exec'.state = "S_ALU_WAIT" /\ ~Faulted
  <2>1. left = N + 2 - cnt
    BY <1>4, <1>13
  <2>2. next \in Int /\ left \in Int /\ next + 1 <= left
    BY <1>2, <1>3, <1>5, <1>13, <2>1
  <2> QED
    BY <1>6, <1>7, <1>9, <1>13, <2>2
<1> QED
  BY <1>1, <1>11, <1>12, <1>13

\* A FIFO of the prefetch buffer grows only by what a fetch brings.
LEMMA FifoGrows ==
  ASSUME CoreInv, CoreInv', Room, NEW r \in BOOLEAN, NEW ready \in BOOLEAN, FetchMoves(r, ready),
         NEW i \in {0, 1}
  PROVE  /\ Len(ipb[i]) \in Nat /\ Len(Left(i, ready)) \in Nat /\ Len(ipb'[i]) \in Nat
         /\ Len(Left(i, ready)) <= Len(ipb[i])
         /\ \/ Len(ipb'[i]) <= Len(Left(i, ready))
            \/ /\ fetch.state = "S_PENDING" /\ fetch'.state # "S_PENDING"
               /\ Len(ipb'[i]) <= Len(Left(i, ready)) + 1
         /\ fetch'.state = "S_PENDING" => Len(ipb[i]) <= 1
<1>0. FrontendTypeOK /\ Paired /\ Restarts
  BY DEF CoreInv, CoreTypeOK
<1> DEFINE n == Len(ipb[i])
           l == Len(Left(i, ready))
           m == Len(ipb'[i])
<1>1. n \in Nat /\ l \in Nat /\ (l = n \/ l = n - 1)
  <2>1. /\ Len(ipb[i]) \in Nat /\ Left(i, FALSE) = ipb[i]
        /\ Len(Left(i, TRUE)) \in {Len(ipb[i]), Len(ipb[i]) - 1}
        /\ Len(Left(i, TRUE)) \in Nat
    BY <1>0, LeftLengths
  <2>2. CASE ready
    <3>1. Left(i, ready) = Left(i, TRUE)
      BY <2>2 DEF Left
    <3> QED
      BY <2>1, <3>1
  <2>3. CASE ~ready
    <3>1. Left(i, ready) = ipb[i]
      BY <2>3 DEF Left
    <3> QED
      BY <2>1, <3>1
  <2> QED
    BY <2>2, <2>3
<1>2. m \in Nat
  <2>1. FrontendTypeOK' => (Len(ipb[0]) \in Nat /\ Len(ipb[1]) \in Nat)'
    BY Lengths, PTL
  <2> QED
    BY <2>1 DEF CoreInv, CoreTypeOK
<1>3. \/ m <= l
      \/ fetch.state = "S_PENDING" /\ fetch'.state # "S_PENDING" /\ m <= l + 1
  <2>1. CASE F!restart(r)
    <3>1. ipb'[i] = <<>>
      BY <2>1 DEF FetchMoves
    <3>2. m = 0
      BY <3>1, EmptySeq
    <3> HIDE DEF m, l
    <3> QED
      BY <1>1, <3>2
  <2>2. CASE ~F!restart(r) /\ fetch.state = "S_PENDING" /\ fetch'.state # "S_PENDING"
    <3>1. m = l \/ m = l + 1
      BY <2>2 DEF FetchMoves
    <3> HIDE DEF m, l
    <3> QED
      BY <1>1, <2>2, <3>1
  <2>3. CASE ~F!restart(r) /\ ~(fetch.state = "S_PENDING" /\ fetch'.state # "S_PENDING")
    <3>1. m = l
      BY <2>3 DEF FetchMoves
    <3> HIDE DEF m, l
    <3> QED
      BY <1>1, <3>1
  <2> QED
    BY <2>1, <2>2, <2>3
<1>4. fetch'.state = "S_PENDING" => n <= 1
  <2>1. CASE fetch.state = "S_PENDING"
    BY <2>1 DEF Room
  <2>2. CASE fetch.state # "S_PENDING" /\ fetch'.state = "S_PENDING"
    <3>1. fetch.state = "S_REQUEST" /\ F!free
      BY <1>0, <2>2 DEF FetchMoves, FrontendTypeOK, FetchTypes
    <3>2. n < 2
      BY <3>1 DEF F!free, F!IpbDepth
    <3> HIDE DEF n
    <3> QED
      BY <1>1, <3>2
  <2> QED
    BY <2>1, <2>2
<1>5. n \in Nat /\ l \in Nat /\ m \in Nat /\ l <= n
  <2> HIDE DEF n, l, m
  <2> QED
    BY <1>1, <1>2
<1> QED
  BY <1>3, <1>4, <1>5

\* There stays room.
LEMMA RoomStep ==
  ASSUME CoreInv, CoreInv', Room, Moves, NEW r \in BOOLEAN, FetchMoves(r, if_ready),
         r => exec.state \in {"S_RESTART", "S_BRANCH"}
  PROVE  Room'
<1>0. CoreTypeOK /\ FrontendTypeOK /\ Paired /\ Restarts
  BY DEF CoreInv, CoreTypeOK
<1>1. PICK ready \in BOOLEAN : ready = if_ready
  BY DEF if_ready
<1>2. ASSUME NEW i \in {0, 1}
      PROVE  Len(ipb'[i]) <= IF fetch'.state = "S_PENDING" THEN 1 ELSE 2
  <2> DEFINE n == Len(ipb[i])
             l == Len(Left(i, ready))
             m == Len(ipb'[i])
  <2>1. /\ n \in Nat /\ l \in Nat /\ m \in Nat /\ l <= n
        /\ \/ m <= l
           \/ fetch.state = "S_PENDING" /\ fetch'.state # "S_PENDING" /\ m <= l + 1
        /\ fetch'.state = "S_PENDING" => n <= 1
    BY <1>1, FifoGrows
  <2>2. n <= IF fetch.state = "S_PENDING" THEN 1 ELSE 2
    BY DEF Room
  <2> HIDE DEF n, l, m
  <2>3. m <= IF fetch'.state = "S_PENDING" THEN 1 ELSE 2
    BY <2>1, <2>2
  <2> QED
    BY <2>3 DEF m
<1>3. fetch'.state = "S_REQUEST" => ~fetch'.reset
  BY <1>0 DEF FetchMoves, Room, F!restart, FrontendTypeOK, FetchTypes
<1>4. ASSUME exec'.state = "S_EXECUTE"
      PROVE  \E i \in {0, 1} : Len(ipb'[i]) <= IF fetch'.state = "S_PENDING" THEN 0 ELSE 1
  <2>1. exec.state = "S_DISPATCH" /\ Accepts(F!valid)
    BY <1>0, <1>4 DEF Moves, Accepts, CoreTypeOK, ControlTypeOK, ExecTypes, States
  <2>2. F!valid /\ ready
    BY <1>1, <2>1 DEF Accepts, if_ready
  <2>3. PICK i \in {0, 1} : i = F!first
    BY <1>0, LeftLengths
  <2> DEFINE n == Len(ipb[i])
             l == Len(Left(i, ready))
             m == Len(ipb'[i])
  <2>4. /\ n \in Nat /\ l \in Nat /\ m \in Nat /\ l <= n
        /\ \/ m <= l
           \/ fetch.state = "S_PENDING" /\ fetch'.state # "S_PENDING" /\ m <= l + 1
        /\ fetch'.state = "S_PENDING" => n <= 1
    BY <1>1, FifoGrows
  <2>5. n <= IF fetch.state = "S_PENDING" THEN 1 ELSE 2
    BY DEF Room
  <2>6. l = n - 1
    <3>1. Left(F!first, ready) = Left(F!first, TRUE)
      BY <2>2 DEF Left
    <3>2. Len(Left(F!first, TRUE)) = Len(ipb[F!first]) - 1
      BY <1>0, <2>2, LeftLengths
    <3> QED
      BY <2>3, <3>1, <3>2
  <2> HIDE DEF n, l, m
  <2>7. m <= IF fetch'.state = "S_PENDING" THEN 0 ELSE 1
    BY <2>4, <2>5, <2>6
  <2> QED
    BY <2>7 DEF m
<1>5. ASSUME exec'.state = "S_ALU_WAIT", ~Faulted' PROVE monitor_cnt' <= 2^MonitorBits
  <2>1. exec.state \in {"S_EXECUTE", "S_ALU_WAIT"} /\ ControlEdge({}, FALSE)
        /\ (exec.state = "S_ALU_WAIT" => ~Faulted)
    BY <1>0, <1>5 DEF Moves, Accepts, CoreTypeOK, ControlTypeOK, ExecTypes, States
  <2>2. \/ monitor_cnt' = 0
        \/ monitor_cnt < 2^MonitorBits /\ monitor_cnt' = monitor_cnt + 1
    BY <1>0, <1>5, <2>1, MonitorCounts
  <2> DEFINE N == 2^MonitorBits
  <2>3. N \in Nat /\ monitor_cnt \in Nat
    BY <1>0, CoreAssumption DEF CoreAssumption, CoreTypeOK, ControlTypeOK
  <2>4. monitor_cnt' = 0 \/ (monitor_cnt < N /\ monitor_cnt' = monitor_cnt + 1)
    BY <2>2
  <2> HIDE DEF N
  <2>5. monitor_cnt' <= N
    BY <2>3, <2>4
  <2> QED
    BY <2>5 DEF N
<1>6. ctrl'.lsu_req => exec'.state = "S_MEM_RSP"
  BY DEF Moves
<1> QED
  BY <1>2, <1>3, <1>4, <1>5, <1>6 DEF Room

\* An instruction has begun: the longest way there is to the next one.
LEMMA ExecuteRemains ==
  ASSUME CoreInv, CoreInv', Room, Room', Moves, FetchMoves(FALSE, FALSE), exec.state = "S_EXECUTE"
  PROVE  Remaining' <= 13 + 2^MonitorBits
<1>0. CoreTypeOK /\ CoreTypeOK'
  BY DEF CoreInv
<1> DEFINE N == 2^MonitorBits
<1>1. N \in Nat \ {0}
  BY CoreAssumption DEF CoreAssumption
<1>2. /\ exec'.state = "S_SYSTEM" => Remaining' = 14
      /\ exec'.state \in {"S_TRAP_EXIT", "S_BRANCH", "S_MEM_REQ"} => Remaining' = 13
      /\ exec'.state = "S_RESTART" => Remaining' = AtRestart'
      /\ exec'.state = "S_DISPATCH" => Remaining' = AtDispatch'
      /\ exec'.state = "S_ALU_WAIT" => Remaining' = 11 + AluLeft' + One(Clogged)'
  <2>1. (/\ exec.state = "S_SYSTEM" => Remaining = 14
         /\ exec.state \in {"S_TRAP_EXIT", "S_BRANCH", "S_MEM_REQ"} => Remaining = 13
         /\ exec.state = "S_RESTART" => Remaining = AtRestart
         /\ exec.state = "S_DISPATCH" => Remaining = AtDispatch
         /\ exec.state = "S_ALU_WAIT" => Remaining = 11 + AluLeft + One(Clogged))'
    BY RemainingIs, PTL
  <2> QED
    BY <2>1
<1>3. CASE exec'.state = "S_ALU_WAIT"
  <2>1. ~fetch'.reset /\ ~Doomed'
    BY <1>3 DEF CoreInv, RestartStates, Doomed
  <2>2. Shape'
    <3>1. (CoreInv /\ ~Doomed /\ ~fetch.reset)' => Shape'
      BY ShapeHolds, PTL
    <3> QED
      BY <2>1, <3>1
  <2>3. Len(ipb'[0]) <= 1 \/ Len(ipb'[1]) <= 1
    <3>1. PICK i \in {0, 1} : Len(ipb[i]) <= IF fetch.state = "S_PENDING" THEN 0 ELSE 1
      BY DEF Room
    <3> DEFINE n == Len(ipb[i])
               l == Len(Left(i, FALSE))
               m == Len(ipb'[i])
    <3>2. /\ n \in Nat /\ l \in Nat /\ m \in Nat /\ l <= n
          /\ \/ m <= l
             \/ fetch.state = "S_PENDING" /\ fetch'.state # "S_PENDING" /\ m <= l + 1
      BY FifoGrows
    <3>3. n <= IF fetch.state = "S_PENDING" THEN 0 ELSE 1
      BY <3>1
    <3> HIDE DEF n, l, m
    <3>4. m <= 1
      BY <3>2, <3>3
    <3> QED
      BY <3>4 DEF m
  <2>4. Len(ipb'[0]) <= 2 /\ Len(ipb'[1]) <= 2
    <3>1. ASSUME NEW i \in {0, 1} PROVE Len(ipb'[i]) <= 2
      <4> DEFINE m == Len(ipb'[i])
      <4>1. m \in Nat /\ m <= IF fetch'.state = "S_PENDING" THEN 1 ELSE 2
        BY FifoGrows DEF Room
      <4> HIDE DEF m
      <4>2. m <= 2
        BY <4>1
      <4> QED
        BY <4>2 DEF m
    <3> QED
      BY <3>1
  <2>5. ~Clogged'
    <3>1. (FrontendTypeOK /\ Paired /\ Shape /\ Len(ipb[0]) <= 2 /\ Len(ipb[1]) <= 2
           /\ (Len(ipb[0]) <= 1 \/ Len(ipb[1]) <= 1))' => ~Clogged'
      BY Unclogged, PTL
    <3>2. FrontendTypeOK' /\ Paired'
      BY DEF CoreInv, CoreTypeOK
    <3> QED
      BY <2>2, <2>3, <2>4, <3>1, <3>2
  <2>6. AluLeft' = IF Faulted' THEN 1 ELSE N + 2 - monitor_cnt'
    BY DEF AluLeft
  <2>7. monitor_cnt' = 0
    BY <1>0, MonitorCounts DEF Moves
  <2>8. Remaining' = 11 + AluLeft' + 0
    BY <1>2, <1>3, <2>5 DEF One
  <2> HIDE DEF N
  <2>9. AluLeft' \in Int /\ AluLeft' <= N + 2
    BY <1>1, <2>6, <2>7
  <2> QED
    BY <1>1, <2>8, <2>9 DEF N
<1>4. CASE exec'.state # "S_ALU_WAIT"
  <2>1. AtRestart' \in 0 .. 12 /\ AtDispatch' \in 0 .. 12
    <3>1. CoreTypeOK' => (AtRestart \in 0 .. 12)' /\ (AtDispatch \in 0 .. 12)'
      BY Ranges, PTL
    <3> QED
      BY <1>0, <3>1
  <2>2. Remaining' \in 0 .. 14
    BY <1>2, <1>4, <2>1 DEF Moves
  <2> HIDE DEF N
  <2>3. 14 <= 13 + N
    BY <1>1
  <2>4. 14 <= 13 + 2^MonitorBits
    BY <2>3 DEF N
  <2> DEFINE P == 13 + 2^MonitorBits
  <2>5. P \in Int /\ 14 <= P
    BY <1>1, <2>4 DEF N
  <2> HIDE DEF P
  <2>6. Remaining' <= P
    BY <2>2, <2>5
  <2> QED
    BY <2>6 DEF P
<1> QED
  BY <1>3, <1>4

\* From the other states the way is shorter.
LEMMA OthersRemain ==
  ASSUME CoreTypeOK, CoreTypeOK', Moves,
         exec.state \in {"S_TRAP_EXIT", "S_BRANCH", "S_MEM_REQ", "S_MEM_RSP", "S_SYSTEM", "S_SLEEP"}
  PROVE  /\ exec.state = "S_SLEEP" => Remaining' <= 12
         /\ exec.state # "S_SLEEP" => Remaining' + Counted <= Remaining
<1>1. AtRestart' \in 0 .. 12 /\ AtDispatch' \in 0 .. 12
  <2>1. CoreTypeOK' => (AtRestart \in 0 .. 12)' /\ (AtDispatch \in 0 .. 12)'
    BY Ranges, PTL
  <2> QED
    BY <2>1
<1>2. /\ exec'.state \in {"S_EXECUTE", "S_SLEEP"} => Remaining' = 0
      /\ exec'.state \in {"S_TRAP_EXIT", "S_BRANCH", "S_MEM_REQ"} => Remaining' = 13
      /\ exec'.state = "S_MEM_RSP" => Remaining' = 12
      /\ exec'.state = "S_RESTART" => Remaining' = AtRestart'
      /\ exec'.state = "S_DISPATCH" => Remaining' = AtDispatch'
  <2>1. (/\ exec.state \in {"S_EXECUTE", "S_SLEEP"} => Remaining = 0
         /\ exec.state \in {"S_TRAP_EXIT", "S_BRANCH", "S_MEM_REQ"} => Remaining = 13
         /\ exec.state = "S_MEM_RSP" => Remaining = 12
         /\ exec.state = "S_RESTART" => Remaining = AtRestart
         /\ exec.state = "S_DISPATCH" => Remaining = AtDispatch)'
    BY RemainingIs, PTL
  <2> QED
    BY <2>1
<1>3. Counted \in {0, 1} /\ (exec.state = "S_MEM_RSP" => Counted = 0)
  BY DEF Counted, One
<1> DEFINE left == Remaining
           then == Remaining'
           clk  == Counted
<1>4. CASE exec.state \in {"S_TRAP_EXIT", "S_BRANCH", "S_MEM_REQ"}
  <2>1. left = 13 /\ then \in 0 .. 12 /\ clk \in {0, 1}
    BY <1>1, <1>2, <1>3, <1>4, RemainingIs DEF Moves
  <2> HIDE DEF left, then, clk
  <2>2. then + clk <= left
    BY <2>1
  <2> QED
    BY <1>4, <2>2 DEF left, then, clk
<1>5. CASE exec.state = "S_MEM_RSP"
  <2>1. left = 12 /\ then \in 0 .. 12 /\ clk = 0
    BY <1>1, <1>2, <1>3, <1>5, RemainingIs DEF Moves
  <2> HIDE DEF left, then, clk
  <2>2. then + clk <= left
    BY <2>1
  <2> QED
    BY <1>5, <2>2 DEF left, then, clk
<1>6. CASE exec.state = "S_SYSTEM"
  <2>1. left = 14 /\ then \in 0 .. 13 /\ clk \in {0, 1}
    BY <1>1, <1>2, <1>3, <1>6, RemainingIs DEF Moves
  <2> HIDE DEF left, then, clk
  <2>2. then + clk <= left
    BY <2>1
  <2> QED
    BY <1>6, <2>2 DEF left, then, clk
<1>7. CASE exec.state = "S_SLEEP"
  <2>1. Remaining' \in 0 .. 12
    BY <1>1, <1>2, <1>7 DEF Moves
  <2> QED
    BY <1>7, <2>1
<1> QED
  BY <1>4, <1>5, <1>6, <1>7

LEMMA DispatchRemains ==
  ASSUME CoreInv, CoreInv', TrapInv, Room, Moves, FetchMoves(FALSE, TRUE),
         exec.state = "S_DISPATCH"
  PROVE  Remaining' + Counted <= Remaining
<1>1. CoreTypeOK'
  BY DEF CoreInv
<1>2. CASE TrapsFirst
  BY <1>1, <1>2, DispatchTraps
<1>3. CASE ~TrapsFirst /\ hwtrig
  BY <1>1, <1>3, DispatchHolds
<1>4. CASE ~TrapsFirst /\ ~hwtrig /\ F!valid
  BY <1>1, <1>4, DispatchAccepts DEF Accepts
<1>5. CASE ~TrapsFirst /\ ~hwtrig /\ ~F!valid
  BY <1>5, DispatchWaits
<1> QED
  BY <1>2, <1>3, <1>4, <1>5

LEMMA RemainsSome == CoreTypeOK /\ Room => Remaining \in Nat
<1> SUFFICES ASSUME CoreTypeOK, Room PROVE Remaining \in Nat
  OBVIOUS
<1>1. /\ AtRestart \in 0 .. 12 /\ AtTrapEnter \in 0 .. 11 /\ AtDispatch \in 0 .. 12
      /\ exec.state \in States /\ One(Clogged) \in {0, 1}
  BY Ranges DEF CoreTypeOK, ControlTypeOK, ExecTypes, One
<1>2. exec.state = "S_ALU_WAIT" => AluLeft \in Nat
  <2> DEFINE N == 2^MonitorBits
  <2>1. N \in Nat /\ monitor_cnt \in Nat
    BY CoreAssumption DEF CoreAssumption, CoreTypeOK, ControlTypeOK
  <2>2. exec.state = "S_ALU_WAIT" /\ ~Faulted => monitor_cnt <= N
    BY DEF Room
  <2>3. AluLeft = IF Faulted THEN 1 ELSE N + 2 - monitor_cnt
    BY DEF AluLeft
  <2> HIDE DEF N
  <2> QED
    BY <2>1, <2>2, <2>3
<1> QED
  BY <1>1, <1>2, RemainingIs DEF States

LEMMA IdleInit == ASSUME Init PROVE IdleInv
<1>1. CoreInv
  BY CoreInvInit
<1>2. Room
  <2>1. ipb[0] = <<>> /\ ipb[1] = <<>> /\ exec.state = "S_RESTART" /\ fetch.state = "S_RESTART"
        /\ ~ctrl.lsu_req
    BY DEF Init, ControlInit, F!FrontendInit, ctrl_bus_zero_c
  <2>2. Len(<<>>) = 0
    OBVIOUS
  <2> QED
    BY <2>1, <2>2 DEF Room
<1>3. Remaining = AtRestart /\ idle = 0
  BY RemainingIs DEF Init, ControlInit
<1>4. AtRestart \in 0 .. 12
  BY <1>1, Ranges DEF CoreInv
<1> DEFINE N == 2^MonitorBits
<1>5. N \in Nat /\ MaxIdle = 13 + N
  BY CoreAssumption DEF CoreAssumption, MaxIdle
<1> HIDE DEF N
<1>6. idle + Remaining <= MaxIdle
  BY <1>3, <1>4, <1>5
<1> QED
  BY <1>2, <1>6 DEF IdleInv

LEMMA IdleStutters == ASSUME UNCHANGED vars, IdleInv PROVE IdleInv'
<1> USE DEF vars, controlVars
<1>1. /\ ipb' = ipb /\ align_q' = align_q /\ generics' = generics /\ fetch' = fetch
      /\ exec' = exec /\ idle' = idle /\ debug_run' = debug_run /\ monitor_cnt' = monitor_cnt
      /\ exc_buf' = exc_buf /\ irq_buf' = irq_buf /\ env_pend' = env_pend /\ hwtrig' = hwtrig
      /\ ctrl' = ctrl
  OBVIOUS
<1>2. Odd' = Odd /\ Level' = Level /\ (Coming' <=> Coming) /\ (TrapsFirst' <=> TrapsFirst)
      /\ (Faulted' <=> Faulted) /\ AluLeft' = AluLeft
  BY <1>1 DEF Odd, Level, Coming, TrapsFirst, exc_fire, Faulted, AluLeft
<1>3. Missing' = Missing
  BY <1>1, <1>2, SameIssue
<1>4. Clogged' <=> Clogged
  BY <1>1, SameIssue DEF Clogged
<1>5. Stuck' <=> Stuck
  BY <1>1 DEF Stuck, F!free
<1>6. /\ Wait' = Wait /\ AtTrapEnter' = AtTrapEnter /\ AtRestart' = AtRestart
      /\ One(Clogged)' = One(Clogged)
  BY <1>1, <1>2, <1>3, <1>4, <1>5 DEF Wait, AtTrapEnter, AtRestart, One
<1>7. AtDispatch' = AtDispatch
  BY <1>1, <1>2, <1>6 DEF AtDispatch
<1>8. Remaining' = Remaining
  BY <1>1, <1>2, <1>6, <1>7 DEF Remaining
<1>9. Room'
  BY <1>1, <1>2 DEF Room, IdleInv
<1> QED
  BY <1>1, <1>8, <1>9 DEF IdleInv, MaxIdle

LEMMA IdleStep ==
  ASSUME CoreInv, CoreInv', TrapInv, IdleInv, Next PROVE IdleInv'
<1>0. CoreTypeOK /\ CoreTypeOK' /\ FrontendTypeOK /\ Paired /\ Restarts /\ Room
  BY DEF CoreInv, CoreTypeOK, IdleInv
<1>1. PICK r \in BOOLEAN : Fetches(r)
  BY <1>0, EngineMoves
<1>2. Moves
  BY <1>0, EngineMoves
<1>3. FetchMoves(r, if_ready)
  <2>1. if_ready \in BOOLEAN
    BY DEF if_ready
  <2>2. fetch.state = "S_REQUEST" => ~fetch.reset
    BY <1>0 DEF Room
  <2> QED
    BY <1>0, <1>1, <2>1, <2>2, FetchEdge DEF Fetches
<1>4. Room'
  BY <1>0, <1>1, <1>2, <1>3, RoomStep DEF Fetches
<1>5. /\ exec.state = "S_RESTART" => FetchMoves(TRUE, FALSE)
      /\ exec.state = "S_DISPATCH" => FetchMoves(FALSE, TRUE)
      /\ exec.state \notin {"S_RESTART", "S_DISPATCH", "S_BRANCH"} => FetchMoves(FALSE, FALSE)
  <2>1. exec.state = "S_RESTART" => r = TRUE /\ if_ready = FALSE
    BY <1>1 DEF Fetches, if_ready
  <2>2. exec.state = "S_DISPATCH" => r = FALSE /\ if_ready = TRUE
    BY <1>1 DEF Fetches, if_ready
  <2>3. exec.state \notin {"S_RESTART", "S_DISPATCH", "S_BRANCH"} => r = FALSE /\ if_ready = FALSE
    BY <1>1 DEF Fetches, if_ready
  <2> QED
    BY <1>3, <2>1, <2>2, <2>3
<1>6. exec.state \in States
  BY <1>0 DEF CoreTypeOK, ControlTypeOK, ExecTypes
<1>7. /\ exec.state \notin {"S_EXECUTE", "S_SLEEP"} => Remaining' + Counted <= Remaining
      /\ exec.state \in {"S_EXECUTE", "S_SLEEP"} => Remaining' <= MaxIdle
  <2>1. CASE exec.state = "S_RESTART"
    BY <1>0, <1>2, <1>5, <2>1, RestartRemains
  <2>2. CASE exec.state = "S_DISPATCH"
    BY <1>0, <1>2, <1>5, <2>2, DispatchRemains
  <2>3. CASE exec.state = "S_TRAP_ENTER"
    BY <1>0, <1>2, <1>5, <2>3, TrapEnterRemains
  <2>4. CASE exec.state = "S_ALU_WAIT"
    BY <1>0, <1>2, <1>5, <2>4, AluRemains
  <2>5. CASE exec.state = "S_EXECUTE"
    BY <1>0, <1>2, <1>4, <1>5, <2>5, ExecuteRemains DEF MaxIdle
  <2>6. CASE exec.state = "S_SLEEP"
    <3> DEFINE N == 2^MonitorBits
               then == Remaining'
    <3>1. N \in Nat /\ MaxIdle = 13 + N /\ then <= 12 /\ then \in Int
      <4>1. AtDispatch' \in 0 .. 12
        <5>1. CoreTypeOK' => (AtDispatch \in 0 .. 12)'
          BY Ranges, PTL
        <5> QED
          BY <1>0, <5>1
      <4>2. then = 0 \/ then = AtDispatch'
        <5>1. (/\ exec.state \in {"S_EXECUTE", "S_SLEEP"} => Remaining = 0
               /\ exec.state = "S_DISPATCH" => Remaining = AtDispatch)'
          BY RemainingIs, PTL
        <5> QED
          BY <1>2, <2>6, <5>1 DEF Moves
      <4> QED
        BY <4>1, <4>2, CoreAssumption DEF CoreAssumption, MaxIdle
    <3> HIDE DEF N, then
    <3>2. then <= MaxIdle
      BY <3>1
    <3> QED
      BY <2>6, <3>2 DEF then
  <2>7. CASE exec.state \in {"S_TRAP_EXIT", "S_BRANCH", "S_MEM_REQ", "S_MEM_RSP", "S_SYSTEM"}
    BY <1>0, <1>2, <2>7, OthersRemain
  <2> QED
    BY <1>6, <2>1, <2>2, <2>3, <2>4, <2>5, <2>6, <2>7 DEF States
<1>8. idle' = IF exec.state \in {"S_EXECUTE", "S_SLEEP"} THEN 0 ELSE idle + Counted
  <2>1. idle \in Nat
    BY <1>0 DEF CoreTypeOK
  <2> QED
    BY <1>2, <2>1 DEF Moves, History, Counted, One
<1>9. idle' + Remaining' <= MaxIdle
  <2> DEFINE N    == MaxIdle
             left == Remaining
             then == Remaining'
             clk  == Counted
             new  == idle'
  <2>1. left \in Nat /\ then \in Nat /\ clk \in {0, 1} /\ idle \in Nat /\ N \in Nat
    <3>1. (CoreTypeOK /\ Room => Remaining \in Nat)'
      BY RemainsSome, PTL
    <3>2. N \in Nat
      BY CoreAssumption DEF CoreAssumption, MaxIdle
    <3> QED
      BY <1>0, <1>4, <3>1, <3>2, RemainsSome DEF Counted, One, CoreTypeOK
  <2>2. idle + left <= N
    BY DEF IdleInv
  <2>3. CASE exec.state \in {"S_EXECUTE", "S_SLEEP"}
    <3>1. new = 0 /\ then <= N
      BY <1>7, <1>8, <2>3
    <3> HIDE DEF N, left, then, clk, new
    <3>2. new + then <= N
      BY <2>1, <3>1
    <3> QED
      BY <3>2 DEF new, then, N
  <2>4. CASE exec.state \notin {"S_EXECUTE", "S_SLEEP"}
    <3>1. new = idle + clk /\ then + clk <= left
      BY <1>7, <1>8, <2>4
    <3> HIDE DEF N, left, then, clk, new
    <3>2. new + then <= N
      BY <2>1, <2>2, <3>1
    <3> QED
      BY <3>2 DEF new, then, N
  <2> QED
    BY <2>3, <2>4
<1> QED
  BY <1>4, <1>9 DEF IdleInv, MaxIdle

\* AlwaysGoesOn, for every configuration: between two instructions the hart is never longer
\* than MaxIdle clocks without waiting for a bus.
THEOREM AlwaysGoing == Spec => []AlwaysGoesOn
<1>1. Init => CoreInv /\ Quiet /\ TrapInv /\ IdleInv
  BY CoreInvInit, QuietInit, TrapInvInit, IdleInit
<1>2. CoreInv /\ Quiet /\ TrapInv /\ IdleInv /\ [Next]_vars =>
        CoreInv' /\ Quiet' /\ TrapInv' /\ IdleInv'
  <2> SUFFICES ASSUME CoreInv, Quiet, TrapInv, IdleInv, [Next]_vars
               PROVE  CoreInv' /\ Quiet' /\ TrapInv' /\ IdleInv'
    OBVIOUS
  <2>1. CoreInv'
    BY CoreInvStep
  <2>2. Quiet'
    BY QuietStep DEF CoreInv
  <2>3. TrapInv'
    BY <2>1, <2>2, TrapInvStep
  <2>4. IdleInv'
    BY <2>1, IdleStep, IdleStutters
  <2> QED
    BY <2>1, <2>2, <2>3, <2>4
<1>3. CoreInv /\ IdleInv => AlwaysGoesOn
  <2> SUFFICES ASSUME CoreInv, IdleInv PROVE idle <= MaxIdle
    BY DEF AlwaysGoesOn
  <2> DEFINE left == Remaining
             most == MaxIdle
  <2>1. left \in Nat /\ idle \in Nat /\ most \in Nat /\ idle + left <= most
    BY RemainsSome, CoreAssumption DEF CoreInv, CoreTypeOK, IdleInv, CoreAssumption, MaxIdle
  <2> HIDE DEF left, most
  <2>2. idle <= most
    BY <2>1
  <2> QED
    BY <2>2 DEF most
<1> QED
  BY <1>1, <1>2, <1>3, PTL DEF Spec

================================================================================
