---------------------------------- MODULE Clint ----------------------------------
(***************************************************************************)
(* The timer of the CLINT (neorv32_clint.vhd, neorv32_prim_cnt) and the     *)
(* functions that read and write it two words at a time (neorv32_clint.c).  *)
(* One step is one clock.  The carry into the high word and the comparison  *)
(* of the high words each come one clock after the low words.  The module   *)
(* acknowledges one clock after an access, so that two accesses are never   *)
(* in adjacent clocks; within a function they are at most MaxGap clocks     *)
(* apart, and three of them take less time than the low word to go round.   *)
(***************************************************************************)
EXTENDS Integers, Sequences

CONSTANTS
  LoWords, HiWords,   \* values of a low and of a high word: 2^32 in the code
  Times,              \* the values the program writes
  MaxGap

All == LoWords * HiWords

\* The accesses of a function are so close that the low word does not go round within one.
ASSUME ClintAssumption ==
  /\ LoWords \in Nat /\ HiWords \in Nat \ {0}
  /\ MaxGap \in Nat \ {0} /\ 4 * MaxGap < LoWords
  /\ Times \subseteq 0 .. All - 1

VARIABLES
  count, carry,          \* the counter and its registered carry
  mtimecmp, cmp_lo_ge,   \* the compare register and the comparison of the low words
  mti,                   \* the interrupt
  timer_call,            \* the function in progress
  arg,                   \* its argument
  writes,                \* the register writes it still has to do
  tmp,                   \* the words it has read
  gap,                   \* clocks since the last access
  \* history
  now,                   \* what a 64-bit counter would show
  past,                  \* the count of each of the last two clocks, carries included
  before,                \* the least compare value the interrupt may still go by
  begun,                 \* now when time_get read its first word
  quiet                  \* clocks since the last write of each register, up to 3

timer == <<count, carry, mtimecmp, cmp_lo_ge, mti>>
program == <<timer_call, arg, writes, tmp, gap>>
history == <<now, past, before, begun, quiet>>
clintVars == <<timer, program, history>>

Low(t) == t % LoWords
High(t) == t \div LoWords
Least(a, b) == IF a < b THEN a ELSE b
Value(w) == w.hi * LoWords + w.lo

ClintInit ==
  /\ count = [lo |-> 0, hi |-> 0] /\ carry = 0
  /\ mtimecmp = [lo |-> 0, hi |-> 0] /\ cmp_lo_ge = FALSE /\ mti = FALSE
  /\ timer_call = "none" /\ arg = 0 /\ writes = <<>> /\ tmp = <<>> /\ gap = 1
  /\ now = 0 /\ past = <<0, 0>> /\ before = 0 /\ begun = 0
  /\ quiet = [time |-> 0, compare |-> 0]

-------------------------------------------------------------------------------
(* The module                                                               *)

Idle == [reg |-> "none", word |-> 0]

counter_core(access) ==
  /\ count' = [lo |-> IF access.reg = "MTIME.lo" THEN access.word ELSE (count.lo + 1) % LoWords,
               hi |-> IF access.reg = "MTIME.hi" THEN access.word ELSE (count.hi + carry) % HiWords]
  /\ carry' = (count.lo + 1) \div LoWords

write_access(access) ==
  mtimecmp' = [lo |-> IF access.reg = "MTIMECMP.lo" THEN access.word ELSE mtimecmp.lo,
               hi |-> IF access.reg = "MTIMECMP.hi" THEN access.word ELSE mtimecmp.hi]

\* Mutant: both words are compared in the same clock.
irq_gen_Together ==
  /\ cmp_lo_ge' = (count.lo >= mtimecmp.lo)
  /\ mti' = (Value(count) >= Value(mtimecmp))

irq_gen ==
  /\ cmp_lo_ge' = (count.lo >= mtimecmp.lo)
  /\ mti' = (count.hi > mtimecmp.hi \/ (count.hi = mtimecmp.hi /\ cmp_lo_ge))

Elapse(access) ==
  /\ counter_core(access) /\ write_access(access) /\ irq_gen
  /\ past' = <<(Value(count) + carry * LoWords) % All, past[1]>>
  /\ quiet' = [time |-> IF access.reg \in {"MTIME.lo", "MTIME.hi"} THEN 0 ELSE Least(quiet.time + 1, 3),
               compare |-> IF access.reg \in {"MTIMECMP.lo", "MTIMECMP.hi"} THEN 0 ELSE Least(quiet.compare + 1, 3)]

-------------------------------------------------------------------------------
(* The functions                                                            *)

Set(reg, word) == [reg |-> reg, word |-> word]

\* Mutant: the low word is not held at 0 while the high word is written.
time_set_Plain(t) == <<Set("MTIME.hi", High(t)), Set("MTIME.lo", Low(t))>>

time_set(t) ==
  <<Set("MTIME.lo", 0), Set("MTIME.hi", High(t)), Set("MTIME.lo", Low(t))>>

\* Mutant: the low word is not set to its largest value first.
mtimecmp_set_Plain(t) == <<Set("MTIMECMP.lo", Low(t)), Set("MTIMECMP.hi", High(t))>>

mtimecmp_set(t) ==
  <<Set("MTIMECMP.lo", LoWords - 1), Set("MTIMECMP.hi", High(t)), Set("MTIMECMP.lo", Low(t))>>

Ready == gap > 0

Call ==
  /\ timer_call = "none" /\ Ready
  /\ \/ timer_call' = "time_get" /\ UNCHANGED <<arg, writes, before>>
     \/ /\ \E t \in Times : arg' = t
        /\ \/ timer_call' = "time_set" /\ writes' = time_set(arg') /\ UNCHANGED before
           \/ /\ timer_call' = "mtimecmp_set" /\ writes' = mtimecmp_set(arg')
              /\ before' = Least(before, Value(mtimecmp))
  /\ now' = (now + 1) % All
  /\ Elapse(Idle) /\ UNCHANGED <<tmp, gap, begun>>

Wait ==
  /\ timer_call = "none" \/ gap < MaxGap
  /\ gap' = Least(gap + 1, MaxGap)
  /\ now' = (now + 1) % All
  /\ before' = IF quiet.compare = 3 /\ timer_call # "mtimecmp_set" THEN Value(mtimecmp) ELSE before
  /\ Elapse(Idle) /\ UNCHANGED <<timer_call, arg, writes, tmp, begun>>

WriteWord ==
  /\ writes # <<>> /\ Ready
  /\ writes' = Tail(writes) /\ gap' = 0
  /\ IF writes' = <<>> THEN timer_call' = "none" /\ arg' = 0 ELSE UNCHANGED <<timer_call, arg>>
  /\ now' = IF timer_call = "time_set" /\ writes' = <<>> THEN arg ELSE (now + 1) % All
  /\ Elapse(Head(writes)) /\ UNCHANGED <<tmp, before, begun>>

\* Mutant: the first read of the high word is not compared with the second.
Consistent_Always(tmp3) == TRUE

Consistent(tmp3) == tmp3 = tmp[1]

\* tmp1 = hi, tmp2 = lo, tmp3 = hi, until tmp1 = tmp3
time_get ==
  /\ timer_call = "time_get" /\ Ready
  /\ Elapse(Idle) /\ gap' = 0 /\ now' = (now + 1) % All
  /\ \/ /\ tmp = <<>>
        /\ tmp' = <<count.hi>> /\ begun' = now
        /\ UNCHANGED timer_call
     \/ /\ Len(tmp) = 1
        /\ tmp' = Append(tmp, count.lo)
        /\ UNCHANGED <<timer_call, begun>>
     \/ /\ Len(tmp) = 2
        /\ tmp' = <<>> /\ begun' = 0
        /\ IF Consistent(count.hi) THEN timer_call' = "none" ELSE UNCHANGED timer_call
  /\ UNCHANGED <<arg, writes, before>>

\* What time_get returns with its last read.
Result == [lo |-> tmp[2], hi |-> count.hi]

ClintNext == Call \/ Wait \/ WriteWord \/ time_get

ClintSpec == ClintInit /\ [][ClintNext]_clintVars

-------------------------------------------------------------------------------
Since(t, u) == (u + All - t) % All

\* Outside neorv32_clint_time_set the two words and the carry on its way between them are the
\* time: no carry is lost or counted twice when a time is set just as the low word goes round.
CounterKeepsTime ==
  timer_call # "time_set" => (Value(count) + carry * LoWords) % All = now

\* neorv32_clint_time_get returns a time between its start and its end, although the words are
\* read one after the other and the high word follows the low word a clock late.
TimeReadIsATime ==
  [][timer_call = "time_get" /\ timer_call' = "none" =>
       Since(begun, Value(Result)) <= Since(begun, now)]_clintVars

\* With the registers left alone the interrupt says exactly whether the time of two clocks ago
\* had reached the compare value, carries between the words or not; and while mtimecmp_set is
\* at work it is raised only if the lesser of the old and the new compare value had been
\* reached ("prevent MTIMECMP from temporarily becoming smaller").
InterruptOnTime ==
  quiet.time = 3 =>
    /\ quiet.compare = 3 => mti = (past[2] >= Value(mtimecmp))
    /\ mti => past[2] >= Least(before, IF timer_call = "mtimecmp_set" THEN arg ELSE Value(mtimecmp))
================================================================================
