----------------------------- MODULE Software_proof -----------------------------
(***************************************************************************)
(* What the prover shows of the software: the lock of                       *)
(* demo_dual_core_rte excludes, core 1 is launched as asked, the timer      *)
(* keeps the time, a trap is transparent to the program it interrupts, and  *)
(* the debugger is right about the registers.                               *)
(***************************************************************************)
EXTENDS Spinlock, SmpLaunch, Clint, Rte, DebugModule, TLAPS

-------------------------------------------------------------------------------
(* The lock on amoswap.w excludes, for any set of harts.                    *)

\* A hart that is inside or about to unlock holds the lock: it is taken, and by nobody else.
Holds(h) == lock_at[h] \in {"inside", "unlocking"}

LockTypeOK == spin_locked \in BOOLEAN /\ reserved \in BOOLEAN /\ lock_at \in [Harts -> Places]

Taken == \A h \in Harts : Holds(h) => spin_locked
Alone == \A g, h \in Harts : Holds(g) /\ Holds(h) => g = h

LockInv == LockTypeOK /\ Taken /\ Alone

\* A step moves one hart at most.
LEMMA MovedFacts ==
  ASSUME LockTypeOK, NEW h \in Harts, NEW place \in Places, Go(h, place)
  PROVE  /\ lock_at' \in [Harts -> Places]
         /\ lock_at'[h] = place
         /\ \A g \in Harts : g # h => lock_at'[g] = lock_at[g]
  BY DEF LockTypeOK, Go

\* The initial state satisfies the invariant.
LEMMA LockInitially == LockInit => LockInv
  BY DEF LockInit, LockInv, LockTypeOK, Taken, Alone, Holds, Places

\* Every step keeps it: the one that takes the lock finds it free, so nobody holds it.
LEMMA LockKept == LockInv /\ [LockNext]_lockVars => LockInv'
<1> SUFFICES ASSUME LockInv, [LockNext]_lockVars PROVE LockInv'
  OBVIOUS
<1> USE DEF LockInv
<1>1. CASE UNCHANGED lockVars
  BY <1>1 DEF lockVars, LockTypeOK, Taken, Alone, Holds
<1>2. ASSUME NEW h \in Harts, Work(h) PROVE LockInv'
  BY <1>2 DEF Work, LockTypeOK, Taken, Alone, Holds
<1>3. ASSUME NEW h \in Harts, Want(h) PROVE LockInv'
  <2>1. "locking" \in Places
    BY DEF Places
  <2>2. /\ lock_at' \in [Harts -> Places] /\ lock_at'[h] = "locking"
        /\ \A g \in Harts : g # h => lock_at'[g] = lock_at[g]
    BY <1>3, <2>1, MovedFacts DEF Want
  <2> QED
    BY <1>3, <2>2 DEF Want, LockTypeOK, Taken, Alone, Holds
<1>4. ASSUME NEW h \in Harts, Leave(h) PROVE LockInv'
  <2>1. "unlocking" \in Places
    BY DEF Places
  <2>2. /\ lock_at' \in [Harts -> Places] /\ lock_at'[h] = "unlocking"
        /\ \A g \in Harts : g # h => lock_at'[g] = lock_at[g]
    BY <1>4, <2>1, MovedFacts DEF Leave
  <2> QED
    BY <1>4, <2>2 DEF Leave, LockTypeOK, Taken, Alone, Holds
<1>5. ASSUME NEW h \in Harts, spin_lock(h) PROVE LockInv'
  <2>1. CASE spin_locked
    BY <1>5, <2>1 DEF spin_lock, LockTypeOK, Taken, Alone, Holds
  <2>2. CASE ~spin_locked
    <3>1. "inside" \in Places
      BY DEF Places
    <3>2. /\ lock_at' \in [Harts -> Places] /\ lock_at'[h] = "inside"
          /\ \A g \in Harts : g # h => lock_at'[g] = lock_at[g]
      BY <1>5, <2>2, <3>1, MovedFacts DEF spin_lock
    <3>3. \A g \in Harts : ~Holds(g)
      BY <2>2 DEF Taken
    <3>4. \A g \in Harts : Holds(g)' => g = h
      BY <3>2, <3>3 DEF Holds
    <3> QED
      BY <1>5, <3>2, <3>4 DEF spin_lock, LockTypeOK, Taken, Alone
  <2> QED
    BY <2>1, <2>2
<1>6. ASSUME NEW h \in Harts, spin_unlock(h) PROVE LockInv'
  <2>1. "away" \in Places
    BY DEF Places
  <2>2. /\ lock_at' \in [Harts -> Places] /\ lock_at'[h] = "away"
        /\ \A g \in Harts : g # h => lock_at'[g] = lock_at[g]
    BY <1>6, <2>1, MovedFacts DEF spin_unlock
  <2>3. Holds(h)
    BY <1>6 DEF spin_unlock, Holds
  <2>4. \A g \in Harts : ~Holds(g)'
    BY <2>2, <2>3 DEF Alone, Holds
  <2> QED
    BY <1>6, <2>2, <2>4 DEF spin_unlock, LockTypeOK, Taken, Alone
<1> QED
  BY <1>1, <1>2, <1>3, <1>4, <1>5, <1>6 DEF LockNext

\* Any number of harts, each locking as often as it likes: never two inside.
THEOREM SpinlockExcludes == LockSpec => []ExclusiveAccess
<1>1. LockInv => ExclusiveAccess
  BY DEF LockInv, Alone, ExclusiveAccess, Holds
<1> QED
  BY LockInitially, LockKept, <1>1, PTL DEF LockSpec

-------------------------------------------------------------------------------
(* Any number of launches, of any functions, on any stacks.                 *)

Waking == pc1 \in {"stack", "entry", "clear"}
Arrived == pc1 \in {"main_entry", "main", "halt"} /\ x12 = asked.entry /\ x2 = asked.stack

LaunchTypeOK ==
  /\ pc0 \in {"idle", "lo", "hi", "msi", "poll"} /\ request \in {1, 2}
  /\ pc1 \in {"crt0", "asleep", "stack", "entry", "clear", "main_entry", "main", "halt"}
  /\ code \in {"rom", "elf"} /\ mswi \in BOOLEAN
  /\ asked.entry \in Mains \union {Nothing}
  /\ launch_mtimecmp = [lo |-> launch_mtimecmp.lo, hi |-> launch_mtimecmp.hi]

\* Core 1 reads a request only while the software interrupt is up, and core 0 leaves it alone
\* between the first request and the second.
Requested ==
  /\ Waking => mswi
  /\ request = 2 /\ pc0 \in {"lo", "hi", "msi"} => ~mswi
  /\ launch_rc = 0 => pc0 = "idle"

\* The request that core 0 has left for core 1.
Left ==
  /\ pc0 \in {"hi", "msi", "poll"} => launch_mtimecmp.lo = asked.stack
  /\ pc0 \in {"msi", "poll"} => launch_mtimecmp.hi = IF request = 1 THEN Crt0 ELSE asked.entry

\* As long as core 1 has not come through the start-up code of the program, or is not just
\* about to, core 0 has asked for nothing else.
FromRom ==
  code = "rom" =>
    \/ pc1 = "main_entry" /\ x12 = Crt0
    \/ /\ request = 1 /\ (pc1 \in {"crt0", "asleep"} \/ Waking)
       /\ launch_mtimecmp.hi \in {Nothing, Crt0}
       /\ mswi => launch_mtimecmp.hi = Crt0
       /\ pc0 = "poll" => mswi
       /\ pc1 = "clear" => x12 = Crt0

\* What core 1 has read of the second request.
Second ==
  pc0 = "poll" /\ request = 2 =>
    /\ pc1 \in {"entry", "clear"} => x2 = asked.stack
    /\ pc1 = "clear" => x12 = asked.entry
    /\ ~mswi => Arrived

LaunchInv ==
  LaunchTypeOK /\ Requested /\ Left /\ FromRom /\ Second /\ (launch_rc = 0 => Arrived)

\* The initial state satisfies the invariant.
LEMMA LaunchInitially == LaunchInit => LaunchInv
<1> SUFFICES ASSUME LaunchInit PROVE LaunchInv
  OBVIOUS
<1>1. LaunchTypeOK
  BY DEF LaunchInit, LaunchTypeOK
<1>2. Requested /\ Left /\ FromRom /\ Second /\ launch_rc # 0
  BY DEF LaunchInit, Requested, Left, FromRom, Second, Waking
<1> QED
  BY <1>1, <1>2 DEF LaunchInv

\* A step of core 0 keeps it.
LEMMA Core0Step ==
  ASSUME LaunchInv,
         \/ neorv32_smp_launch \/ SetStack \/ SetEntry \/ neorv32_clint_msi_set
         \/ Acknowledged \/ TimedOut
  PROVE  LaunchInv'
<1> USE DEF LaunchInv, core1
<1>1. CASE neorv32_smp_launch
  <2>1. PICK entry \in Mains, stack \in Stacks : asked' = [entry |-> entry, stack |-> stack]
    BY <1>1 DEF neorv32_smp_launch
  <2>2. asked'.entry \in Mains
    BY <2>1
  <2> QED
    BY <1>1, <2>2 DEF neorv32_smp_launch, LaunchTypeOK, Requested, Left, FromRom, Second,
      Waking, Arrived
<1>2. CASE SetStack
  <2>1. launch_mtimecmp'.lo = asked.stack /\ launch_mtimecmp'.hi = launch_mtimecmp.hi
        /\ launch_mtimecmp' = [lo |-> launch_mtimecmp'.lo, hi |-> launch_mtimecmp'.hi]
    BY <1>2 DEF SetStack, LaunchTypeOK
  <2> QED
    BY <1>2, <2>1 DEF SetStack, LaunchTypeOK, Requested, Left, FromRom, Second, Waking, Arrived
<1>3. CASE SetEntry
  <2>1. launch_mtimecmp'.lo = launch_mtimecmp.lo
        /\ launch_mtimecmp'.hi = (IF request = 1 THEN Crt0 ELSE asked.entry)
        /\ launch_mtimecmp' = [lo |-> launch_mtimecmp'.lo, hi |-> launch_mtimecmp'.hi]
    BY <1>3 DEF SetEntry, LaunchTypeOK
  <2> QED
    BY <1>3, <2>1 DEF SetEntry, LaunchTypeOK, Requested, Left, FromRom, Second, Waking, Arrived
<1>4. CASE neorv32_clint_msi_set
  BY <1>4 DEF neorv32_clint_msi_set, LaunchTypeOK, Requested, Left, FromRom, Second, Waking, Arrived
<1>5. CASE Acknowledged
  BY <1>5 DEF Acknowledged, LaunchTypeOK, Requested, Left, FromRom, Second, Waking, Arrived
<1>6. CASE TimedOut
  BY <1>6 DEF TimedOut, LaunchTypeOK, Requested, Left, FromRom, Second, Waking, Arrived
<1> QED
  BY <1>1, <1>2, <1>3, <1>4, <1>5, <1>6

\* A step of core 1 keeps it. A function is not the start-up code, so core 1 stays where it was
\* sent.
LEMMA Core1Step ==
  ASSUME LaunchInv,
         \/ smp_setup \/ smp_wakeup \/ LoadStack \/ LoadEntry \/ ClearMswi
         \/ main_entry \/ main_exit
  PROVE  LaunchInv'
<1> USE DEF LaunchInv, core0
<1>1. CASE smp_setup
  BY <1>1 DEF smp_setup, LaunchTypeOK, Requested, Left, FromRom, Second, Waking, Arrived
<1>2. CASE smp_wakeup
  BY <1>2 DEF smp_wakeup, LaunchTypeOK, Requested, Left, FromRom, Second, Waking, Arrived
<1>3. CASE LoadStack
  BY <1>3 DEF LoadStack, LaunchTypeOK, Requested, Left, FromRom, Second, Waking, Arrived
<1>4. CASE LoadEntry
  BY <1>4 DEF LoadEntry, LaunchTypeOK, Requested, Left, FromRom, Second, Waking, Arrived
<1>5. CASE ClearMswi
  BY <1>5 DEF ClearMswi, LaunchTypeOK, Requested, Left, FromRom, Second, Waking, Arrived
<1>6. CASE main_entry
  <2>1. asked.entry # Crt0
    BY LaunchAssumption DEF LaunchTypeOK, Nothing, Crt0
  <2> QED
    BY <1>6, <2>1 DEF main_entry, LaunchTypeOK, Requested, Left, FromRom, Second, Waking, Arrived
<1>7. CASE main_exit
  BY <1>7 DEF main_exit, LaunchTypeOK, Requested, Left, FromRom, Second, Waking, Arrived
<1> QED
  BY <1>1, <1>2, <1>3, <1>4, <1>5, <1>6, <1>7

\* However many launches time out in whichever request, and whatever is launched after them.
THEOREM SmpLaunchesAsAsked == LaunchSpec => []LaunchedAsAsked
<1>1. LaunchInv /\ [LaunchNext]_launchVars => LaunchInv'
  <2> SUFFICES ASSUME LaunchInv, [LaunchNext]_launchVars PROVE LaunchInv'
    OBVIOUS
  <2>1. CASE UNCHANGED launchVars
    BY <2>1 DEF launchVars, core0, core1, LaunchInv, LaunchTypeOK, Requested, Left, FromRom,
      Second, Waking,
                Arrived
  <2>2. CASE LaunchNext
    BY <2>2, Core0Step, Core1Step DEF LaunchNext
  <2> QED
    BY <2>1, <2>2
<1>2. LaunchInv => LaunchedAsAsked
  BY DEF LaunchInv, LaunchedAsAsked, LaunchTypeOK, FromRom, Arrived, Waking
<1> QED
  BY LaunchInitially, <1>1, <1>2, PTL DEF LaunchSpec

-------------------------------------------------------------------------------
(* No carry is lost with words of any width, as long as the accesses of a   *)
(* function are close enough to each other.                                 *)

TimerOK ==
  /\ count = [lo |-> count.lo, hi |-> count.hi]
  /\ count.lo \in 0 .. LoWords - 1 /\ count.hi \in 0 .. HiWords - 1
  /\ carry \in {0, 1} /\ (carry = 1 => count.lo = 0)
  /\ now \in 0 .. All - 1 /\ arg \in 0 .. All - 1 /\ gap \in 0 .. MaxGap

\* Only neorv32_clint_time_set writes the time.
Writing ==
  IF timer_call = "time_set"
  THEN writes \in {time_set(arg), Tail(time_set(arg)), Tail(Tail(time_set(arg)))}
  ELSE writes \in {<<>>, mtimecmp_set(arg), Tail(mtimecmp_set(arg)), Tail(Tail(mtimecmp_set(arg)))}

\* Once the low word is at 0 there is no carry until the function has finished, so that
\* the high word stays as it was written.
Held ==
  timer_call = "time_set" =>
    /\ writes = Tail(time_set(arg)) => count.lo <= gap
    /\ writes = Tail(Tail(time_set(arg))) =>
         count.lo <= MaxGap + 1 + gap /\ carry = 0 /\ count.hi = High(arg)

ClintInv == TimerOK /\ Writing /\ Held /\ CounterKeepsTime

LEMMA ModSmall == ASSUME NEW m \in Nat, NEW x \in Nat, x < m PROVE x % m = x
OBVIOUS

LEMMA ModSelf == ASSUME NEW m \in Nat, m > 0 PROVE m % m = 0
OBVIOUS

\* The two words of a time.
LEMMA Words ==
  ASSUME NEW t \in 0 .. All - 1
  PROVE  /\ Low(t) \in 0 .. LoWords - 1 /\ High(t) \in 0 .. HiWords - 1
         /\ High(t) * LoWords + Low(t) = t
<1>1. LoWords \in Nat /\ LoWords > 0 /\ HiWords \in Nat /\ t \in Nat /\ t < LoWords * HiWords
  BY ClintAssumption DEF All
<1>2. t % LoWords \in 0 .. LoWords - 1 /\ t \div LoWords \in Nat
  BY <1>1
<1>3. (t \div LoWords) * LoWords + (t % LoWords) = t
  BY <1>1
<1>4. t \div LoWords < HiWords
  BY <1>1
<1> QED
  BY <1>1, <1>2, <1>3, <1>4 DEF Low, High

\* A clock without a write adds one to the time, whether the low word goes round, or a carry
\* of the clock before arrives, or the whole time goes round.
LEMMA Counts ==
  ASSUME NEW lo \in 0 .. LoWords - 1, NEW hi \in 0 .. HiWords - 1,
         NEW c \in {0, 1}, c = 1 => lo = 0
  PROVE  /\ (lo + 1) % LoWords \in 0 .. LoWords - 1
         /\ (hi + c) % HiWords \in 0 .. HiWords - 1
         /\ (lo + 1) \div LoWords \in {0, 1}
         /\ (lo + 1) \div LoWords = 1 => (lo + 1) % LoWords = 0
         /\ (((hi + c) % HiWords) * LoWords + ((lo + 1) % LoWords)
               + ((lo + 1) \div LoWords) * LoWords) % All
            = (((hi * LoWords + lo + c * LoWords) % All) + 1) % All
<1>1. /\ LoWords \in Nat /\ LoWords > 4 /\ HiWords \in Nat /\ HiWords > 0
      /\ lo \in Nat /\ hi \in Nat /\ c \in Nat
  BY ClintAssumption
<1>2. All \in Nat /\ All = HiWords * LoWords /\ All >= LoWords
  <2>1. All = HiWords * LoWords
    BY <1>1 DEF All
  <2>2. 0 * LoWords + LoWords <= HiWords * LoWords
    BY <1>1
  <2> QED
    BY <1>1, <2>1, <2>2
<1>3. CASE lo + 1 < LoWords /\ hi + c < HiWords
  <2>1. (lo + 1) % LoWords = lo + 1 /\ (lo + 1) \div LoWords = 0 /\ (hi + c) % HiWords = hi + c
    BY <1>1, <1>3
  <2>2. (hi + c) * LoWords + LoWords <= HiWords * LoWords
    BY <1>1, <1>3
  <2>3. (hi + c) * LoWords = hi * LoWords + c * LoWords
        /\ hi * LoWords \in Nat /\ c * LoWords \in Nat
    BY <1>1
  <2>4. hi * LoWords + lo + c * LoWords + 1 < All
    BY <1>1, <1>2, <1>3, <2>2, <2>3
  <2>5. (hi * LoWords + lo + c * LoWords) % All = hi * LoWords + lo + c * LoWords
    BY <1>1, <1>2, <2>3, <2>4, ModSmall
  <2>6. (hi + c) * LoWords + (lo + 1) + 0 * LoWords = hi * LoWords + lo + c * LoWords + 1
    BY <1>1, <2>3
  <2> QED
    BY <1>1, <1>3, <2>1, <2>5, <2>6
<1>4. CASE lo + 1 < LoWords /\ hi + c = HiWords
  <2>1. c = 1 /\ lo = 0 /\ hi + 1 = HiWords
    BY <1>1, <1>4
  <2>2. (lo + 1) % LoWords = 1 /\ (lo + 1) \div LoWords = 0 /\ (hi + c) % HiWords = 0
    BY <1>1, <1>4, <2>1, ModSelf
  <2>3. hi * LoWords + lo + c * LoWords = All
    BY <1>1, <1>2, <2>1
  <2>4. 0 * LoWords + 1 + 0 * LoWords = 1 /\ (All % All) + 1 = 1
    BY <1>1, <1>2, ModSelf
  <2> QED
    BY <1>1, <2>2, <2>3, <2>4
<1>5. CASE lo + 1 = LoWords
  <2>1. c = 0
    BY <1>1, <1>5
  <2>2. /\ (lo + 1) % LoWords = 0 /\ (lo + 1) \div LoWords = 1
        /\ (hi + c) % HiWords = hi
    BY <1>1, <1>5, <2>1, ModSelf
  <2>3. hi * LoWords + LoWords <= HiWords * LoWords /\ hi * LoWords \in Nat
    BY <1>1
  <2>4. (hi * LoWords + lo + 0 * LoWords) % All = hi * LoWords + lo
    BY <1>1, <1>2, <1>5, <2>3, ModSmall
  <2>5. hi * LoWords + 0 + 1 * LoWords = hi * LoWords + lo + 1
    BY <1>1, <1>5, <2>3
  <2> QED
    BY <1>1, <2>1, <2>2, <2>4, <2>5
<1> QED
  BY <1>1, <1>3, <1>4, <1>5

\* A clock in which the program leaves the time alone.
LEMMA TimeGoesOn ==
  ASSUME TimerOK,
         NEW access, access.reg \notin {"MTIME.lo", "MTIME.hi"}, counter_core(access)
  PROVE  /\ count' = [lo |-> count'.lo, hi |-> count'.hi]
         /\ count'.lo \in 0 .. LoWords - 1 /\ count'.hi \in 0 .. HiWords - 1
         /\ carry' \in {0, 1} /\ (carry' = 1 => count'.lo = 0)
         /\ (Value(count') + carry' * LoWords) % All
            = (((Value(count) + carry * LoWords) % All) + 1) % All
         /\ count.lo + 1 < LoWords => count'.lo = count.lo + 1 /\ carry' = 0
         /\ carry = 0 => count'.hi = count.hi
<1>1. count' = [lo |-> (count.lo + 1) % LoWords, hi |-> (count.hi + carry) % HiWords]
      /\ carry' = (count.lo + 1) \div LoWords
  BY DEF counter_core
<1>2. count'.lo = (count.lo + 1) % LoWords /\ count'.hi = (count.hi + carry) % HiWords
  BY <1>1
<1>3. count.lo \in 0 .. LoWords - 1 /\ count.hi \in 0 .. HiWords - 1
      /\ carry \in {0, 1} /\ (carry = 1 => count.lo = 0)
  BY DEF TimerOK
<1>4. count.lo + 1 < LoWords => (count.lo + 1) % LoWords = count.lo + 1
                                /\ (count.lo + 1) \div LoWords = 0
  BY <1>3, ClintAssumption
<1>5. (count.hi + 0) % HiWords = count.hi
  BY <1>3, ClintAssumption
<1> HIDE DEF TimerOK, counter_core
<1>6. /\ count'.lo \in 0 .. LoWords - 1 /\ count'.hi \in 0 .. HiWords - 1
      /\ carry' \in {0, 1} /\ (carry' = 1 => count'.lo = 0)
  BY <1>1, <1>2, <1>3, Counts
<1>7. (Value(count') + carry' * LoWords) % All
      = (((Value(count) + carry * LoWords) % All) + 1) % All
  BY <1>1, <1>2, <1>3, Counts DEF Value
<1> QED
  BY <1>1, <1>2, <1>4, <1>5, <1>6, <1>7

\* The write list of a function, as it gets shorter.
LEMMA WritesWords ==
  ASSUME NEW t
  PROVE  /\ time_set(t) = <<Set("MTIME.lo", 0), Set("MTIME.hi", High(t)), Set("MTIME.lo", Low(t))>>
         /\ Tail(time_set(t)) = <<Set("MTIME.hi", High(t)), Set("MTIME.lo", Low(t))>>
         /\ Tail(Tail(time_set(t))) = <<Set("MTIME.lo", Low(t))>>
         /\ Tail(Tail(Tail(time_set(t)))) = <<>>
         /\ time_set(t) # Tail(time_set(t)) /\ time_set(t) # Tail(Tail(time_set(t)))
         /\ Tail(time_set(t)) # Tail(Tail(time_set(t)))
         /\ <<>> \notin {time_set(t), Tail(time_set(t)), Tail(Tail(time_set(t)))}
         /\ Tail(Tail(Tail(mtimecmp_set(t)))) = <<>>
         /\ Head(mtimecmp_set(t)).reg = "MTIMECMP.lo"
         /\ Head(Tail(mtimecmp_set(t))).reg = "MTIMECMP.hi"
         /\ Head(Tail(Tail(mtimecmp_set(t)))).reg = "MTIMECMP.lo"
<1>1. \A a, b, c : Tail(<<a, b, c>>) = <<b, c>> /\ Tail(<<b, c>>) = <<c>> /\ Tail(<<c>>) = <<>>
  OBVIOUS
<1>2. \A a, b, c : <<a, b, c>> # <<b, c>> /\ <<a, b, c>> # <<c>> /\ <<b, c>> # <<c>>
  OBVIOUS
<1>3. \A a, b, c : <<a, b, c>> # <<>> /\ <<b, c>> # <<>> /\ <<c>> # <<>>
  OBVIOUS
<1>4. /\ Tail(time_set(t)) = <<Set("MTIME.hi", High(t)), Set("MTIME.lo", Low(t))>>
      /\ Tail(Tail(time_set(t))) = <<Set("MTIME.lo", Low(t))>>
      /\ Tail(Tail(Tail(time_set(t)))) = <<>>
  BY <1>1 DEF time_set
<1>5. /\ Tail(mtimecmp_set(t)) = <<Set("MTIMECMP.hi", High(t)), Set("MTIMECMP.lo", Low(t))>>
      /\ Tail(Tail(mtimecmp_set(t))) = <<Set("MTIMECMP.lo", Low(t))>>
      /\ Tail(Tail(Tail(mtimecmp_set(t)))) = <<>>
  BY <1>1 DEF mtimecmp_set
<1>6. /\ Head(mtimecmp_set(t)).reg = "MTIMECMP.lo"
      /\ Head(Tail(mtimecmp_set(t))).reg = "MTIMECMP.hi"
      /\ Head(Tail(Tail(mtimecmp_set(t)))).reg = "MTIMECMP.lo"
  BY <1>5 DEF mtimecmp_set, Set
<1> QED
  BY <1>2, <1>3, <1>4, <1>5, <1>6 DEF time_set

\* Everything is at 0.
LEMMA ClintInitially == ASSUME ClintInit PROVE ClintInv
<1>1. /\ LoWords \in Nat /\ LoWords > 0 /\ HiWords \in Nat /\ HiWords > 0
      /\ MaxGap \in Nat /\ MaxGap >= 1
  BY ClintAssumption
<1>2. All \in Nat /\ All > 0
  BY <1>1 DEF All
<1>3. TimerOK
  BY <1>1, <1>2 DEF ClintInit, TimerOK
<1>4. Writing /\ Held
  BY DEF ClintInit, Writing, Held
<1>5. Value(count) + carry * LoWords = 0 /\ now = 0 /\ 0 % All = 0
  BY <1>1, <1>2 DEF ClintInit, Value
<1> QED
  BY <1>3, <1>4, <1>5 DEF ClintInv, CounterKeepsTime

\* While neorv32_clint_time_set waits for its next access, the low word follows the clock and
\* does not go round.
LEMMA HeldGoesOn ==
  ASSUME ClintInv, timer_call = "time_set", counter_core(Idle),
         gap < MaxGap, gap' = gap + 1, UNCHANGED <<timer_call, arg, writes>>
  PROVE  Held'
<1>1. MaxGap \in Nat /\ MaxGap >= 1 /\ LoWords \in Nat /\ 4 * MaxGap < LoWords
      /\ gap \in 0 .. MaxGap /\ count.lo \in 0 .. LoWords - 1
  BY ClintAssumption DEF ClintInv, TimerOK
<1>2. Idle.reg \notin {"MTIME.lo", "MTIME.hi"}
  BY DEF Idle
<1>3. /\ count.lo + 1 < LoWords => count'.lo = count.lo + 1 /\ carry' = 0
      /\ carry = 0 => count'.hi = count.hi
  BY <1>2, TimeGoesOn DEF ClintInv
<1>4. ASSUME writes = Tail(time_set(arg)) PROVE count'.lo <= gap'
  <2>1. count.lo <= gap
    BY <1>4 DEF ClintInv, Held
  <2> QED
    BY <1>1, <1>3, <2>1
<1>5. ASSUME writes = Tail(Tail(time_set(arg)))
      PROVE  count'.lo <= MaxGap + 1 + gap' /\ carry' = 0 /\ count'.hi = High(arg)
  <2>1. count.lo <= MaxGap + 1 + gap /\ carry = 0 /\ count.hi = High(arg)
    BY <1>5 DEF ClintInv, Held
  <2> QED
    BY <1>1, <1>3, <2>1
<1>6. (time_set(arg))' = time_set(arg) /\ (High(arg))' = High(arg)
  BY DEF time_set, High, Low
<1> QED
  BY <1>4, <1>5, <1>6 DEF Held

\* A clock in which the time is not written keeps the types, and the time.
LEMMA KeepsTypes ==
  ASSUME ClintInv,
         NEW access, access.reg \notin {"MTIME.lo", "MTIME.hi"}, counter_core(access),
         now' = (now + 1) % All, arg' \in 0 .. All - 1, gap' \in 0 .. MaxGap
  PROVE  TimerOK'
<1>1. All \in Nat /\ All > 0
  BY ClintAssumption DEF All
<1>2. now \in 0 .. All - 1 /\ (now + 1) % All \in 0 .. All - 1
  BY <1>1 DEF ClintInv, TimerOK
<1> QED
  BY <1>2, TimeGoesOn DEF ClintInv, TimerOK

LEMMA KeepsCounting ==
  ASSUME ClintInv, timer_call # "time_set",
         NEW access, access.reg \notin {"MTIME.lo", "MTIME.hi"}, counter_core(access),
         now' = (now + 1) % All
  PROVE  CounterKeepsTime'
<1>1. (Value(count) + carry * LoWords) % All = now
  BY DEF ClintInv, CounterKeepsTime
<1>2. (Value(count') + carry' * LoWords) % All = now'
  BY <1>1, TimeGoesOn DEF ClintInv
<1>3. (Value(count))' = Value(count')
  BY DEF Value
<1> QED
  BY <1>2, <1>3 DEF CounterKeepsTime

\* The lists of the functions depend on the argument only.
LEMMA SameWrites ==
  ASSUME UNCHANGED <<timer_call, arg, writes>>, Writing PROVE Writing'
BY DEF Writing, time_set, mtimecmp_set, High, Low

LEMMA CallStep == ASSUME ClintInv, Call PROVE ClintInv'
<1>1. Idle.reg \notin {"MTIME.lo", "MTIME.hi"}
  BY DEF Idle
<1>2. counter_core(Idle) /\ now' = (now + 1) % All /\ gap' = gap /\ timer_call = "none"
  BY DEF Call, Elapse
<1>3. arg' \in 0 .. All - 1 /\ gap' \in 0 .. MaxGap
  BY <1>2, ClintAssumption DEF Call, ClintInv, TimerOK
<1>4. TimerOK' /\ CounterKeepsTime'
  BY <1>1, <1>2, <1>3, KeepsTypes, KeepsCounting
<1>5. Writing' /\ Held'
  <2>1. CASE timer_call' = "time_get" /\ UNCHANGED <<arg, writes>>
    <3>1. writes \in {<<>>, mtimecmp_set(arg), Tail(mtimecmp_set(arg)),
                      Tail(Tail(mtimecmp_set(arg)))}
      BY <1>2 DEF ClintInv, Writing
    <3>2. (mtimecmp_set(arg))' = mtimecmp_set(arg)
      BY <2>1 DEF mtimecmp_set, High, Low
    <3> QED
      BY <2>1, <3>1, <3>2 DEF Writing, Held
  <2>2. CASE timer_call' = "time_set" /\ writes' = time_set(arg')
    <3>1. (time_set(arg))' = time_set(arg')
      BY DEF time_set, High, Low
    <3>2. time_set(arg') # Tail(time_set(arg')) /\ time_set(arg') # Tail(Tail(time_set(arg')))
      BY WritesWords
    <3> QED
      BY <2>2, <3>1, <3>2 DEF Writing, Held
  <2>3. CASE timer_call' = "mtimecmp_set" /\ writes' = mtimecmp_set(arg')
    <3>1. (mtimecmp_set(arg))' = mtimecmp_set(arg')
      BY DEF mtimecmp_set, High, Low
    <3> QED
      BY <2>3, <3>1 DEF Writing, Held
  <2> QED
    BY <2>1, <2>2, <2>3 DEF Call
<1> QED
  BY <1>4, <1>5 DEF ClintInv

LEMMA WaitStep == ASSUME ClintInv, Wait PROVE ClintInv'
<1>1. Idle.reg \notin {"MTIME.lo", "MTIME.hi"}
  BY DEF Idle
<1>2. /\ counter_core(Idle) /\ now' = (now + 1) % All
      /\ UNCHANGED <<timer_call, arg, writes>> /\ (timer_call = "none" \/ gap < MaxGap)
      /\ gap' = IF gap + 1 < MaxGap THEN gap + 1 ELSE MaxGap
  BY DEF Wait, Elapse, Least
<1>3. gap \in 0 .. MaxGap /\ MaxGap \in Nat /\ arg \in 0 .. All - 1
  BY ClintAssumption DEF ClintInv, TimerOK
<1>4. gap' \in 0 .. MaxGap /\ (gap < MaxGap => gap' = gap + 1)
  BY <1>2, <1>3
<1>5. TimerOK'
  BY <1>1, <1>2, <1>3, <1>4, KeepsTypes
<1>6. Writing'
  BY <1>2, SameWrites DEF ClintInv
<1>7. CASE timer_call = "time_set"
  <2>1. Held'
    BY <1>2, <1>4, <1>7, HeldGoesOn
  <2> QED
    BY <1>2, <1>5, <1>6, <1>7, <2>1 DEF ClintInv, CounterKeepsTime
<1>8. CASE timer_call # "time_set"
  <2>1. CounterKeepsTime'
    BY <1>1, <1>2, <1>8, KeepsCounting
  <2> QED
    BY <1>2, <1>5, <1>6, <1>8, <2>1 DEF ClintInv, Held
<1> QED
  BY <1>7, <1>8

LEMMA ReadStep == ASSUME ClintInv, time_get PROVE ClintInv'
<1>1. Idle.reg \notin {"MTIME.lo", "MTIME.hi"}
  BY DEF Idle
<1>2. /\ counter_core(Idle) /\ now' = (now + 1) % All /\ gap' = 0
      /\ UNCHANGED <<arg, writes>> /\ timer_call = "time_get"
      /\ timer_call' \in {"none", "time_get"}
  BY DEF time_get, Elapse
<1>3. arg' \in 0 .. All - 1 /\ gap' \in 0 .. MaxGap
  BY <1>2, ClintAssumption DEF ClintInv, TimerOK
<1>4. TimerOK' /\ CounterKeepsTime'
  BY <1>1, <1>2, <1>3, KeepsTypes, KeepsCounting
<1>5. (mtimecmp_set(arg))' = mtimecmp_set(arg)
  BY <1>2 DEF mtimecmp_set, High, Low
<1>6. Writing' /\ Held'
  BY <1>2, <1>5 DEF ClintInv, Writing, Held
<1> QED
  BY <1>4, <1>6 DEF ClintInv

\* An access of neorv32_clint_mtimecmp_set, which leaves the time alone.
LEMMA CompareStep ==
  ASSUME ClintInv, WriteWord, timer_call # "time_set" PROVE ClintInv'
<1>1. /\ writes' = Tail(writes) /\ writes # <<>> /\ gap' = 0 /\ counter_core(Head(writes))
      /\ now' = (now + 1) % All
      /\ IF writes' = <<>> THEN timer_call' = "none" /\ arg' = 0 ELSE UNCHANGED <<timer_call, arg>>
  BY DEF WriteWord, Elapse
<1>2. writes \in {mtimecmp_set(arg), Tail(mtimecmp_set(arg)), Tail(Tail(mtimecmp_set(arg)))}
  BY <1>1 DEF ClintInv, Writing
<1>3. Head(writes).reg \notin {"MTIME.lo", "MTIME.hi"}
  BY <1>2, WritesWords
<1>4. arg' \in 0 .. All - 1 /\ gap' \in 0 .. MaxGap
  <2>1. All \in Nat /\ All > 0 /\ MaxGap \in Nat
    BY ClintAssumption DEF All
  <2> QED
    BY <1>1, <2>1 DEF ClintInv, TimerOK
<1>5. TimerOK' /\ CounterKeepsTime'
  BY <1>1, <1>3, <1>4, KeepsTypes, KeepsCounting
<1>6. timer_call' # "time_set"
  BY <1>1
<1>7. Writing'
  <2>1. CASE writes' = <<>>
    BY <1>6, <2>1 DEF Writing
  <2>2. CASE writes' # <<>>
    <3>1. writes' \in {Tail(mtimecmp_set(arg)), Tail(Tail(mtimecmp_set(arg)))}
      BY <1>1, <1>2, <2>2, WritesWords
    <3>2. (mtimecmp_set(arg))' = mtimecmp_set(arg)
      BY <1>1, <2>2 DEF mtimecmp_set, High, Low
    <3> QED
      BY <1>6, <3>1, <3>2 DEF Writing
  <2> QED
    BY <2>1, <2>2
<1> QED
  BY <1>5, <1>6, <1>7 DEF ClintInv, Held

\* The three accesses of neorv32_clint_time_set: 0 into the low word, which keeps the high word
\* from being counted up until it is written, then both words.
LEMMA TimeStep ==
  ASSUME ClintInv, WriteWord, timer_call = "time_set" PROVE ClintInv'
<1>1. /\ writes' = Tail(writes) /\ gap' = 0 /\ counter_core(Head(writes))
      /\ IF writes' = <<>> THEN timer_call' = "none" /\ arg' = 0 ELSE UNCHANGED <<timer_call, arg>>
      /\ now' = IF writes' = <<>> THEN arg ELSE (now + 1) % All
  BY DEF WriteWord, Elapse
<1>2. /\ LoWords \in Nat /\ HiWords \in Nat /\ HiWords > 0 /\ MaxGap \in Nat /\ MaxGap >= 1
      /\ 4 * MaxGap < LoWords /\ All \in Nat /\ All > 0
  BY ClintAssumption DEF All
<1>3. /\ count.lo \in 0 .. LoWords - 1 /\ count.hi \in 0 .. HiWords - 1 /\ carry \in {0, 1}
      /\ now \in 0 .. All - 1 /\ arg \in 0 .. All - 1 /\ gap \in 0 .. MaxGap
      /\ carry = 1 => count.lo = 0
  BY DEF ClintInv, TimerOK
<1>4. Low(arg) \in 0 .. LoWords - 1 /\ High(arg) \in 0 .. HiWords - 1
      /\ High(arg) * LoWords + Low(arg) = arg
  BY <1>3, Words
<1>5. writes \in {time_set(arg), Tail(time_set(arg)), Tail(Tail(time_set(arg)))}
  BY DEF ClintInv, Writing
<1>6. /\ (count.lo + 1) \div LoWords \in {0, 1} /\ (count.hi + carry) % HiWords \in 0 .. HiWords - 1
      /\ (now + 1) % All \in 0 .. All - 1
  BY <1>2, <1>3, Counts
<1>7. count.lo + 1 < LoWords => (count.lo + 1) \div LoWords = 0
  BY <1>2, <1>3
<1>8. ASSUME UNCHANGED <<timer_call, arg>>
      PROVE  (time_set(arg))' = time_set(arg) /\ (High(arg))' = High(arg)
  BY <1>8 DEF time_set, High, Low
<1>9. CASE writes = time_set(arg)
  <2>1. Head(writes) = Set("MTIME.lo", 0) /\ writes' = Tail(time_set(arg)) /\ writes' # <<>>
    BY <1>1, <1>9, WritesWords
  <2>2. /\ count' = [lo |-> 0, hi |-> (count.hi + carry) % HiWords]
        /\ carry' = (count.lo + 1) \div LoWords
    BY <1>1, <2>1 DEF counter_core, Set
  <2>3. TimerOK'
    BY <1>1, <1>2, <1>3, <1>6, <2>1, <2>2 DEF TimerOK
  <2>4. Writing' /\ CounterKeepsTime'
    BY <1>1, <1>8, <2>1 DEF Writing, CounterKeepsTime
  <2>5. count'.lo <= gap' /\ writes' # Tail(Tail(time_set(arg)))
    BY <1>1, <2>1, <2>2, WritesWords
  <2>6. Held'
    BY <1>1, <1>8, <2>1, <2>5 DEF Held
  <2> QED
    BY <2>3, <2>4, <2>6 DEF ClintInv
<1>10. CASE writes = Tail(time_set(arg))
  <2>1. /\ Head(writes) = Set("MTIME.hi", High(arg)) /\ writes' = Tail(Tail(time_set(arg)))
        /\ writes' # <<>>
    BY <1>1, <1>10, WritesWords
  <2>2. count.lo <= gap /\ count.lo + 1 < LoWords
    BY <1>2, <1>3, <1>10 DEF ClintInv, Held
  <2>3. (count.lo + 1) % LoWords = count.lo + 1
    BY <1>2, <1>3, <2>2
  <2>4. count' = [lo |-> count.lo + 1, hi |-> High(arg)] /\ carry' = 0
    BY <1>1, <1>7, <2>1, <2>2, <2>3 DEF counter_core, Set
  <2>5. TimerOK'
    <3>1. now' \in 0 .. All - 1 /\ arg' \in 0 .. All - 1 /\ gap' \in 0 .. MaxGap
      BY <1>1, <1>2, <1>3, <1>6, <2>1
    <3>2. count'.lo \in 0 .. LoWords - 1 /\ count'.hi \in 0 .. HiWords - 1
      BY <1>2, <1>3, <1>4, <2>2, <2>4
    <3> QED
      BY <2>4, <3>1, <3>2 DEF TimerOK
  <2>6. Writing' /\ CounterKeepsTime'
    BY <1>1, <1>8, <2>1 DEF Writing, CounterKeepsTime
  <2>7. /\ count'.lo <= MaxGap + 1 + gap' /\ carry' = 0 /\ count'.hi = High(arg)
        /\ writes' # Tail(time_set(arg))
    <3>1. writes' # Tail(time_set(arg))
      BY <2>1, WritesWords
    <3>2. count'.lo <= MaxGap + 1 + gap'
      BY <1>1, <1>2, <1>3, <2>2, <2>4
    <3> QED
      BY <2>4, <3>1, <3>2
  <2>8. Held'
    BY <1>1, <1>8, <2>1, <2>7 DEF Held
  <2> QED
    BY <2>5, <2>6, <2>8 DEF ClintInv
<1>11. CASE writes = Tail(Tail(time_set(arg)))
  <2>1. Head(writes) = Set("MTIME.lo", Low(arg)) /\ writes' = <<>>
    <3>1. writes = <<Set("MTIME.lo", Low(arg))>> /\ Tail(Tail(Tail(time_set(arg)))) = <<>>
      BY <1>11, WritesWords
    <3>2. writes' = <<>>
      BY <1>1, <1>11, <3>1
    <3>3. Head(writes) = Set("MTIME.lo", Low(arg))
      BY <3>1
    <3> QED
      BY <3>2, <3>3
  <2>2. carry = 0 /\ count.hi = High(arg) /\ count.lo + 1 < LoWords
    <3>1. writes = Tail(Tail(time_set(arg))) =>
            count.lo <= MaxGap + 1 + gap /\ carry = 0 /\ count.hi = High(arg)
      BY DEF ClintInv, Held
    <3> QED
      BY <1>2, <1>3, <1>11, <3>1
  <2>3. (count.hi + carry) % HiWords = High(arg)
    BY <1>2, <1>3, <2>2
  <2>4. count' = [lo |-> Low(arg), hi |-> High(arg)] /\ carry' = 0
    BY <1>1, <1>7, <2>1, <2>2, <2>3 DEF counter_core, Set
  <2>5. now' = arg /\ timer_call' = "none" /\ arg' = 0
    BY <1>1, <2>1
  <2>6. TimerOK'
    BY <1>1, <1>2, <1>3, <1>4, <2>4, <2>5 DEF TimerOK
  <2>7. (Value(count))' + carry' * LoWords = arg
    BY <1>2, <1>4, <2>4 DEF Value
  <2>8. arg % All = arg
    BY <1>2, <1>3, ModSmall
  <2>9. CounterKeepsTime'
    BY <2>5, <2>7, <2>8 DEF CounterKeepsTime
  <2> QED
    BY <2>1, <2>5, <2>6, <2>9 DEF ClintInv, Writing, Held
<1> QED
  BY <1>5, <1>9, <1>10, <1>11

\* A clock keeps the invariant.
LEMMA ClintStep == ClintInv /\ [ClintNext]_clintVars => ClintInv'
<1> SUFFICES ASSUME ClintInv, [ClintNext]_clintVars PROVE ClintInv'
  OBVIOUS
<1>1. CASE UNCHANGED clintVars
  <2>1. UNCHANGED <<count, carry, now, arg, gap, timer_call, writes>>
    BY <1>1 DEF clintVars, timer, program, history
  <2>2. Writing' /\ TimerOK'
    BY <2>1, SameWrites DEF ClintInv, TimerOK
  <2>3. Held' /\ CounterKeepsTime'
    BY <2>1 DEF ClintInv, Held, CounterKeepsTime, Value, time_set, High, Low
  <2> QED
    BY <2>2, <2>3 DEF ClintInv
<1>2. CASE ClintNext
  BY <1>2, CallStep, WaitStep, ReadStep, CompareStep, TimeStep DEF ClintNext
<1> QED
  BY <1>1, <1>2

\* The time is kept by words of any width, whatever times the program sets and whenever, if four
\* times the distance between two accesses of a function is less than the low word counts.
THEOREM ClintKeepsTime == ClintSpec => []CounterKeepsTime
<1>1. ClintInv => CounterKeepsTime
  BY DEF ClintInv
<1> QED
  BY ClintInitially, ClintStep, <1>1, PTL DEF ClintSpec

\* What neorv32_clint_time_get has read so far, of a time that was begun when it read the first
\* word: the high word lags behind the time by a carry that has not arrived, and only when the
\* low word has just gone round.
Begun ==
  /\ begun \in 0 .. All - 1 /\ tmp[1] \in 0 .. HiWords - 1
  /\ \E c \in {0, 1} : (c = 1 => Low(begun) = 0) /\ (tmp[1] + c) % HiWords = High(begun)

Reading ==
  /\ tmp \in Seq(Nat) /\ (timer_call # "time_get" => tmp = <<>>)
  /\ tmp # <<>> =>
       /\ Len(tmp) \in {1, 2} /\ Begun
       /\ Len(tmp) = 1 => now = (begun + gap + 1) % All
       /\ Len(tmp) = 2 => \E e \in 1 .. MaxGap + 1 :
                            /\ tmp[2] = (begun + e) % LoWords
                            /\ now = (begun + e + gap + 1) % All

\* Who writes is in one of the two functions that do.
Writers ==
  /\ timer_call \in {"none", "time_get", "time_set", "mtimecmp_set"}
  /\ timer_call \in {"none", "time_get"} => writes = <<>>

ReadInv == ClintInv /\ Writers /\ Reading

\* Remainders, once round and one further.
LEMMA ModOnce == ASSUME NEW m \in Nat, NEW x \in Nat, m <= x, x < 2 * m PROVE x % m = x - m
<1>1. m > 0 /\ x - m \in 0 .. m - 1
  OBVIOUS
<1>2. x = m * 1 + (x - m)
  OBVIOUS
<1> QED
  BY <1>1, <1>2

LEMMA ModNext ==
  ASSUME NEW m \in Nat, NEW x \in Nat, x + 1 < 2 * m PROVE ((x % m) + 1) % m = (x + 1) % m
<1>1. CASE x + 1 < m
  BY <1>1, ModSmall
<1>2. CASE x + 1 = m
  <2>1. x % m = x
    BY <1>2, ModSmall
  <2> QED
    BY <1>2, <2>1
<1>3. CASE x + 1 > m
  <2>1. m <= x /\ x < 2 * m /\ m <= x + 1 /\ x + 1 \in Nat
    BY <1>3
  <2>2. x % m = x - m /\ (x + 1) % m = (x + 1) - m
    BY <2>1, ModOnce
  <2>3. (x - m) + 1 \in Nat /\ (x - m) + 1 < m
    BY <1>3
  <2>4. ((x - m) + 1) % m = (x - m) + 1
    BY <2>3, ModSmall
  <2> QED
    BY <2>4, <2>2
<1> QED
  BY <1>1, <1>2, <1>3

\* The constants as the arithmetic needs them.
LEMMA ClintNumbers ==
  /\ LoWords \in Nat /\ HiWords \in Nat /\ HiWords > 0 /\ MaxGap \in Nat /\ MaxGap >= 1
  /\ 4 * MaxGap < LoWords /\ All \in Nat /\ All = HiWords * LoWords /\ All >= LoWords
  /\ All = LoWords * HiWords
<1>1. /\ LoWords \in Nat /\ HiWords \in Nat /\ HiWords > 0 /\ MaxGap \in Nat /\ MaxGap >= 1
      /\ 4 * MaxGap < LoWords
  BY ClintAssumption
<1>2. All \in Nat /\ All = LoWords * HiWords /\ All = HiWords * LoWords
  BY <1>1 DEF All
<1>3. 0 * LoWords + LoWords <= HiWords * LoWords
  BY <1>1
<1> QED
  BY <1>1, <1>2, <1>3

\* The words of the time while a carry is on its way.
LEMMA WithCarry ==
  ASSUME NEW lo \in 0 .. LoWords - 1, NEW hi \in 0 .. HiWords - 1, NEW c \in {0, 1},
         c = 1 => lo = 0
  PROVE  /\ (hi + c) % HiWords \in 0 .. HiWords - 1
         /\ (hi * LoWords + lo + c * LoWords) % All = ((hi + c) % HiWords) * LoWords + lo
<1>1. CASE hi + c < HiWords
  <2>1. (hi + c) % HiWords = hi + c /\ hi + c \in 0 .. HiWords - 1
    BY <1>1, ClintNumbers, ModSmall
  <2>2. (hi + c) * LoWords + LoWords <= HiWords * LoWords
    BY <1>1, ClintNumbers
  <2>3. (hi + c) * LoWords = hi * LoWords + c * LoWords
        /\ hi * LoWords \in Nat /\ c * LoWords \in Nat
    BY ClintNumbers
  <2>4. hi * LoWords + lo + c * LoWords < All /\ hi * LoWords + lo + c * LoWords \in Nat
    BY ClintNumbers, <2>2, <2>3
  <2> QED
    BY <2>1, <2>3, <2>4, ClintNumbers, ModSmall
<1>2. CASE hi + c = HiWords
  <2>1. c = 1 /\ lo = 0 /\ hi + 1 = HiWords
    BY <1>2, ClintNumbers
  <2>2. (hi + c) % HiWords = 0
    BY <1>2, ClintNumbers, ModSelf
  <2>3. hi * LoWords + lo + c * LoWords = All
    BY <2>1, ClintNumbers
  <2> QED
    BY <2>1, <2>2, <2>3, ClintNumbers, ModSelf
<1> QED
  BY <1>1, <1>2, ClintNumbers

\* The low word of two words.
LEMMA LowOf ==
  ASSUME NEW q \in Nat, NEW lo \in 0 .. LoWords - 1 PROVE (q * LoWords + lo) % LoWords = lo
BY ClintNumbers

\* Two words are the time with the carry.
LEMMA WordsOf ==
  ASSUME NEW lo \in 0 .. LoWords - 1, NEW hi \in 0 .. HiWords - 1
  PROVE  /\ hi * LoWords + lo \in 0 .. All - 1
         /\ Low(hi * LoWords + lo) = lo /\ High(hi * LoWords + lo) = hi
<1>1. hi * LoWords + LoWords <= HiWords * LoWords /\ hi * LoWords \in Nat
  BY ClintNumbers
<1>2. hi * LoWords + lo \in 0 .. All - 1
  BY <1>1, ClintNumbers
<1>3. (hi * LoWords + lo) % LoWords = lo /\ (hi * LoWords + lo) \div LoWords = hi
  BY ClintNumbers
<1> QED
  BY <1>2, <1>3 DEF Low, High

\* Outside neorv32_clint_time_set the counter is one carry away from the time.
LEMMA CounterIs ==
  ASSUME ClintInv, timer_call # "time_set"
  PROVE  count.lo = Low(now) /\ (count.hi + carry) % HiWords = High(now)
<1>1. /\ count.lo \in 0 .. LoWords - 1 /\ count.hi \in 0 .. HiWords - 1
      /\ carry \in {0, 1} /\ (carry = 1 => count.lo = 0)
  BY DEF ClintInv, TimerOK
<1>2. now = (count.hi * LoWords + count.lo + carry * LoWords) % All
  BY DEF ClintInv, CounterKeepsTime, Value
<1> QED
  BY <1>1, <1>2, WithCarry, WordsOf

\* Less than a round of the low word later.
LEMMA Later ==
  ASSUME NEW b \in 0 .. All - 1, NEW d \in Nat, d < LoWords
  PROVE  LET n == (b + d) % All IN
         /\ n \in 0 .. All - 1 /\ (b + d) % LoWords = Low(n)
         /\ Low(b) + d < LoWords => Low(n) = Low(b) + d /\ High(n) = High(b)
         /\ Low(b) + d >= LoWords => Low(n) = Low(b) + d - LoWords
                                     /\ High(n) = (High(b) + 1) % HiWords
<1>1. /\ Low(b) \in 0 .. LoWords - 1 /\ High(b) \in 0 .. HiWords - 1
      /\ High(b) * LoWords + Low(b) = b /\ b \in Nat
  BY Words, ClintNumbers
<1>2. CASE Low(b) + d < LoWords
  <2>1. Low(b) + d \in 0 .. LoWords - 1 /\ High(b) * LoWords \in Nat
    BY <1>1, <1>2, ClintNumbers
  <2>2. b + d = High(b) * LoWords + (Low(b) + d)
    BY <1>1, <2>1, ClintNumbers
  <2>3. /\ b + d \in 0 .. All - 1 /\ Low(b + d) = Low(b) + d /\ High(b + d) = High(b)
    BY <1>1, <2>1, <2>2, WordsOf
  <2>4. (b + d) % All = b + d
    BY <2>3, ClintNumbers, ModSmall
  <2> QED
    BY <1>1, <1>2, <2>1, <2>3, <2>4, ClintNumbers DEF Low
<1>3. CASE Low(b) + d >= LoWords
  <2> DEFINE lo == Low(b) + d - LoWords
  <2>1. lo \in 0 .. LoWords - 1 /\ High(b) * LoWords \in Nat
    BY <1>1, <1>3, ClintNumbers
  <2>2. b + d = (High(b) + 1) * LoWords + lo
    BY <1>1, <2>1, ClintNumbers
  <2>3. ((High(b) + 1) * LoWords + lo) % LoWords = lo
    <3> HIDE DEF lo
    <3>1. High(b) + 1 \in Nat
      BY <1>1, ClintNumbers
    <3> QED
      BY <2>1, <3>1, LowOf
  <2>4. CASE High(b) + 1 < HiWords
    <3>1. High(b) + 1 \in 0 .. HiWords - 1 /\ (High(b) + 1) % HiWords = High(b) + 1
      BY <1>1, <2>4, ClintNumbers, ModSmall
    <3> HIDE DEF lo
    <3>2. b + d \in 0 .. All - 1 /\ Low(b + d) = lo /\ High(b + d) = High(b) + 1
      BY <2>1, <2>2, <3>1, WordsOf
    <3>3. (b + d) % All = b + d
      BY <3>2, ClintNumbers, ModSmall
    <3>4. /\ (b + d) % All \in 0 .. All - 1 /\ (b + d) % LoWords = Low((b + d) % All)
          /\ Low((b + d) % All) = lo /\ High((b + d) % All) = (High(b) + 1) % HiWords
      BY <2>2, <2>3, <3>1, <3>2, <3>3
    <3> QED
      BY <1>1, <1>3, <3>4, ClintNumbers DEF lo
  <2>5. CASE High(b) + 1 = HiWords
    <3>1. (High(b) + 1) % HiWords = 0
      BY <2>5, ClintNumbers, ModSelf
    <3> HIDE DEF lo
    <3>2. b + d = All + lo /\ lo < LoWords
      BY <2>1, <2>2, <2>5, ClintNumbers
    <3>3. (b + d) % All = lo
      <4>1. All + lo \in Nat /\ All <= All + lo /\ All + lo < 2 * All /\ (All + lo) - All = lo
        BY <2>1, <3>2, ClintNumbers
      <4> QED
        BY <3>2, <4>1, ClintNumbers, ModOnce
    <3>4. 0 \in 0 .. HiWords - 1 /\ 0 * LoWords + lo = lo
      BY <2>1, ClintNumbers
    <3>5. lo \in 0 .. All - 1 /\ Low(lo) = lo /\ High(lo) = 0
      BY <2>1, <3>4, WordsOf
    <3>6. /\ (b + d) % All \in 0 .. All - 1 /\ (b + d) % LoWords = Low((b + d) % All)
          /\ Low((b + d) % All) = lo /\ High((b + d) % All) = (High(b) + 1) % HiWords
      BY <2>2, <2>3, <3>1, <3>3, <3>5
    <3> QED
      BY <1>1, <1>3, <3>6, ClintNumbers DEF lo
  <2> QED
    BY <1>1, <2>4, <2>5, ClintNumbers
<1> QED
  BY <1>1, <1>2, <1>3, ClintNumbers

\* A high word that is read before and after the low word, d clocks apart, makes a time with
\* the low word of e clocks after the first read.
LEMMA ReadsOneTime ==
  ASSUME NEW b \in 0 .. All - 1, NEW h \in 0 .. HiWords - 1,
         NEW c \in {0, 1}, c = 1 => Low(b) = 0, (h + c) % HiWords = High(b),
         NEW e \in Nat, NEW d \in Nat, e < d, d < LoWords,
         NEW k \in {0, 1}, k = 1 => Low((b + d) % All) = 0,
         (h + k) % HiWords = High((b + d) % All)
  PROVE  h * LoWords + ((b + e) % LoWords) = (b + e) % All
<1> DEFINE n == (b + d) % All
           m == (b + e) % All
<1>1. /\ Low(b) \in 0 .. LoWords - 1 /\ High(b) \in 0 .. HiWords - 1
  BY Words
<1>2. /\ m \in 0 .. All - 1 /\ (b + e) % LoWords = Low(m)
      /\ Low(b) + e < LoWords => High(m) = High(b)
      /\ Low(b) + e >= LoWords => High(m) = (High(b) + 1) % HiWords
  BY Later, ClintNumbers
<1>3. /\ Low(b) + d < LoWords => Low(n) = Low(b) + d /\ High(n) = High(b)
      /\ Low(b) + d >= LoWords => Low(n) = Low(b) + d - LoWords
                                  /\ High(n) = (High(b) + 1) % HiWords
  BY Later
<1>4. k = 1 => Low(n) = 0
  OBVIOUS
<1>5. (h + k) % HiWords = High(n)
  OBVIOUS
<1>6. h % HiWords = h
  BY ClintNumbers, ModSmall
<1>7. High(m) \in 0 .. HiWords - 1 /\ High(m) * LoWords + Low(m) = m
  BY <1>2, Words
<1> HIDE DEF n, m
<1>8. h = High(m)
  <2>1. CASE c = 0
    <3>1. h = High(b)
      BY <1>6, <2>1
    <3>2. CASE Low(b) + e < LoWords
      BY <1>2, <3>1, <3>2
    <3>3. CASE Low(b) + e >= LoWords
      <4>1. Low(b) + d >= LoWords /\ Low(n) # 0
        BY <1>1, <1>3, <3>3, ClintNumbers
      <4>2. h = High(n)
        BY <1>4, <1>5, <1>6, <4>1
      <4> QED
        BY <1>2, <1>3, <3>3, <4>1, <4>2
    <3> QED
      BY <1>1, <3>2, <3>3, ClintNumbers
  <2>2. CASE c = 1
    <3>1. Low(b) = 0 /\ Low(n) = d /\ High(n) = High(b) /\ High(m) = High(b)
      BY <1>2, <1>3, <2>2, ClintNumbers
    <3>2. k = 0
      BY <1>4, <3>1
    <3> QED
      BY <1>5, <1>6, <3>1, <3>2
  <2> QED
    BY <2>1, <2>2
<1> QED
  BY <1>2, <1>7, <1>8 DEF m

\* The time that has passed.
LEMMA Passed ==
  ASSUME NEW b \in 0 .. All - 1, NEW d \in Nat, d < All
  PROVE  Since(b, (b + d) % All) = d
<1>1. CASE b + d < All
  <2>1. (b + d) % All = b + d
    BY <1>1, ClintNumbers, ModSmall
  <2>2. b + d + All - b = All + d /\ (All + d) \in Nat /\ All <= All + d /\ All + d < 2 * All
    BY <1>1, ClintNumbers
  <2>3. (All + d) % All = d
    BY <2>2, ClintNumbers, ModOnce
  <2> QED
    BY <2>1, <2>2, <2>3 DEF Since
<1>2. CASE b + d >= All
  <2>1. b + d \in Nat /\ b + d < 2 * All
    BY <1>2, ClintNumbers
  <2>2. (b + d) % All = b + d - All
    BY <1>2, <2>1, ClintNumbers, ModOnce
  <2>3. (b + d - All) + All - b = d /\ d % All = d
    BY <1>2, ClintNumbers, ModSmall
  <2> QED
    BY <2>2, <2>3 DEF Since
<1> QED
  BY <1>1, <1>2, ClintNumbers

\* Every step of the program keeps the list of writes to the functions that write.
LEMMA WritersNext == ASSUME Writers, [ClintNext]_clintVars PROVE Writers'
<1>1. CASE UNCHANGED clintVars
  BY <1>1 DEF clintVars, program, Writers
<1>2. CASE Call
  BY <1>2 DEF Call, Writers
<1>3. CASE Wait
  BY <1>3 DEF Wait, Writers
<1>4. CASE WriteWord
  BY <1>4 DEF WriteWord, Writers
<1>5. CASE time_get
  BY <1>5 DEF time_get, Writers
<1> QED
  BY <1>1, <1>2, <1>3, <1>4, <1>5 DEF ClintNext

\* A clock later, with no access, the time read so far is a clock older.
LEMMA WaitReads == ASSUME ReadInv, Wait PROVE Reading'
<1>1. /\ now' = (now + 1) % All /\ UNCHANGED <<timer_call, tmp, begun>>
      /\ (timer_call = "none" \/ gap < MaxGap)
      /\ gap' = IF gap + 1 < MaxGap THEN gap + 1 ELSE MaxGap
  BY DEF Wait, Least
<1>2. gap \in 0 .. MaxGap /\ Reading
  BY DEF ReadInv, ClintInv, TimerOK
<1>3. CASE timer_call # "time_get"
  BY <1>1, <1>2, <1>3 DEF Reading
<1>4. CASE timer_call = "time_get" /\ tmp = <<>>
  BY <1>1, <1>2, <1>4 DEF Reading
<1>5. CASE timer_call = "time_get" /\ tmp # <<>>
  <2>1. gap' = gap + 1 /\ gap < MaxGap /\ gap \in Nat
    BY <1>1, <1>2, <1>5, ClintNumbers
  <2>2. /\ Len(tmp) \in {1, 2} /\ Begun /\ tmp \in Seq(Nat)
    BY <1>2, <1>5 DEF Reading
  <2>3. Begun'
    BY <1>1, <2>2 DEF Begun, Low, High
  <2>4. ASSUME NEW e \in 0 .. MaxGap + 1, now = (begun + e + gap + 1) % All
        PROVE  now' = (begun + e + gap' + 1) % All
    <3>1. begun \in 0 .. All - 1
      BY <2>2 DEF Begun
    <3>2. begun \in Nat /\ begun < All /\ e \in Nat /\ e + gap + 2 < All
      BY <2>1, <3>1, ClintNumbers
    <3>3. begun + e + gap + 1 \in Nat /\ (begun + e + gap + 1) + 1 < 2 * All
          /\ (begun + e + gap + 1) + 1 = begun + e + gap' + 1
      BY <2>1, <3>2, ClintNumbers
    <3> QED
      BY <1>1, <2>4, <3>3, ClintNumbers, ModNext
  <2>5. Len(tmp) = 1 => now' = (begun + gap' + 1) % All
    <3> SUFFICES ASSUME Len(tmp) = 1 PROVE now' = (begun + gap' + 1) % All
      OBVIOUS
    <3>1. begun \in Int /\ gap' \in Int /\ 0 \in 0 .. MaxGap + 1 /\ gap \in Int
      BY <2>1, <2>2, ClintNumbers DEF Begun
    <3>2. begun + 0 + gap + 1 = begun + gap + 1 /\ begun + 0 + gap' + 1 = begun + gap' + 1
      BY <3>1
    <3>3. now = (begun + gap + 1) % All
      BY <1>2, <1>5 DEF Reading
    <3>4. now = (begun + 0 + gap + 1) % All
      BY <3>2, <3>3
    <3>5. now' = (begun + 0 + gap' + 1) % All
      BY <2>4, <3>1, <3>4
    <3> QED
      BY <3>2, <3>5
  <2>6. Len(tmp) = 2 => \E e \in 1 .. MaxGap + 1 :
                          tmp[2] = (begun + e) % LoWords /\ now' = (begun + e + gap' + 1) % All
    <3> SUFFICES ASSUME Len(tmp) = 2
                 PROVE  \E e \in 1 .. MaxGap + 1 :
                          tmp[2] = (begun + e) % LoWords /\ now' = (begun + e + gap' + 1) % All
      OBVIOUS
    <3>1. PICK e \in 1 .. MaxGap + 1 :
            tmp[2] = (begun + e) % LoWords /\ now = (begun + e + gap + 1) % All
      BY <1>2, <1>5 DEF Reading
    <3>2. e \in 0 .. MaxGap + 1
      BY ClintNumbers
    <3> QED
      BY <2>4, <3>1, <3>2
  <2> QED
    BY <1>1, <1>5, <2>2, <2>3, <2>5, <2>6 DEF Reading
<1> QED
  BY <1>3, <1>4, <1>5

\* The reads of neorv32_clint_time_get.
LEMMA ReadReads == ASSUME ReadInv, time_get PROVE Reading'
<1>1. /\ timer_call = "time_get" /\ gap > 0 /\ gap' = 0 /\ now' = (now + 1) % All
  BY DEF time_get, Ready
<1>2. /\ Reading /\ gap \in 1 .. MaxGap /\ now \in 0 .. All - 1
      /\ count.hi \in 0 .. HiWords - 1 /\ carry \in {0, 1} /\ count.lo \in 0 .. LoWords - 1
      /\ carry = 1 => count.lo = 0
  BY <1>1, ClintNumbers DEF ReadInv, ClintInv, TimerOK
<1>3. count.lo = Low(now) /\ (count.hi + carry) % HiWords = High(now)
  BY <1>1, CounterIs DEF ReadInv
<1>4. CASE tmp = <<>>
  <2>1. tmp' = <<count.hi>> /\ begun' = now /\ timer_call' = timer_call
    BY <1>4 DEF time_get
  <2>2. tmp' \in Seq(Nat) /\ Len(tmp') = 1 /\ tmp' # <<>> /\ tmp'[1] = count.hi
    BY <1>2, <2>1, ClintNumbers
  <2>3. \E c \in {0, 1} : (c = 1 => Low(begun') = 0) /\ (tmp'[1] + c) % HiWords = High(begun')
    BY <1>2, <1>3, <2>1, <2>2
  <2>4. Begun'
    BY <1>2, <2>1, <2>2, <2>3 DEF Begun, Low, High
  <2>5. now' = (begun' + gap' + 1) % All
    <3>1. now + 0 + 1 = now + 1
      BY <1>2, ClintNumbers
    <3> QED
      BY <1>1, <2>1, <3>1
  <2> QED
    BY <1>1, <2>1, <2>2, <2>4, <2>5 DEF Reading
<1>5. CASE Len(tmp) = 1
  <2>1. tmp' = Append(tmp, count.lo) /\ UNCHANGED <<timer_call, begun>>
    <3>1. tmp # <<>> /\ Len(tmp) # 2
      BY <1>5
    <3> QED
      BY <3>1 DEF time_get
  <2>2. tmp \in Seq(Nat) /\ tmp # <<>> /\ Begun /\ now = (begun + gap + 1) % All
    <3>1. tmp # <<>>
      BY <1>5
    <3> QED
      BY <1>2, <1>5, <3>1 DEF Reading
  <2>3. /\ tmp' \in Seq(Nat) /\ Len(tmp') = 2 /\ tmp' # <<>>
        /\ tmp'[1] = tmp[1] /\ tmp'[2] = count.lo
    <3>1. count.lo \in Nat
      BY <1>2, ClintNumbers
    <3> QED
      BY <1>5, <2>1, <2>2, <3>1
  <2>4. Begun'
    BY <2>1, <2>2, <2>3 DEF Begun, Low, High
  <2> DEFINE e == gap + 1
  <2>5. e \in 1 .. MaxGap + 1 /\ e \in Nat /\ e < LoWords /\ begun \in 0 .. All - 1
        /\ begun + gap + 1 = begun + e
    BY <1>2, <2>2, ClintNumbers DEF Begun
  <2>6. now = (begun + e) % All
    BY <2>2, <2>5
  <2> HIDE DEF e
  <2>7. tmp'[2] = (begun + e) % LoWords
    BY <1>3, <2>3, <2>5, <2>6, Later
  <2>8. now' = (begun + e + gap' + 1) % All
    <3>1. begun + e \in Nat /\ (begun + e) + 1 < 2 * All /\ begun + e + 0 + 1 = (begun + e) + 1
      BY <2>5, ClintNumbers
    <3>2. now' = ((begun + e) + 1) % All
      BY <1>1, <2>6, <3>1, ClintNumbers, ModNext
    <3> QED
      BY <1>1, <3>1, <3>2
  <2>9. \E x \in 1 .. MaxGap + 1 :
          tmp'[2] = (begun' + x) % LoWords /\ now' = (begun' + x + gap' + 1) % All
    BY <2>1, <2>5, <2>7, <2>8
  <2> QED
    BY <1>1, <2>1, <2>3, <2>4, <2>9 DEF Reading
<1>6. CASE Len(tmp) = 2
  <2>1. tmp' = <<>>
    <3>1. tmp # <<>> /\ Len(tmp) # 1
      BY <1>6
    <3> QED
      BY <3>1 DEF time_get
  <2> QED
    BY <2>1 DEF Reading
<1> QED
  BY <1>4, <1>5, <1>6 DEF time_get

\* Every step keeps what has been read so far.
LEMMA ReadNext == ASSUME ReadInv, [ClintNext]_clintVars, ClintInv' PROVE ReadInv'
<1>1. Reading'
  <2>1. CASE UNCHANGED clintVars
    BY <2>1 DEF clintVars, timer, program, history, ReadInv, Reading, Begun, Low, High
  <2>2. CASE Call
    BY <2>2 DEF Call, ReadInv, Reading
  <2>3. CASE WriteWord
    BY <2>3 DEF WriteWord, ReadInv, Writers, Reading, TimerOK, Writing, ClintInv
  <2> QED
    BY <2>1, <2>2, <2>3, WaitReads, ReadReads DEF ClintNext
<1> QED
  BY <1>1, WritersNext DEF ReadInv

\* The last read of neorv32_clint_time_get.
LEMMA ReturnsATime ==
  ASSUME ReadInv, time_get, timer_call' = "none"
  PROVE  Since(begun, Value(Result)) <= Since(begun, now)
<1>1. /\ timer_call = "time_get" /\ gap > 0 /\ Len(tmp) = 2 /\ Consistent(count.hi)
      /\ tmp # <<>>
  <2>1. timer_call = "time_get" /\ gap > 0 /\ Len(tmp) = 2 /\ Consistent(count.hi)
    BY DEF time_get, Ready
  <2> QED
    BY <2>1
<1>2. /\ Reading /\ gap \in 1 .. MaxGap
      /\ count.hi \in 0 .. HiWords - 1 /\ carry \in {0, 1} /\ count.lo \in 0 .. LoWords - 1
      /\ carry = 1 => count.lo = 0
  BY <1>1, ClintNumbers DEF ReadInv, ClintInv, TimerOK
<1>3. count.lo = Low(now) /\ (count.hi + carry) % HiWords = High(now)
  BY <1>1, CounterIs DEF ReadInv
<1>4. Begun /\ tmp[1] = count.hi
  BY <1>1, <1>2 DEF Reading, Consistent
<1>5. PICK e \in 1 .. MaxGap + 1 :
        tmp[2] = (begun + e) % LoWords /\ now = (begun + e + gap + 1) % All
  BY <1>1, <1>2 DEF Reading
<1> DEFINE d == e + gap + 1
<1>6. /\ e \in Nat /\ d \in Nat /\ e < d /\ d < LoWords /\ begun \in 0 .. All - 1
      /\ begun + e + gap + 1 = begun + d /\ d < All /\ e < All
  BY <1>2, <1>4, ClintNumbers DEF Begun
<1>7. now = (begun + d) % All
  BY <1>5, <1>6
<1> HIDE DEF d
<1>8. PICK c \in {0, 1} : (c = 1 => Low(begun) = 0) /\ (count.hi + c) % HiWords = High(begun)
  BY <1>4 DEF Begun
<1>9. carry = 1 => Low((begun + d) % All) = 0
  BY <1>2, <1>3, <1>7
<1>10. (count.hi + carry) % HiWords = High((begun + d) % All)
  BY <1>3, <1>7
<1>11. count.hi * LoWords + ((begun + e) % LoWords) = (begun + e) % All
  BY <1>2, <1>6, <1>8, <1>9, <1>10, ReadsOneTime
<1>12. Value(Result) = (begun + e) % All
  BY <1>5, <1>11 DEF Value, Result
<1>13. Since(begun, Value(Result)) = e /\ Since(begun, now) = d
  BY <1>6, <1>7, <1>12, Passed
<1> QED
  BY <1>6, <1>13

\* Before the first step nothing has been read.
LEMMA ReadInitially == ClintInit => Writers /\ Reading
BY DEF ClintInit, Writers, Reading

\* Words of any width, times of any size, the program at work between the reads.
THEOREM ClintReadsTime == ClintSpec => TimeReadIsATime
<1>1. ReadInv /\ [ClintNext]_clintVars =>
        [timer_call = "time_get" /\ timer_call' = "none" =>
           Since(begun, Value(Result)) <= Since(begun, now)]_clintVars
  <2> SUFFICES ASSUME ReadInv, ClintNext, timer_call = "time_get", timer_call' = "none"
               PROVE  Since(begun, Value(Result)) <= Since(begun, now)
    BY DEF clintVars, program
  <2>1. time_get
    BY DEF ClintNext, Call, Wait, WriteWord, ReadInv, Writers
  <2> QED
    BY <2>1, ReturnsATime
<1>2. ClintInit => ReadInv
  BY ClintInitially, ReadInitially DEF ReadInv
<1>3. ReadInv /\ [ClintNext]_clintVars => ReadInv'
  BY ClintStep, ReadNext DEF ReadInv
<1> QED
  BY <1>1, <1>2, <1>3, PTL DEF ClintSpec, TimeReadIsATime

\* The compare value that neorv32_clint_mtimecmp_set is on its way to, and the least one that
\* the interrupt may go by meanwhile.
Target == IF timer_call = "mtimecmp_set" THEN arg ELSE Value(mtimecmp)
Bound == Least(before, Target)

CompareOK ==
  /\ mtimecmp = [lo |-> mtimecmp.lo, hi |-> mtimecmp.hi]
  /\ mtimecmp.lo \in 0 .. LoWords - 1 /\ mtimecmp.hi \in 0 .. HiWords - 1
  /\ cmp_lo_ge \in BOOLEAN /\ mti \in BOOLEAN
  /\ quiet.time \in 0 .. 3 /\ quiet.compare \in 0 .. 3
  /\ past[1] \in Nat /\ past[2] \in Nat /\ before \in Nat

\* How far neorv32_clint_mtimecmp_set has come.
Comparing ==
  timer_call = "mtimecmp_set" =>
    /\ writes # <<>>
    /\ writes = mtimecmp_set(arg) => Value(mtimecmp) >= before
    /\ writes = Tail(mtimecmp_set(arg)) =>
         mtimecmp.lo = LoWords - 1 /\ Value(mtimecmp) >= before
    /\ writes = Tail(Tail(mtimecmp_set(arg))) =>
         mtimecmp.lo = LoWords - 1 /\ mtimecmp.hi = High(arg)

\* The low words were compared a clock ago, with a low word c, and the high word that goes with
\* them is in the counter only now.
Registered ==
  quiet.time >= 1 =>
    \E lo, c \in 0 .. LoWords - 1 :
      /\ past[1] = count.hi * LoWords + lo
      /\ cmp_lo_ge <=> lo >= c
      /\ mtimecmp.hi * LoWords + c >= Bound
      /\ quiet.compare >= 1 => c = mtimecmp.lo

Raised ==
  quiet.time >= 2 =>
    /\ quiet.compare >= 2 => (mti <=> past[2] >= Value(mtimecmp))
    /\ mti => past[2] >= Bound

IrqInv == ClintInv /\ Writers /\ CompareOK /\ Comparing /\ Registered /\ Raised

\* Words are compared from the high one down.
LEMMA WordOrder ==
  ASSUME NEW hi \in Nat, NEW lo \in 0 .. LoWords - 1, NEW ch \in Nat, NEW cl \in 0 .. LoWords - 1
  PROVE  hi * LoWords + lo >= ch * LoWords + cl <=> hi > ch \/ (hi = ch /\ lo >= cl)
<1>1. hi * LoWords \in Nat /\ ch * LoWords \in Nat
  BY ClintNumbers
<1>2. CASE hi > ch
  <2>1. ch * LoWords + LoWords <= hi * LoWords
    BY <1>2, ClintNumbers
  <2> QED
    BY <1>1, <1>2, <2>1, ClintNumbers
<1>3. CASE hi = ch
  BY <1>1, <1>3, ClintNumbers
<1>4. CASE hi < ch
  <2>1. hi * LoWords + LoWords <= ch * LoWords
    BY <1>4, ClintNumbers
  <2> QED
    BY <1>1, <1>4, <2>1, ClintNumbers
<1> QED
  BY <1>2, <1>3, <1>4

\* The write list of neorv32_clint_mtimecmp_set, as it gets shorter.
LEMMA CompareWrites ==
  ASSUME NEW t
  PROVE  /\ Head(mtimecmp_set(t)) = Set("MTIMECMP.lo", LoWords - 1)
         /\ Head(Tail(mtimecmp_set(t))) = Set("MTIMECMP.hi", High(t))
         /\ Head(Tail(Tail(mtimecmp_set(t)))) = Set("MTIMECMP.lo", Low(t))
         /\ Tail(Tail(Tail(mtimecmp_set(t)))) = <<>>
         /\ mtimecmp_set(t) # Tail(mtimecmp_set(t))
         /\ mtimecmp_set(t) # Tail(Tail(mtimecmp_set(t)))
         /\ Tail(mtimecmp_set(t)) # Tail(Tail(mtimecmp_set(t)))
         /\ <<>> \notin {mtimecmp_set(t), Tail(mtimecmp_set(t)), Tail(Tail(mtimecmp_set(t)))}
<1>1. \A a, b, c : Tail(<<a, b, c>>) = <<b, c>> /\ Tail(<<b, c>>) = <<c>> /\ Tail(<<c>>) = <<>>
  OBVIOUS
<1>2. \A a, b, c : <<a, b, c>> # <<b, c>> /\ <<a, b, c>> # <<c>> /\ <<b, c>> # <<c>>
  OBVIOUS
<1>3. \A a, b, c : <<a, b, c>> # <<>> /\ <<b, c>> # <<>> /\ <<c>> # <<>>
  OBVIOUS
<1>4. \A a, b, c : Head(<<a, b, c>>) = a /\ Head(<<b, c>>) = b /\ Head(<<c>>) = c
  OBVIOUS
<1>5. /\ Tail(mtimecmp_set(t)) = <<Set("MTIMECMP.hi", High(t)), Set("MTIMECMP.lo", Low(t))>>
      /\ Tail(Tail(mtimecmp_set(t))) = <<Set("MTIMECMP.lo", Low(t))>>
      /\ Tail(Tail(Tail(mtimecmp_set(t)))) = <<>>
  BY <1>1 DEF mtimecmp_set
<1> QED
  BY <1>2, <1>3, <1>4, <1>5 DEF mtimecmp_set

\* The compare value never lies below the bound.
LEMMA Covers ==
  ASSUME ClintInv, CompareOK, Comparing
  PROVE  Value(mtimecmp) \in Nat /\ Target \in Nat /\ Bound \in Nat /\ Value(mtimecmp) >= Bound
<1>1. Value(mtimecmp) \in Nat /\ arg \in 0 .. All - 1 /\ before \in Nat
  BY ClintNumbers DEF CompareOK, Value, ClintInv, TimerOK
<1>2. Target \in Nat /\ Bound \in Nat
  BY <1>1, ClintNumbers DEF Target, Bound, Least
<1>3. CASE timer_call # "mtimecmp_set"
  BY <1>1, <1>2, <1>3 DEF Target, Bound, Least
<1>4. CASE timer_call = "mtimecmp_set"
  <2>1. CASE Value(mtimecmp) >= before
    BY <1>1, <2>1, ClintNumbers DEF Target, Bound, Least
  <2>2. CASE mtimecmp.lo = LoWords - 1 /\ mtimecmp.hi = High(arg)
    <3>1. Low(arg) \in 0 .. LoWords - 1 /\ High(arg) * LoWords + Low(arg) = arg
          /\ High(arg) \in 0 .. HiWords - 1
      BY <1>1, Words
    <3>2. Value(mtimecmp) >= arg
      BY <2>2, <3>1, ClintNumbers DEF Value
    <3> QED
      BY <1>1, <1>2, <1>4, <3>2, ClintNumbers DEF Target, Bound, Least
  <2>3. writes \in {<<>>, mtimecmp_set(arg), Tail(mtimecmp_set(arg)),
                    Tail(Tail(mtimecmp_set(arg)))}
    BY <1>4 DEF ClintInv, Writing
  <2>4. writes # <<>>
    BY <1>4 DEF Comparing
  <2> QED
    BY <1>4, <2>1, <2>2, <2>3, <2>4 DEF Comparing
<1> QED
  BY <1>1, <1>2, <1>3, <1>4

\* The registers of the timer, with the access of a clock.
LEMMA TimerRegisters ==
  ASSUME ClintInv, CompareOK, NEW access, Elapse(access)
  PROVE  /\ access.reg = "MTIMECMP.lo" => mtimecmp'.lo = access.word /\ mtimecmp'.hi = mtimecmp.hi
         /\ access.reg = "MTIMECMP.hi" => mtimecmp'.hi = access.word /\ mtimecmp'.lo = mtimecmp.lo
         /\ access.reg \notin {"MTIMECMP.lo", "MTIMECMP.hi"} => mtimecmp' = mtimecmp
         /\ mtimecmp' = [lo |-> mtimecmp'.lo, hi |-> mtimecmp'.hi]
         /\ quiet'.time \in 0 .. 3 /\ quiet'.compare \in 0 .. 3
         /\ quiet'.time >= 1 => access.reg \notin {"MTIME.lo", "MTIME.hi"}
         /\ quiet'.time >= 2 => quiet.time >= 1
         /\ quiet'.compare >= 1 => access.reg \notin {"MTIMECMP.lo", "MTIMECMP.hi"}
         /\ quiet'.compare >= 2 => quiet.compare >= 1
         /\ cmp_lo_ge' \in BOOLEAN /\ (cmp_lo_ge' <=> count.lo >= mtimecmp.lo)
         /\ mti' \in BOOLEAN
         /\ mti' <=> count.hi > mtimecmp.hi \/ (count.hi = mtimecmp.hi /\ cmp_lo_ge)
         /\ past'[1] = (Value(count) + carry * LoWords) % All /\ past'[2] = past[1]
         /\ past'[1] \in Nat /\ past'[2] \in Nat
<1>1. mtimecmp = [lo |-> mtimecmp.lo, hi |-> mtimecmp.hi] /\ past[1] \in Nat
      /\ quiet.time \in 0 .. 3 /\ quiet.compare \in 0 .. 3
      /\ mtimecmp.lo \in 0 .. LoWords - 1 /\ mtimecmp.hi \in 0 .. HiWords - 1
      /\ cmp_lo_ge \in BOOLEAN
  BY DEF CompareOK
<1>2. mtimecmp' = [lo |-> IF access.reg = "MTIMECMP.lo" THEN access.word ELSE mtimecmp.lo,
                   hi |-> IF access.reg = "MTIMECMP.hi" THEN access.word ELSE mtimecmp.hi]
  BY DEF Elapse, write_access
<1>3. /\ quiet'.time = IF access.reg \in {"MTIME.lo", "MTIME.hi"} THEN 0
                       ELSE Least(quiet.time + 1, 3)
      /\ quiet'.compare = IF access.reg \in {"MTIMECMP.lo", "MTIMECMP.hi"} THEN 0
                          ELSE Least(quiet.compare + 1, 3)
  BY DEF Elapse
<1>4. mti' = (count.hi > mtimecmp.hi \/ (count.hi = mtimecmp.hi /\ cmp_lo_ge))
  BY DEF Elapse, irq_gen
<1>5. past' = <<(Value(count) + carry * LoWords) % All, past[1]>>
  BY DEF Elapse
<1>6. (Value(count) + carry * LoWords) % All \in Nat
  <2>1. count.lo \in 0 .. LoWords - 1 /\ count.hi \in 0 .. HiWords - 1 /\ carry \in {0, 1}
        /\ (carry = 1 => count.lo = 0)
    BY DEF ClintInv, TimerOK
  <2>2. Value(count) + carry * LoWords = count.hi * LoWords + count.lo + carry * LoWords
    BY DEF Value
  <2>3. (count.hi + carry) % HiWords \in 0 .. HiWords - 1
        /\ (Value(count) + carry * LoWords) % All
           = ((count.hi + carry) % HiWords) * LoWords + count.lo
    BY <2>1, <2>2, WithCarry
  <2> QED
    BY <2>1, <2>3, WordsOf, ClintNumbers
<1>7. /\ access.reg = "MTIMECMP.lo" => mtimecmp'.lo = access.word /\ mtimecmp'.hi = mtimecmp.hi
      /\ access.reg = "MTIMECMP.hi" => mtimecmp'.hi = access.word /\ mtimecmp'.lo = mtimecmp.lo
      /\ access.reg \notin {"MTIMECMP.lo", "MTIMECMP.hi"} => mtimecmp' = mtimecmp
      /\ mtimecmp' = [lo |-> mtimecmp'.lo, hi |-> mtimecmp'.hi]
  BY <1>1, <1>2
<1>8. /\ quiet'.time \in 0 .. 3 /\ quiet'.compare \in 0 .. 3
      /\ quiet'.time >= 1 => access.reg \notin {"MTIME.lo", "MTIME.hi"}
      /\ quiet'.time >= 2 => quiet.time >= 1
      /\ quiet'.compare >= 1 => access.reg \notin {"MTIMECMP.lo", "MTIMECMP.hi"}
      /\ quiet'.compare >= 2 => quiet.compare >= 1
  BY <1>1, <1>3 DEF Least
<1>9. cmp_lo_ge' \in BOOLEAN /\ (cmp_lo_ge' <=> count.lo >= mtimecmp.lo)
  <2>1. cmp_lo_ge' = (count.lo >= mtimecmp.lo)
    BY DEF Elapse, irq_gen
  <2>2. count.lo \in Int /\ mtimecmp.lo \in Int
    BY <1>1, ClintNumbers DEF ClintInv, TimerOK
  <2>3. (count.lo >= mtimecmp.lo) \in BOOLEAN
    BY <2>2
  <2>4. cmp_lo_ge' \in BOOLEAN
    BY <2>1, <2>3, Zenon
  <2>5. cmp_lo_ge' <=> count.lo >= mtimecmp.lo
    BY <2>1, <2>2
  <2> QED
    BY <2>4, <2>5
<1>10. mti' \in BOOLEAN
       /\ (mti' <=> count.hi > mtimecmp.hi \/ (count.hi = mtimecmp.hi /\ cmp_lo_ge))
  BY <1>1, <1>4
<1>11. past'[1] = (Value(count) + carry * LoWords) % All /\ past'[2] = past[1]
  BY <1>5
<1> QED
  BY <1>1, <1>6, <1>7, <1>8, <1>9, <1>10, <1>11

\* What the time of a clock becomes: the low word of now and the high word of the next clock.
LEMMA PastIs ==
  ASSUME ClintInv, NEW access, counter_core(access), access.reg \notin {"MTIME.lo", "MTIME.hi"}
  PROVE  (Value(count) + carry * LoWords) % All = count'.hi * LoWords + count.lo
<1>1. count'.hi = (count.hi + carry) % HiWords
  BY DEF counter_core
<1>2. count.lo \in 0 .. LoWords - 1 /\ count.hi \in 0 .. HiWords - 1 /\ carry \in {0, 1}
      /\ (carry = 1 => count.lo = 0)
  BY DEF ClintInv, TimerOK
<1>3. Value(count) + carry * LoWords = count.hi * LoWords + count.lo + carry * LoWords
  BY DEF Value
<1> QED
  BY <1>1, <1>2, <1>3, WithCarry

\* A clock of the comparator, when the bound stays where it is or comes down, or goes up to a
\* compare value that has been there for some time.
LEMMA ComparesOn ==
  ASSUME IrqInv, NEW access, Elapse(access), CompareOK', Bound' \in Nat,
         Value(mtimecmp)' >= Bound',
         access.reg = "MTIMECMP.lo" => Bound' = Bound,
         \/ Bound' <= Bound
         \/ quiet.compare = 3 /\ mtimecmp' = mtimecmp
  PROVE  Registered' /\ Raised'
<1>1. ClintInv /\ CompareOK /\ Comparing /\ Registered /\ Raised
  BY DEF IrqInv
<1>2. /\ count.lo \in 0 .. LoWords - 1 /\ count.hi \in 0 .. HiWords - 1
      /\ mtimecmp.lo \in 0 .. LoWords - 1 /\ mtimecmp.hi \in 0 .. HiWords - 1
      /\ quiet.time \in 0 .. 3 /\ quiet.compare \in 0 .. 3
  BY <1>1 DEF ClintInv, TimerOK, CompareOK
<1>3. Value(mtimecmp) \in Nat /\ Bound \in Nat /\ Value(mtimecmp) >= Bound
  BY <1>1, Covers
<1>4. (Value(mtimecmp))' = mtimecmp'.hi * LoWords + mtimecmp'.lo
      /\ Value(mtimecmp) = mtimecmp.hi * LoWords + mtimecmp.lo
  BY DEF Value
<1>5. Registered'
  <2> SUFFICES ASSUME quiet'.time >= 1
               PROVE  \E lo, c \in 0 .. LoWords - 1 :
                        /\ past'[1] = count'.hi * LoWords + lo
                        /\ cmp_lo_ge' <=> lo >= c
                        /\ mtimecmp'.hi * LoWords + c >= Bound'
                        /\ quiet'.compare >= 1 => c = mtimecmp'.lo
    BY DEF Registered
  <2>1. access.reg \notin {"MTIME.lo", "MTIME.hi"} /\ counter_core(access)
    BY <1>1, TimerRegisters DEF Elapse
  <2>2. past'[1] = count'.hi * LoWords + count.lo
    BY <1>1, <2>1, TimerRegisters, PastIs
  <2>3. cmp_lo_ge' <=> count.lo >= mtimecmp.lo
    BY <1>1, TimerRegisters
  <2>4. mtimecmp'.hi * LoWords + mtimecmp.lo >= Bound'
    <3>1. CASE access.reg = "MTIMECMP.lo"
      <4>1. mtimecmp'.hi = mtimecmp.hi
        BY <1>1, <3>1, TimerRegisters
      <4> QED
        BY <1>3, <1>4, <3>1, <4>1
    <3>2. CASE access.reg # "MTIMECMP.lo"
      <4>1. mtimecmp'.lo = mtimecmp.lo
        BY <1>1, <3>2, TimerRegisters
      <4> QED
        BY <1>4, <4>1
    <3> QED
      BY <3>1, <3>2
  <2>5. quiet'.compare >= 1 => mtimecmp.lo = mtimecmp'.lo
    BY <1>1, TimerRegisters
  <2> QED
    BY <1>2, <2>2, <2>3, <2>4, <2>5
<1>6. Raised'
  <2> SUFFICES ASSUME quiet'.time >= 2
               PROVE  /\ quiet'.compare >= 2 => (mti' <=> past'[2] >= (Value(mtimecmp))')
                      /\ mti' => past'[2] >= Bound'
    BY DEF Raised
  <2>1. quiet.time >= 1 /\ past'[2] = past[1]
    BY <1>1, TimerRegisters
  <2>2. PICK lo \in 0 .. LoWords - 1, c \in 0 .. LoWords - 1 :
          /\ past[1] = count.hi * LoWords + lo
          /\ cmp_lo_ge <=> lo >= c
          /\ mtimecmp.hi * LoWords + c >= Bound
          /\ quiet.compare >= 1 => c = mtimecmp.lo
    BY <1>1, <2>1 DEF Registered
  <2>3. mti' <=> count.hi > mtimecmp.hi \/ (count.hi = mtimecmp.hi /\ lo >= c)
    BY <1>1, <2>2, TimerRegisters
  <2>4. mti' <=> past[1] >= mtimecmp.hi * LoWords + c
    <3>1. count.hi \in Nat /\ mtimecmp.hi \in Nat
      BY <1>2, ClintNumbers
    <3> QED
      BY <2>2, <2>3, <3>1, WordOrder
  <2>5. /\ past[1] \in Nat /\ mtimecmp.hi * LoWords + c \in Nat
    BY <1>1, <1>2, ClintNumbers DEF CompareOK
  <2>6. quiet.compare >= 1 => mtimecmp.hi * LoWords + c = Value(mtimecmp)
    BY <1>4, <2>2
  <2>7. quiet'.compare >= 2 => quiet.compare >= 1 /\ mtimecmp' = mtimecmp
    <3> SUFFICES ASSUME quiet'.compare >= 2 PROVE quiet.compare >= 1 /\ mtimecmp' = mtimecmp
      OBVIOUS
    <3>1. quiet'.compare \in 0 .. 3
      BY <1>1, TimerRegisters
    <3>2. quiet'.compare >= 1
      BY <3>1
    <3> QED
      BY <1>1, <3>2, TimerRegisters
  <2>8. quiet'.compare >= 2 => (mti' <=> past'[2] >= (Value(mtimecmp))')
    BY <1>4, <2>1, <2>4, <2>6, <2>7
  <2>9. mti' => past'[2] >= Bound'
    <3>1. CASE Bound' <= Bound
      BY <1>3, <2>1, <2>2, <2>4, <2>5, <3>1
    <3>2. CASE quiet.compare = 3 /\ mtimecmp' = mtimecmp
      <4>1. (Value(mtimecmp))' = Value(mtimecmp)
        BY <3>2 DEF Value
      <4>2. mti' => past[1] >= Value(mtimecmp)
        BY <1>2, <2>4, <2>6, <3>2
      <4> QED
        BY <1>3, <2>1, <2>5, <4>1, <4>2
    <3> QED
      BY <3>1, <3>2
  <2> QED
    BY <2>8, <2>9
<1> QED
  BY <1>5, <1>6

\* The same, as a state formula, which holds of the next state too.
LEMMA CoversNow ==
  ClintInv /\ CompareOK /\ Comparing => Bound \in Nat /\ Value(mtimecmp) >= Bound
BY Covers

\* What a step of the program owes the comparator.
LEMMA StepsOn ==
  ASSUME IrqInv, ClintInv', Writers', CompareOK', Comparing',
         NEW access, Elapse(access),
         access.reg = "MTIMECMP.lo" => Bound' = Bound,
         Bound' <= Bound \/ (quiet.compare = 3 /\ mtimecmp' = mtimecmp)
  PROVE  IrqInv'
<1>1. (ClintInv /\ CompareOK /\ Comparing)' => (Bound \in Nat /\ Value(mtimecmp) >= Bound)'
  BY CoversNow, PTL
<1>2. Bound' \in Nat /\ Value(mtimecmp)' >= Bound'
  BY <1>1
<1>3. Registered' /\ Raised'
  BY <1>2, ComparesOn
<1> QED
  BY <1>3 DEF IrqInv

\* A clock keeps the types.
LEMMA CompareTypes ==
  ASSUME ClintInv, CompareOK, NEW access, Elapse(access), before' \in Nat,
         access.reg = "MTIMECMP.lo" => access.word \in 0 .. LoWords - 1,
         access.reg = "MTIMECMP.hi" => access.word \in 0 .. HiWords - 1
  PROVE  CompareOK'
<1>1. /\ mtimecmp' = [lo |-> mtimecmp'.lo, hi |-> mtimecmp'.hi]
      /\ quiet'.time \in 0 .. 3 /\ quiet'.compare \in 0 .. 3
      /\ cmp_lo_ge' \in BOOLEAN /\ mti' \in BOOLEAN
      /\ past'[1] \in Nat /\ past'[2] \in Nat
  BY TimerRegisters
<1>2. mtimecmp'.lo \in 0 .. LoWords - 1 /\ mtimecmp'.hi \in 0 .. HiWords - 1
  BY TimerRegisters DEF CompareOK
<1> QED
  BY <1>1, <1>2 DEF CompareOK

\* A clock with no access.
LEMMA IdleWrites ==
  ASSUME ClintInv, CompareOK, Elapse(Idle)
  PROVE  /\ mtimecmp' = mtimecmp /\ Value(mtimecmp)' = Value(mtimecmp)
         /\ Idle.reg \notin {"MTIMECMP.lo", "MTIMECMP.hi"}
         /\ before' \in Nat => CompareOK'
<1>1. Idle.reg \notin {"MTIMECMP.lo", "MTIMECMP.hi"}
  BY DEF Idle
<1>2. mtimecmp' = mtimecmp
  BY <1>1, TimerRegisters
<1> QED
  BY <1>1, <1>2, CompareTypes DEF Value

\* The steps of the program, one by one.
LEMMA CallCompares == ASSUME IrqInv, Call, ClintInv', Writers' PROVE IrqInv'
<1>1. ClintInv /\ CompareOK /\ Comparing
  BY DEF IrqInv
<1>2. Elapse(Idle) /\ timer_call = "none"
  BY DEF Call
<1>3. Value(mtimecmp) \in Nat /\ Bound \in Nat /\ Bound = Least(before, Value(mtimecmp))
      /\ before \in Nat
  BY <1>1, <1>2, Covers DEF Bound, Target, CompareOK
<1>4. CASE timer_call' # "mtimecmp_set"
  <2>1. before' = before /\ Bound' = Bound /\ Comparing'
    <3>1. before' = before
      BY <1>4 DEF Call
    <3>2. Target' = Value(mtimecmp)
      BY <1>1, <1>2, <1>4, IdleWrites DEF Target
    <3> QED
      BY <1>2, <1>3, <1>4, <3>1, <3>2 DEF Bound, Target, Comparing, Least
  <2> QED
    BY <1>1, <1>2, <1>3, <2>1, IdleWrites, StepsOn
<1>5. CASE timer_call' = "mtimecmp_set"
  <2>1. /\ writes' = mtimecmp_set(arg') /\ arg' \in Times
        /\ before' = Least(before, Value(mtimecmp))
    BY <1>5 DEF Call
  <2>2. arg' \in Nat
    BY <2>1, ClintAssumption, ClintNumbers
  <2>3. before' \in Nat /\ before' <= Value(mtimecmp) /\ before' = Bound
    BY <1>3, <2>1 DEF Least
  <2>4. Bound' = Least(before', arg')
    BY <1>5 DEF Bound, Target, Least
  <2>5. Bound' <= Bound
    BY <1>3, <2>2, <2>3, <2>4 DEF Least
  <2>6. Comparing'
    <3>1. (mtimecmp_set(arg))' = mtimecmp_set(arg')
      BY DEF mtimecmp_set, High, Low
    <3>2. (Value(mtimecmp))' >= before'
      BY <1>1, <1>2, <1>3, <2>3, IdleWrites
    <3> QED
      BY <2>1, <3>1, <3>2, CompareWrites DEF Comparing
  <2> QED
    BY <1>1, <1>2, <2>3, <2>5, <2>6, IdleWrites, StepsOn
<1> QED
  BY <1>4, <1>5

\* What the program does between its writes leaves the compare value as it is.
LEMMA StillComparing ==
  ASSUME Comparing, UNCHANGED <<timer_call, arg, writes, mtimecmp>>,
         timer_call = "mtimecmp_set" => before' = before
  PROVE  Comparing'
<1>1. (mtimecmp_set(arg))' = mtimecmp_set(arg) /\ (High(arg))' = High(arg)
      /\ (Value(mtimecmp))' = Value(mtimecmp)
  BY DEF mtimecmp_set, High, Low, Value
<1> QED
  BY <1>1 DEF Comparing

\* A clock between accesses: the bound may go up only to a compare value of long ago.
LEMMA WaitCompares == ASSUME IrqInv, Wait, ClintInv', Writers' PROVE IrqInv'
<1>1. ClintInv /\ CompareOK /\ Comparing
  BY DEF IrqInv
<1>2. Elapse(Idle) /\ UNCHANGED <<timer_call, arg, writes>>
      /\ before' = IF quiet.compare = 3 /\ timer_call # "mtimecmp_set"
                   THEN Value(mtimecmp) ELSE before
  BY DEF Wait
<1>3. Value(mtimecmp) \in Nat /\ Bound \in Nat /\ before \in Nat
  BY <1>1, Covers DEF CompareOK
<1>4. before' \in Nat
  BY <1>2, <1>3
<1>5. mtimecmp' = mtimecmp /\ Value(mtimecmp)' = Value(mtimecmp) /\ CompareOK'
      /\ Idle.reg \notin {"MTIMECMP.lo", "MTIMECMP.hi"}
  BY <1>1, <1>2, <1>4, IdleWrites
<1>6. Comparing'
  BY <1>1, <1>2, <1>5, StillComparing
<1>7. Bound' <= Bound \/ (quiet.compare = 3 /\ mtimecmp' = mtimecmp)
  <2>1. CASE before' = before
    <3>1. Bound' = Bound
      BY <1>2, <1>5, <2>1 DEF Bound, Target, Least
    <3> QED
      BY <1>3, <3>1
  <2> QED
    BY <1>2, <1>5, <2>1
<1> QED
  BY <1>1, <1>2, <1>5, <1>6, <1>7, StepsOn

\* A read changes nothing.
LEMMA ReadCompares == ASSUME IrqInv, time_get, ClintInv', Writers' PROVE IrqInv'
<1>1. ClintInv /\ CompareOK /\ Comparing
  BY DEF IrqInv
<1>2. Elapse(Idle) /\ UNCHANGED <<arg, writes, before>> /\ timer_call = "time_get"
      /\ timer_call' \in {"time_get", "none"}
  BY DEF time_get
<1>3. Bound \in Nat /\ before' \in Nat
  BY <1>1, <1>2, Covers DEF CompareOK
<1>4. mtimecmp' = mtimecmp /\ Value(mtimecmp)' = Value(mtimecmp) /\ CompareOK'
      /\ Idle.reg \notin {"MTIMECMP.lo", "MTIMECMP.hi"}
  BY <1>1, <1>2, <1>3, IdleWrites
<1>5. Comparing'
  BY <1>2 DEF Comparing
<1>6. Bound' = Bound
  BY <1>2, <1>4 DEF Bound, Target, Least
<1> QED
  BY <1>1, <1>2, <1>3, <1>4, <1>5, <1>6, StepsOn

\* A word of neorv32_clint_time_set leaves the compare value alone.
LEMMA TimeCompares ==
  ASSUME IrqInv, WriteWord, timer_call # "mtimecmp_set", ClintInv', Writers' PROVE IrqInv'
<1>1. ClintInv /\ CompareOK /\ Comparing
  BY DEF IrqInv
<1>2. timer_call = "time_set" /\ Elapse(Head(writes)) /\ UNCHANGED before
      /\ timer_call' \in {"time_set", "none"}
  <2>1. writes # <<>> /\ Elapse(Head(writes)) /\ UNCHANGED before
        /\ timer_call' \in {timer_call, "none"}
    BY DEF WriteWord
  <2> QED
    BY <1>1, <2>1 DEF IrqInv, Writers, ClintInv, TimerOK
<1>3. Head(writes).reg \in {"MTIME.lo", "MTIME.hi"}
  <2>1. writes \in {time_set(arg), Tail(time_set(arg)), Tail(Tail(time_set(arg)))}
    BY <1>1, <1>2 DEF ClintInv, Writing, WriteWord
  <2> QED
    BY <2>1, WritesWords DEF Set
<1>4. mtimecmp' = mtimecmp
  BY <1>1, <1>2, <1>3, TimerRegisters
<1>5. Bound \in Nat /\ before' \in Nat /\ CompareOK'
  BY <1>1, <1>2, <1>3, Covers, CompareTypes DEF CompareOK
<1>6. Comparing'
  BY <1>2 DEF Comparing
<1>7. Bound' = Bound
  BY <1>2, <1>4 DEF Bound, Target, Least, Value
<1> QED
  BY <1>1, <1>2, <1>3, <1>5, <1>6, <1>7, StepsOn

\* The three words of neorv32_clint_mtimecmp_set: the low one at its largest, the high one,
\* and the low one.
LEMMA WriteCompares ==
  ASSUME IrqInv, WriteWord, timer_call = "mtimecmp_set", ClintInv', Writers' PROVE IrqInv'
<1>1. ClintInv /\ CompareOK /\ Comparing
  BY DEF IrqInv
<1>2. Elapse(Head(writes)) /\ UNCHANGED before /\ writes' = Tail(writes) /\ writes # <<>>
  BY DEF WriteWord
<1>3. /\ Value(mtimecmp) \in Nat /\ Bound \in Nat /\ Value(mtimecmp) >= Bound
      /\ Bound = Least(before, arg) /\ before \in Nat /\ before' \in Nat
      /\ arg \in 0 .. All - 1
      /\ mtimecmp.lo \in 0 .. LoWords - 1 /\ mtimecmp.hi \in 0 .. HiWords - 1
  BY <1>1, <1>2, Covers DEF CompareOK, Bound, Target, ClintInv, TimerOK
<1>4. /\ Low(arg) \in 0 .. LoWords - 1 /\ High(arg) \in 0 .. HiWords - 1
      /\ High(arg) * LoWords + Low(arg) = arg
  BY <1>3, Words
<1>5. CASE writes = mtimecmp_set(arg)
  <2>1. Head(writes).reg = "MTIMECMP.lo" /\ Head(writes).word = LoWords - 1
    BY <1>5, CompareWrites DEF Set
  <2>2. mtimecmp'.lo = LoWords - 1 /\ mtimecmp'.hi = mtimecmp.hi
    BY <1>1, <1>2, <2>1, TimerRegisters
  <2>3. writes' = Tail(mtimecmp_set(arg)) /\ writes' # <<>>
    BY <1>2, <1>5, CompareWrites
  <2>4. UNCHANGED <<timer_call, arg>>
    BY <2>3 DEF WriteWord
  <2>5. CompareOK'
    BY <1>1, <1>2, <1>3, <2>1, ClintNumbers, CompareTypes
  <2>6. (Value(mtimecmp))' >= before'
    <3>1. Value(mtimecmp) >= before
      BY <1>1, <1>5 DEF Comparing
    <3>2. (Value(mtimecmp))' = mtimecmp.hi * LoWords + (LoWords - 1)
      BY <2>2 DEF Value
    <3> QED
      BY <1>2, <1>3, <3>1, <3>2, ClintNumbers DEF Value
  <2>7. Comparing'
    <3>1. (mtimecmp_set(arg))' = mtimecmp_set(arg)
      BY <2>4 DEF mtimecmp_set, High, Low
    <3> QED
      BY <2>2, <2>3, <2>6, <3>1, CompareWrites DEF Comparing
  <2>8. Bound' = Bound
    BY <1>2, <2>4 DEF Bound, Target, Least
  <2> QED
    BY <1>2, <1>3, <2>5, <2>7, <2>8, StepsOn
<1>6. CASE writes = Tail(mtimecmp_set(arg))
  <2>1. Head(writes).reg = "MTIMECMP.hi" /\ Head(writes).word = High(arg)
    BY <1>6, CompareWrites DEF Set
  <2>2. mtimecmp'.hi = High(arg) /\ mtimecmp'.lo = mtimecmp.lo
    BY <1>1, <1>2, <2>1, TimerRegisters
  <2>3. writes' = Tail(Tail(mtimecmp_set(arg))) /\ writes' # <<>>
    BY <1>2, <1>6, CompareWrites
  <2>4. UNCHANGED <<timer_call, arg>>
    BY <2>3 DEF WriteWord
  <2>5. CompareOK'
    BY <1>1, <1>2, <1>3, <1>4, <2>1, CompareTypes
  <2>6. mtimecmp'.lo = LoWords - 1
    BY <1>1, <1>6, <2>2 DEF Comparing
  <2>7. Comparing'
    <3>1. (mtimecmp_set(arg))' = mtimecmp_set(arg) /\ (High(arg))' = High(arg)
      BY <2>4 DEF mtimecmp_set, High, Low
    <3> QED
      BY <2>2, <2>3, <2>6, <3>1, CompareWrites DEF Comparing
  <2>8. Bound' = Bound
    BY <1>2, <2>4 DEF Bound, Target, Least
  <2> QED
    BY <1>2, <1>3, <2>5, <2>7, <2>8, StepsOn
<1>7. CASE writes = Tail(Tail(mtimecmp_set(arg)))
  <2>1. Head(writes).reg = "MTIMECMP.lo" /\ Head(writes).word = Low(arg)
    BY <1>7, CompareWrites DEF Set
  <2>2. mtimecmp'.lo = Low(arg) /\ mtimecmp'.hi = High(arg)
    BY <1>1, <1>2, <1>7, <2>1, TimerRegisters DEF Comparing
  <2>3. timer_call' = "none"
    BY <1>2, <1>7, CompareWrites DEF WriteWord
  <2>4. CompareOK'
    BY <1>1, <1>2, <1>3, <1>4, <2>1, CompareTypes
  <2>5. Comparing'
    BY <2>3 DEF Comparing
  <2>6. Bound' = Bound
    <3>1. Target' = arg
      BY <1>4, <2>2, <2>3 DEF Target, Value
    <3> QED
      BY <1>2, <1>3, <3>1 DEF Bound, Least
  <2> QED
    BY <1>2, <1>3, <2>4, <2>5, <2>6, StepsOn
<1>8. writes \in {<<>>, mtimecmp_set(arg), Tail(mtimecmp_set(arg)), Tail(Tail(mtimecmp_set(arg)))}
  BY <1>1 DEF ClintInv, Writing
<1> QED
  BY <1>2, <1>5, <1>6, <1>7, <1>8

\* The invariant is inductive.
LEMMA IrqStep == ASSUME IrqInv, [ClintNext]_clintVars PROVE IrqInv'
<1>1. ClintInv' /\ Writers'
  BY ClintStep, WritersNext DEF IrqInv
<1>2. CASE UNCHANGED clintVars
  BY <1>1, <1>2 DEF clintVars, timer, program, history, IrqInv, CompareOK, Comparing, Registered,
    Raised, Bound, Target, Least, Value, mtimecmp_set, High, Low
<1>3. CASE ClintNext
  BY <1>1, <1>3, CallCompares, WaitCompares, TimeCompares, WriteCompares, ReadCompares
    DEF ClintNext
<1> QED
  BY <1>2, <1>3

\* And holds at reset.
LEMMA IrqInitially == ASSUME ClintInit PROVE IrqInv
<1>1. ClintInv /\ Writers
  BY ClintInitially, ReadInitially
<1>2. CompareOK
  <2>1. mtimecmp = [lo |-> 0, hi |-> 0] /\ past[1] = 0 /\ past[2] = 0 /\ before = 0
        /\ quiet.time = 0 /\ quiet.compare = 0 /\ cmp_lo_ge = FALSE /\ mti = FALSE
    BY DEF ClintInit
  <2>2. 0 \in 0 .. LoWords - 1 /\ 0 \in 0 .. HiWords - 1 /\ 0 \in 0 .. 3 /\ 0 \in Nat
    BY ClintNumbers
  <2> QED
    BY <2>1, <2>2 DEF CompareOK
<1>3. Comparing /\ Registered /\ Raised
  BY DEF ClintInit, Comparing, Registered, Raised
<1> QED
  BY <1>1, <1>2, <1>3 DEF IrqInv

\* The comparator works over two clocks and the program writes the compare value in three
\* accesses, and yet no interrupt comes before the compare values it may go by.
THEOREM ClintInterrupts == ClintSpec => []InterruptOnTime
<1>1. IrqInv => InterruptOnTime
  <2> SUFFICES ASSUME IrqInv, quiet.time = 3
               PROVE  /\ quiet.compare = 3 => mti = (past[2] >= Value(mtimecmp))
                      /\ mti => past[2] >= Bound
    BY DEF InterruptOnTime, Bound, Target
  <2>1. /\ quiet.compare >= 2 => (mti <=> past[2] >= Value(mtimecmp))
        /\ mti => past[2] >= Bound
    BY DEF IrqInv, Raised
  <2>2. mti \in BOOLEAN
    BY DEF IrqInv, CompareOK
  <2>3. quiet.compare = 3 => (mti <=> past[2] >= Value(mtimecmp))
    BY <2>1
  <2>4. ASSUME NEW b \in BOOLEAN, NEW t \in Nat, NEW u \in Nat, b <=> t >= u
        PROVE  b = (t >= u)
    BY <2>4
  <2>5. past[2] \in Nat /\ Value(mtimecmp) \in Nat
    BY Covers DEF IrqInv, CompareOK
  <2> QED
    BY <2>1, <2>2, <2>3, <2>4, <2>5
<1> QED
  BY <1>1, IrqInitially, IrqStep, PTL DEF ClintSpec

-------------------------------------------------------------------------------
(* A trap is transparent, with a stack of any size.                         *)

Top == due.reg[sp]

\* What lies on the stack of the program, and what it must find in its registers.
Promised ==
  /\ reg \in [Registers -> Int] /\ mem \in [0 .. StackWords - 1 -> Int]
  /\ due = [reg |-> due.reg, mem |-> due.mem, pc |-> due.pc]
  /\ due.reg \in [Registers -> Int] /\ due.reg[0] = 0
  /\ Top \in {StackWords - 1, StackWords}
  /\ inst \in Instructions

StackKept == \A a \in DOMAIN mem : a >= Top => mem[a] = due.mem[a]

\* As long as the registers are the program's, they are those it must find.
Untouched == trap_at \in {"program", "save", "mret"} => reg = due.reg

\* From then on the frame below its stack holds them.
Framed ==
  trap_at \in {"dispatch", "handler", "adjust", "restore"} =>
    /\ mscratch = Top - FrameWords /\ reg[sp] = mscratch
    /\ \A r \in Registers \ {0} : mem[mscratch + r] = due.reg[r]

\* The instruction it must go on with.
GoesOn ==
  /\ trap_at \in {"save", "dispatch", "handler", "adjust"} =>
       mepc = 0 /\ due.pc = IF Repeats THEN 0 ELSE inst.size
  /\ trap_at \in {"restore", "mret"} => mepc = due.pc
  /\ Program => trap_pc = due.pc

RteInv ==
  Promised /\ (trap_at # "halted" => StackKept /\ Untouched /\ Framed /\ GoesOn)

\* The registers the steps name.
LEMMA RegisterFacts ==
  /\ 0 \in Registers /\ 1 \in Registers /\ sp \in Registers /\ sp # 0 /\ sp # 1
  /\ \A r \in Registers : r \in 0 .. FrameWords - 1
  /\ \A r \in 0 .. FrameWords - 1 : r \in Registers
BY DEF Registers, sp, FrameWords

\* The instructions of the model name registers a handler may change.
LEMMA InstructionFacts ==
  /\ Lw \in Instructions
  /\ \A insn \in Instructions :
       /\ insn.rd \in {0, 1} /\ insn.rs1 \in {0, 1, sp}
       /\ insn.size \in {2, 4} /\ insn.imm = 1
BY DEF Instructions, Instruction, Lw

\* The frame lies on the stack, below the word of the program.
LEMMA FrameFits ==
  ASSUME Top \in {StackWords - 1, StackWords}, NEW r \in Registers \ {0}
  PROVE  Top - FrameWords + r \in 0 .. StackWords - 1 /\ Top - FrameWords + r < Top
BY RteAssumption DEF FrameWords, Registers

\* The program is at its first instruction.
LEMMA RteInitially == RteInit => RteInv
<1> SUFFICES ASSUME RteInit PROVE RteInv
  OBVIOUS
<1>1. reg \in [Registers -> Int] /\ reg[0] = 0 /\ reg[sp] = StackWords
  BY RteAssumption DEF RteInit, Registers, sp
<1>2. mem \in [0 .. StackWords - 1 -> Int]
  BY DEF RteInit, Junk
<1>3. due.reg = reg /\ due.mem = mem /\ due.pc = 0 /\ due = [reg |-> reg, mem |-> mem, pc |-> 0]
  BY DEF RteInit
<1>4. inst \in Instructions
  BY InstructionFacts DEF RteInit
<1> QED
  BY <1>1, <1>2, <1>3, <1>4
     DEF RteInit, RteInv, Promised, Top, StackKept, Untouched, Framed, GoesOn, Program

\* The program itself does what it is due to do.
LEMMA ProgramStep ==
  ASSUME RteInv, Push \/ Pop \/ neorv32_rte_setup \/ EnableInterrupts \/ ChangeTable
  PROVE  RteInv'
<1>1. CASE Push
  <2>1. /\ trap_at = "program" /\ trap_at' = "program" /\ reg[sp] = StackWords
        /\ reg' = [reg EXCEPT ![sp] = StackWords - 1]
        /\ due' = [due EXCEPT !.reg = reg', !.mem = mem']
        /\ mem' = [mem EXCEPT ![StackWords - 1] = reg[1]]
        /\ UNCHANGED <<inst, trap_pc>>
    BY <1>1 DEF Push, Program
  <2>2. /\ Promised /\ trap_pc = due.pc /\ reg = due.reg
    BY <2>1 DEF RteInv, GoesOn, Program, Untouched
  <2>3. reg' \in [Registers -> Int] /\ mem' \in [0 .. StackWords - 1 -> Int]
        /\ reg'[0] = 0 /\ reg'[sp] = StackWords - 1
    <3>1. StackWords - 1 \in 0 .. StackWords - 1 /\ StackWords - 1 \in Int
      BY RteAssumption DEF FrameWords
    <3>2. reg[1] \in Int
      BY <2>2, RegisterFacts DEF Promised
    <3>3. mem' \in [0 .. StackWords - 1 -> Int]
      BY <2>1, <2>2, <3>1, <3>2 DEF Promised
    <3>4. reg' \in [Registers -> Int] /\ reg'[0] = 0 /\ reg'[sp] = StackWords - 1
      BY <2>1, <2>2, <3>1, RegisterFacts DEF Promised
    <3> QED
      BY <3>3, <3>4
  <2>4. due'.reg = reg' /\ due'.mem = mem' /\ due'.pc = due.pc
        /\ due' = [reg |-> due'.reg, mem |-> due'.mem, pc |-> due'.pc]
    BY <2>1, <2>2 DEF Promised
  <2>5. Promised' /\ StackKept'
    BY <2>1, <2>2, <2>3, <2>4 DEF Promised, Top, StackKept
  <2> QED
    BY <2>1, <2>2, <2>4, <2>5 DEF RteInv, Untouched, Framed, GoesOn, Program
<1>2. CASE Pop
  <2>1. /\ trap_at = "program" /\ trap_at' = "program" /\ reg[sp] = StackWords - 1
        /\ reg' = [reg EXCEPT ![sp] = StackWords, ![1] = mem[StackWords - 1]]
        /\ due' = [due EXCEPT !.reg = reg']
        /\ UNCHANGED <<mem, inst, trap_pc>>
    BY <1>2 DEF Pop, Program
  <2>2. /\ Promised /\ trap_pc = due.pc /\ reg = due.reg
    BY <2>1 DEF RteInv, GoesOn, Program, Untouched
  <2>3. reg' \in [Registers -> Int] /\ reg'[0] = 0 /\ reg'[sp] = StackWords
    <3>1. StackWords - 1 \in 0 .. StackWords - 1 /\ StackWords \in Int
      BY RteAssumption DEF FrameWords
    <3>2. mem[StackWords - 1] \in Int
      BY <2>2, <3>1 DEF Promised
    <3> QED
      BY <2>1, <2>2, <3>1, <3>2, RegisterFacts DEF Promised
  <2>4. due'.reg = reg' /\ due'.mem = due.mem /\ due'.pc = due.pc
        /\ due' = [reg |-> due'.reg, mem |-> due'.mem, pc |-> due'.pc]
    BY <2>1, <2>2 DEF Promised
  <2>5. Promised'
    BY <2>1, <2>2, <2>3, <2>4 DEF Promised, Top
  <2>6. StackKept'
    BY <2>1, <2>2, <2>3, <2>4, RteAssumption DEF StackKept, Promised, Top
  <2> QED
    BY <2>1, <2>2, <2>4, <2>5, <2>6 DEF RteInv, Untouched, Framed, GoesOn, Program
<1>3. ASSUME UNCHANGED <<trap_at, reg, mem, inst, trap_pc, mcause, mepc, mscratch, due>>
      PROVE  RteInv'
  BY <1>3 DEF RteInv, Promised, Top, StackKept, Untouched, Framed, GoesOn, Program, Repeats
<1>4. CASE neorv32_rte_setup
  BY <1>3, <1>4 DEF neorv32_rte_setup
<1>5. CASE EnableInterrupts
  BY <1>3, <1>5 DEF EnableInterrupts
<1>6. CASE ChangeTable
  BY <1>3, <1>6 DEF ChangeTable, csrs
<1> QED
  BY <1>1, <1>2, <1>4, <1>5, <1>6

\* The hart traps; the instruction it was at is repeated or passed over.
LEMMA TrapStep ==
  ASSUME RteInv, NEW insn \in Instructions, NEW cause \in Causes(insn), Trap(insn, cause)
  PROVE  RteInv'
<1>1. /\ trap_at = "program" /\ trap_at' \in {"save", "halted"} /\ inst' = insn /\ mepc' = 0
      /\ due' = [due EXCEPT !.pc = IF Repeats' THEN 0 ELSE insn.size]
      /\ UNCHANGED <<reg, mem>>
  BY DEF Trap, Program, Repeats
<1>2. Promised /\ StackKept /\ reg = due.reg
  BY <1>1 DEF RteInv, Untouched
<1>3. /\ due'.reg = due.reg /\ due'.mem = due.mem /\ due'.pc = IF Repeats' THEN 0 ELSE insn.size
      /\ due' = [reg |-> due'.reg, mem |-> due'.mem, pc |-> due'.pc]
  BY <1>1, <1>2 DEF Promised
<1>4. Promised' /\ StackKept'
  BY <1>1, <1>2, <1>3 DEF Promised, StackKept, Top
<1> QED
  BY <1>1, <1>2, <1>3, <1>4 DEF RteInv, Untouched, Framed, GoesOn, Program

\* The registers are saved below the stack of the program.
LEMMA SaveStep == ASSUME RteInv, Save PROVE RteInv'
<1>1. /\ trap_at = "save" /\ trap_at' = "dispatch" /\ mscratch' = reg[sp] - FrameWords
      /\ mem' = [a \in DOMAIN mem |-> IF a \in DOMAIN Frame(mscratch')
                                      THEN Frame(mscratch')[a] ELSE mem[a]]
      /\ reg' = [reg EXCEPT ![sp] = mscratch', ![1] = reg[sp]]
      /\ UNCHANGED <<inst, trap_pc, mcause, mepc, due>>
  BY DEF Save
<1>2. Promised /\ StackKept /\ GoesOn /\ reg = due.reg
  BY <1>1 DEF RteInv, Untouched
<1>3. DOMAIN mem = 0 .. StackWords - 1 /\ Top \in Int /\ mscratch' \in Int
      /\ mscratch' = Top - FrameWords
  BY <1>1, <1>2, RteAssumption DEF Promised, Top, FrameWords
<1>4. DOMAIN Frame(mscratch') = mscratch' + 1 .. mscratch' + FrameWords - 1
      /\ \A a \in DOMAIN Frame(mscratch') : Frame(mscratch')[a] = reg[a - mscratch']
  BY DEF Frame
<1>5. \A r \in Registers \ {0} : mem'[mscratch' + r] = due.reg[r]
  <2> TAKE r \in Registers \ {0}
  <2>1. mscratch' + r \in DOMAIN mem /\ r \in 1 .. FrameWords - 1
    BY <1>2, <1>3, FrameFits, RegisterFacts DEF Promised, FrameWords
  <2>2. mscratch' + r \in DOMAIN Frame(mscratch') /\ (mscratch' + r) - mscratch' = r
    BY <1>3, <1>4, <2>1 DEF FrameWords
  <2>3. Frame(mscratch')[mscratch' + r] = reg[r]
    BY <1>4, <2>2
  <2> QED
    BY <1>1, <1>2, <2>1, <2>2, <2>3
<1>6. \A a \in DOMAIN mem' : a >= Top => mem'[a] = due.mem[a]
  <2> SUFFICES ASSUME NEW a \in DOMAIN mem', a >= Top PROVE mem'[a] = due.mem[a]
    OBVIOUS
  <2>1. a \in DOMAIN mem /\ a \in Int
    BY <1>1, <1>3
  <2>2. a \notin DOMAIN Frame(mscratch')
    BY <1>3, <1>4, <2>1 DEF FrameWords
  <2> QED
    BY <1>1, <1>2, <2>1, <2>2 DEF StackKept
<1>7. mem' \in [0 .. StackWords - 1 -> Int]
  <2>1. \A a \in DOMAIN Frame(mscratch') : a - mscratch' \in Registers
    BY <1>3, <1>4 DEF FrameWords, Registers
  <2>2. \A a \in DOMAIN Frame(mscratch') : Frame(mscratch')[a] \in Int
    BY <1>2, <1>4, <2>1 DEF Promised
  <2> QED
    BY <1>1, <1>2, <1>3, <2>2 DEF Promised
<1>8. reg' \in [Registers -> Int] /\ reg'[sp] = mscratch'
  BY <1>1, <1>2, <1>3, RegisterFacts DEF Promised
<1>9. Promised'
  BY <1>1, <1>2, <1>7, <1>8 DEF Promised, Top
<1> QED
  BY <1>1, <1>2, <1>3, <1>5, <1>6, <1>8, <1>9
     DEF RteInv, StackKept, Untouched, Framed, GoesOn, Program, Repeats, Top

\* What a handler does of its own: it clobbers registers and uses the stack below the frame.
LEMMA HandlerUses ==
  ASSUME RteInv, trap_at = "handler"
  PROVE  /\ Used(reg[sp]) \in [0 .. StackWords - 1 -> Int]
         /\ Clobbered \in [Registers -> Int] /\ Clobbered[sp] = reg[sp]
         /\ \A r \in Registers \ {0} : Used(reg[sp])[mscratch + r] = due.reg[r]
         /\ \A a \in 0 .. StackWords - 1 : a >= Top => Used(reg[sp])[a] = due.mem[a]
<1>1. Promised /\ StackKept /\ Framed
  BY DEF RteInv
<1>2. /\ DOMAIN mem = 0 .. StackWords - 1 /\ Top \in Int /\ reg[sp] = Top - FrameWords
      /\ mscratch = Top - FrameWords /\ reg[sp] \in Int /\ reg[sp] < Top
      /\ \A r \in Registers \ {0} : mem[mscratch + r] = due.reg[r]
  BY <1>1, RteAssumption DEF Promised, Framed, FrameWords
<1>3. Used(reg[sp]) \in [0 .. StackWords - 1 -> Int]
  BY <1>1, <1>2 DEF Used, Promised, Junk
<1>4. Clobbered \in [Registers -> Int] /\ Clobbered[sp] = reg[sp]
  BY <1>1 DEF Clobbered, Promised, Registers, sp, Junk
<1>5. \A a \in 0 .. StackWords - 1 : a >= reg[sp] => Used(reg[sp])[a] = mem[a]
  BY <1>2 DEF Used
<1>6. \A r \in Registers \ {0} : Used(reg[sp])[mscratch + r] = due.reg[r]
  <2> TAKE r \in Registers \ {0}
  <2>1. mscratch + r \in 0 .. StackWords - 1 /\ r \in Nat
    <3>1. Top - FrameWords + r \in 0 .. StackWords - 1
      BY <1>1, FrameFits DEF Promised
    <3>2. r \in Nat
      BY RegisterFacts DEF FrameWords
    <3> QED
      BY <1>2, <3>1, <3>2
  <2>2. mscratch + r >= reg[sp]
    BY <1>2, <2>1 DEF FrameWords
  <2> QED
    BY <1>2, <1>5, <2>1, <2>2
<1>7. \A a \in 0 .. StackWords - 1 : a >= Top => Used(reg[sp])[a] = due.mem[a]
  <2> SUFFICES ASSUME NEW a \in 0 .. StackWords - 1, a >= Top
               PROVE  Used(reg[sp])[a] = due.mem[a]
    OBVIOUS
  <2>1. mem[a] = due.mem[a]
    BY <1>1, <1>2 DEF StackKept
  <2>2. a >= reg[sp]
    BY <1>2
  <2> QED
    BY <1>5, <2>1, <2>2
<1> QED
  BY <1>3, <1>4, <1>6, <1>7

\* A handler that returns and has written a register x of the program through the frame, or
\* none, leaves it due to find that.
LEMMA HandlerReturns ==
  ASSUME RteInv, trap_at = "handler", trap_at' = "adjust", reg' = Clobbered,
         UNCHANGED <<inst, trap_pc, mcause, mepc, mscratch>>,
         \/ mem' = Used(reg[sp]) /\ UNCHANGED due
         \/ \E x \in {0, 1}, data \in Int :
              /\ neorv32_rte_context_put(x, data)
              /\ due' = [due EXCEPT !.reg[x] = IF x = 0 THEN 0 ELSE data]
  PROVE  RteInv'
<1>1. Promised /\ Framed /\ GoesOn
  BY DEF RteInv
<1>2. /\ mscratch = Top - FrameWords /\ reg[sp] = mscratch /\ Top \in Int
  BY <1>1, RteAssumption DEF Framed, Promised
<1>3. PICK x \in {0, 1} :
        /\ \/ x = 0 /\ mem' = Used(reg[sp])
           \/ x = 1 /\ \E data \in Int : mem' = [Used(reg[sp]) EXCEPT ![mscratch + 1] = data]
        /\ due'.reg = [due.reg EXCEPT ![x] = IF x = 0 THEN 0 ELSE mem'[mscratch + 1]]
        /\ due'.mem = due.mem /\ due'.pc = due.pc
        /\ due' = [reg |-> due'.reg, mem |-> due'.mem, pc |-> due'.pc]
  <2>1. CASE mem' = Used(reg[sp]) /\ UNCHANGED due
    <3>1. [due.reg EXCEPT ![0] = 0] = due.reg
      BY <1>1 DEF Promised
    <3> QED
      BY <1>1, <2>1, <3>1 DEF Promised
  <2>2. ASSUME NEW x \in {0, 1}, NEW data \in Int, neorv32_rte_context_put(x, data),
               due' = [due EXCEPT !.reg[x] = IF x = 0 THEN 0 ELSE data]
        PROVE  /\ \/ x = 0 /\ mem' = Used(reg[sp])
                  \/ x = 1 /\ mem' = [Used(reg[sp]) EXCEPT ![mscratch + 1] = data]
               /\ due'.reg = [due.reg EXCEPT ![x] = IF x = 0 THEN 0 ELSE mem'[mscratch + 1]]
               /\ due'.mem = due.mem /\ due'.pc = due.pc
               /\ due' = [reg |-> due'.reg, mem |-> due'.mem, pc |-> due'.pc]
    <3>1. mscratch + 1 \in 0 .. StackWords - 1
      BY <1>1, <1>2, FrameFits, RegisterFacts DEF Promised
    <3>2. x = 1 => mem' = [Used(reg[sp]) EXCEPT ![mscratch + 1] = data]
                   /\ mem'[mscratch + 1] = data
      <4> SUFFICES ASSUME x = 1 PROVE mem' = [Used(reg[sp]) EXCEPT ![mscratch + 1] = data]
                                      /\ mem'[mscratch + 1] = data
        OBVIOUS
      <4>1. mem' = [Used(reg[sp]) EXCEPT ![mscratch + 1] = data]
        BY <2>2 DEF neorv32_rte_context_put
      <4>2. Used(reg[sp]) \in [0 .. StackWords - 1 -> Int]
        BY HandlerUses
      <4> QED
        BY <3>1, <4>1, <4>2
    <3>3. due'.reg = [due.reg EXCEPT ![x] = IF x = 0 THEN 0 ELSE data]
          /\ due'.mem = due.mem /\ due'.pc = due.pc
          /\ due' = [reg |-> due'.reg, mem |-> due'.mem, pc |-> due'.pc]
      BY <1>1, <2>2 DEF Promised
    <3> QED
      BY <2>2, <3>2, <3>3 DEF neorv32_rte_context_put
  <2> QED
    BY <2>1, <2>2
<1>4. mem' \in [0 .. StackWords - 1 -> Int]
  BY <1>3, HandlerUses
<1>5. /\ mscratch + 1 \in 0 .. StackWords - 1 /\ mscratch + 1 < Top
  BY <1>1, <1>2, FrameFits, RegisterFacts DEF Promised
<1>6. /\ due'.reg \in [Registers -> Int] /\ due'.reg[0] = 0 /\ due'.reg[sp] = due.reg[sp]
      /\ \A r \in Registers \ {0, x} : due'.reg[r] = due.reg[r]
      /\ x = 1 => due'.reg[1] = mem'[mscratch + 1]
  BY <1>1, <1>3, <1>4, <1>5, RegisterFacts DEF Promised
<1>7. Top' = Top
  BY <1>6 DEF Top
<1>8. \A r \in Registers \ {0} : mem'[mscratch + r] = due'.reg[r]
  <2> TAKE r \in Registers \ {0}
  <2>1. mscratch + r \in 0 .. StackWords - 1 /\ r \in Int /\ mscratch \in Int
    <3>1. Top - FrameWords + r \in 0 .. StackWords - 1 /\ Top - FrameWords \in Int
      BY <1>1, <1>2, FrameFits DEF Promised, FrameWords
    <3>2. r \in Int
      BY RegisterFacts DEF FrameWords
    <3> QED
      BY <1>2, <3>1, <3>2
  <2>2. CASE x = 1 /\ r = 1
    BY <1>6, <2>2
  <2>3. CASE x = 0
    BY <1>3, <1>6, <2>3, HandlerUses
  <2>4. CASE x = 1 /\ r # 1
    <3>1. mscratch + r # mscratch + 1
      BY <2>1, <2>4
    <3> QED
      BY <1>3, <1>5, <1>6, <2>1, <2>4, <3>1, HandlerUses
  <2> QED
    BY <2>2, <2>3, <2>4
<1>9. \A a \in DOMAIN mem' : a >= Top => mem'[a] = due.mem[a]
  <2> SUFFICES ASSUME NEW a \in 0 .. StackWords - 1, a >= Top PROVE mem'[a] = due.mem[a]
    BY <1>4
  <2>1. a # mscratch + 1
    BY <1>2, <1>5
  <2>2. mem'[a] = Used(reg[sp])[a]
    BY <1>3, <1>5, <2>1, HandlerUses
  <2> QED
    BY <2>2, HandlerUses
<1>10. Promised'
  BY <1>1, <1>3, <1>4, <1>6, HandlerUses DEF Promised, Top
<1>11. StackKept' /\ Framed'
  BY <1>2, <1>3, <1>7, <1>8, <1>9, HandlerUses DEF StackKept, Framed
<1>12. GoesOn'
  BY <1>1, <1>3 DEF GoesOn, Program, Repeats
<1> QED
  BY <1>10, <1>11, <1>12 DEF RteInv, Untouched

\* The handlers: each returns, or stops the hart.
LEMMA HandlerStep ==
  ASSUME RteInv, Plain \/ trap_handler_emulate_unaligned_lw \/ Panic
  PROVE  RteInv'
<1>1. CASE Plain
  <2>1. Data(0) \in Int /\ Data(1) \in Int
    BY DEF Data
  <2> QED
    BY <1>1, <2>1, HandlerReturns DEF Plain, InHandler, Returns, csrs
<1>2. CASE trap_handler_emulate_unaligned_lw
  <2>1. Promised /\ trap_at = "handler" /\ Framed
    BY <1>2 DEF RteInv, trap_handler_emulate_unaligned_lw, InHandler
  <2>2. inst.rd \in {0, 1} /\ inst.rs1 \in Registers
    BY <2>1, InstructionFacts, RegisterFacts DEF Promised
  <2>3. neorv32_rte_context_get(inst.rs1) = due.reg[inst.rs1]
    BY <2>1, <2>2 DEF neorv32_rte_context_get, Framed, Promised
  <2>4. Data(due.reg[inst.rs1] + inst.imm) \in Int
    <3>1. inst.imm = 1
      BY <2>1, InstructionFacts DEF Promised
    <3>2. due.reg[inst.rs1] \in Int
      BY <2>1, <2>2 DEF Promised
    <3> QED
      BY <3>1, <3>2 DEF Data
  <2> QED
    BY <1>2, <2>2, <2>3, <2>4, HandlerReturns
       DEF trap_handler_emulate_unaligned_lw, InHandler, Returns, csrs
<1>3. CASE Panic
  <2>1. CASE mcause \in Fatal
    BY <1>3, <2>1 DEF Panic, RteInv, Promised, Top
  <2>2. CASE mcause \notin Fatal
    BY <1>3, <2>2, HandlerReturns DEF Panic, InHandler, Returns
  <2> QED
    BY <2>1, <2>2
<1> QED
  BY <1>1, <1>2, <1>3

\* The way into and out of the handler.
LEMMA ReturnStep ==
  ASSUME RteInv, Dispatch \/ AdjustMepc \/ Restore \/ Mret
  PROVE  RteInv'
<1>1. CASE Dispatch
  BY <1>1 DEF Dispatch, csrs, RteInv, Promised, Top, StackKept, Untouched, Framed, GoesOn,
              Program, Repeats
<1>2. CASE AdjustMepc
  <2>1. Promised /\ GoesOn /\ inst.size \in {2, 4}
    BY <1>2, InstructionFacts DEF AdjustMepc, RteInv, Promised
  <2>2. mepc' = due.pc
    BY <1>2, <2>1 DEF AdjustMepc, GoesOn
  <2> QED
    BY <1>2, <2>2 DEF AdjustMepc, RteInv, Promised, Top, StackKept, Untouched, Framed, GoesOn,
                      Program
<1>3. CASE Restore
  <2>1. /\ trap_at = "restore" /\ trap_at' = "mret" /\ UNCHANGED <<mem, inst, trap_pc, mepc, due>>
        /\ reg' = [r \in Registers |-> IF r = 0 THEN 0 ELSE mem[reg[sp] + r]]
    BY <1>3 DEF Restore, csrs
  <2>2. Promised /\ StackKept /\ Framed /\ GoesOn
    BY <2>1 DEF RteInv
  <2>3. \A r \in Registers : reg'[r] = due.reg[r]
    BY <2>1, <2>2 DEF Framed, Promised
  <2>4. reg' = due.reg
    BY <2>1, <2>2, <2>3 DEF Promised
  <2> QED
    BY <2>1, <2>2, <2>4 DEF RteInv, Promised, Top, StackKept, Untouched, Framed, GoesOn, Program
<1>4. CASE Mret
  <2>1. /\ trap_at = "mret" /\ trap_at' = "program" /\ trap_pc' = mepc /\ inst' = Lw
        /\ mem' = Used(reg[sp]) /\ UNCHANGED <<reg, due>>
    BY <1>4 DEF Mret
  <2>2. Promised /\ StackKept /\ GoesOn /\ reg = due.reg
    BY <2>1 DEF RteInv, Untouched
  <2>3. mem' \in [0 .. StackWords - 1 -> Int]
        /\ \A a \in DOMAIN mem' : a >= Top => mem'[a] = mem[a]
    BY <2>1, <2>2, RteAssumption DEF Used, Promised, Junk, Top
  <2>4. Lw \in Instructions
    BY InstructionFacts
  <2>5. Promised' /\ StackKept'
    <3>1. DOMAIN mem' = DOMAIN mem
      BY <2>2, <2>3 DEF Promised
    <3> QED
      BY <2>1, <2>2, <2>3, <2>4, <3>1 DEF Promised, StackKept, Top
  <2> QED
    BY <2>1, <2>2, <2>5 DEF RteInv, Untouched, Framed, GoesOn, Program
<1> QED
  BY <1>1, <1>2, <1>3, <1>4

\* Whatever traps the program, whatever handlers do with stack, registers and frame, and
\* whatever the other hart does to the table.
THEOREM RteIsTransparent == RteSpec => []TrapIsTransparent
<1>1. RteInv /\ [RteNext]_rteVars => RteInv'
  <2> SUFFICES ASSUME RteInv, [RteNext]_rteVars PROVE RteInv'
    OBVIOUS
  <2>1. CASE UNCHANGED rteVars
    BY <2>1 DEF rteVars, csrs, RteInv, Promised, Top, StackKept, Untouched, Framed, GoesOn,
                Program, Repeats
  <2>2. CASE RteNext
    BY <2>2, ProgramStep, TrapStep, SaveStep, HandlerStep, ReturnStep DEF RteNext
  <2> QED
    BY <2>1, <2>2
<1>2. RteInv => TrapIsTransparent
  BY DEF RteInv, TrapIsTransparent, Untouched, GoesOn, StackKept, Program, Top
<1> QED
  BY RteInitially, <1>1, <1>2, PTL DEF RteSpec

-------------------------------------------------------------------------------
(* The debugger knows the registers, for any number of harts and whatever   *)
(* the debugger uses of the module.                                         *)

Firmware == {"entry_exception", "entry_park", "park_loop", "look_exe", "look_res", "resume", "dret"}
Executing == {"execute", "transfer", "progbuf"}
Idling == {"park_loop", "look_exe", "look_res", "resume", "dret"}
DebugWords == {"0", "1", Flag}

Knows(b, value) == b \in {Unknown, value}

DebugTypeOK ==
  /\ kit \in Kits
  /\ dm_reg.hartsel \in HartIds
  /\ cmd_state \in {"CMD_IDLE", "CMD_CHECK", "CMD_START", "CMD_PENDING"}
  /\ at \in [HartIds -> {"run"} \union Firmware \union Executing]
  /\ x8 \in [HartIds -> DebugWords] /\ dscratch0 \in [HartIds -> DebugWords]
  /\ hart \in [halted : SUBSET HartIds, resume_req : SUBSET HartIds, resume_ack : SUBSET HartIds]
  /\ dci \in [ack_hlt : SUBSET HartIds, ack_res : SUBSET HartIds, ack_exe : SUBSET HartIds,
             ack_exc : SUBSET HartIds, data_reg : DebugWords]
  /\ belief \in [x8 : [HartIds -> DebugWords \union {Unknown}], data : DebugWords \union {Unknown}]
  /\ order # NoOrder => order.hart \in HartIds

\* An acknowledge is of the last access, so that hart has not gone on.
LastAcknowledged ==
  /\ \A h \in dci.ack_hlt : h = last /\ at[h] = "look_exe"
  /\ \A h \in dci.ack_res : h = last /\ at[h] = "dret"
  /\ \A h \in dci.ack_exe : h = last /\ at[h] = "transfer"
  /\ \A h \in dci.ack_exc : h = last /\ at[h] = "entry_park"

\* A command is that of the registers, and they do not change under it.
Ordered ==
  /\ order = NoOrder <=> cmd_state \in {"CMD_IDLE", "CMD_CHECK"}
  /\ order # NoOrder =>
       /\ order.hart = dm_reg.hartsel /\ order.command = dm_reg.command
       /\ order.progbuf = dm_reg.progbuf /\ order.data = belief.data
       /\ order.alone => Strays = {}

\* A hart that is called halted is in its park loop, and leaves it only as it is called running.
Parked ==
  \A h \in hart.halted :
    /\ at[h] # "run" /\ (at[h] = "dret" => h \in dci.ack_res)
    /\ h # order.hart => at[h] \in Idling

\* Where the hart of a command is.
Obeyed ==
  /\ cmd_state = "CMD_START" =>
       /\ at[order.hart] \notin {"progbuf", "entry_exception"}
       /\ at[order.hart] = "transfer" => order.hart \in dci.ack_exe
  /\ cmd_state = "CMD_PENDING" =>
       /\ at[order.hart] \in {"transfer", "progbuf", "entry_exception", "entry_park", "look_exe"}
       /\ at[order.hart] = "look_exe" => order.hart \in dci.ack_hlt

StraysUnknown ==
  /\ \A h \in Strays : belief.x8[h] = Unknown
  /\ Strays # {} => belief.data = Unknown

\* The register and the data buffer after the command.
OldX8 == IF order.command.transfer = "lw" THEN order.data ELSE belief.x8[order.hart]
NewX8 == IF Flips(order.command, order.progbuf) THEN Flip(OldX8) ELSE OldX8
Loaded == cmd_state = "CMD_PENDING" /\ at[order.hart] # "transfer"
Done == Loaded /\ at[order.hart] # "progbuf"
Stored == Loaded /\ order.command.transfer = "sw"

Known ==
  /\ \A h \in HartIds \ Strays : ~(Loaded /\ h = order.hart) => Knows(belief.x8[h], Own(h))
  /\ Loaded => Knows(IF Done THEN NewX8 ELSE OldX8, Own(order.hart))
  /\ ~Stored => Knows(belief.data, dci.data_reg)
  /\ Stored /\ order.alone => Knows(belief.x8[order.hart], dci.data_reg)

Told ==
  /\ told => cmd_err # "none" \/ (cmd_state # "CMD_IDLE" /\ dm_reg.set_acc_err)
  /\ Done /\ Traps(order.command, order.progbuf) /\ at[order.hart] # "entry_exception" =>
       cmd_err # "none" \/ order.hart \in dci.ack_exc

DebugInv == DebugTypeOK /\ LastAcknowledged /\ Ordered /\ Parked /\ Obeyed /\ StraysUnknown /\ Known /\ Told

\* One hart of a step of the harts: it stays, or it goes on in the firmware.
GoesTo(g, place, x, scratch) == at'[g] = place /\ x8'[g] = x /\ dscratch0'[g] = scratch
Stays(g) == GoesTo(g, at[g], x8[g], dscratch0[g])
GoesOnFrom(g) ==
  \/ at[g] = "run" /\ GoesTo(g, "entry_park", x8[g], dscratch0[g])
  \/ at[g] = "entry_exception" /\ GoesTo(g, "entry_park", x8[g], dscratch0[g])
  \/ at[g] = "entry_park" /\ GoesTo(g, "look_exe", x8[g], x8[g])
  \/ at[g] = "park_loop" /\ GoesTo(g, "look_exe", x8[g], dscratch0[g])
  \/ at[g] = "look_exe" /\ g \in req_exe /\ GoesTo(g, "execute", Flag, dscratch0[g])
  \/ at[g] = "look_exe" /\ g \notin req_exe /\ GoesTo(g, "look_res", Flag, dscratch0[g])
  \/ at[g] = "look_res" /\ \E p \in {"resume", "park_loop"} : GoesTo(g, p, Flag, dscratch0[g])
  \/ at[g] = "resume" /\ GoesTo(g, "dret", dscratch0[g], dscratch0[g])
  \/ at[g] = "dret" /\ GoesTo(g, "run", x8[g], dscratch0[g])
  \/ at[g] = "execute" /\ GoesTo(g, "transfer", dscratch0[g], dscratch0[g])
  \/ at[g] = "transfer"
     /\ GoesTo(g, "progbuf", IF dm_reg.command.transfer = "lw" THEN dci.data_reg ELSE x8[g],
              dscratch0[g])
  \/ at[g] = "progbuf"
     /\ GoesTo(g, IF Traps(dm_reg.command, dm_reg.progbuf) THEN "entry_exception" ELSE "entry_park",
              IF Flips(dm_reg.command, dm_reg.progbuf) THEN Flip(x8[g]) ELSE x8[g], dscratch0[g])

LEMMA HartMoves ==
  ASSUME DebugTypeOK, NEW h \in HartIds \union {NoHart}, ~ndmrst, Steps(h), NEW g \in HartIds
  PROVE  IF g = h THEN h # last /\ GoesOnFrom(g) ELSE Stays(g)
<1>1. NoHart \notin HartIds
  BY DEF NoHart, HartIds
<1>2. ASSUME NEW place, NEW x, NEW scratch, h \in HartIds, Goes(h, place, x, scratch)
      PROVE  IF g = h THEN GoesTo(g, place, x, scratch) ELSE Stays(g)
  BY <1>2 DEF Goes, GoesTo, Stays, DebugTypeOK
<1>3. CASE h = NoHart
  BY <1>1, <1>3 DEF Steps, Stays, GoesTo
<1>4. CASE h # NoHart
  <2>1. h \in HartIds /\ h # last /\ (EnterDebug(h) \/ InFirmware(h))
    BY <1>4 DEF Steps
  <2>2. CASE EnterDebug(h)
    BY <1>2, <2>1, <2>2 DEF EnterDebug, GoesOnFrom
  <2>3. CASE entry_exception(h)
    BY <1>2, <2>1, <2>3 DEF entry_exception, GoesOnFrom
  <2>4. CASE entry_park(h)
    BY <1>2, <2>1, <2>4 DEF entry_park, GoesOnFrom
  <2>5. CASE park_loop(h)
    BY <1>2, <2>1, <2>5 DEF park_loop, GoesOnFrom
  <2>6. CASE look_exe(h)
    BY <1>2, <2>1, <2>6 DEF look_exe, GoesOnFrom
  <2>7. CASE look_res(h)
    BY <1>2, <2>1, <2>7 DEF look_res, GoesOnFrom
  <2>8. CASE resume(h)
    BY <1>2, <2>1, <2>8 DEF resume, GoesOnFrom
  <2>9. CASE dret(h)
    BY <1>2, <2>1, <2>9 DEF dret, GoesOnFrom
  <2>10. CASE execute(h)
    BY <1>2, <2>1, <2>10 DEF execute, GoesOnFrom
  <2>11. CASE transfer(h)
    BY <1>2, <2>1, <2>11 DEF transfer, GoesOnFrom
  <2>12. CASE progbuf(h)
    BY <1>2, <2>1, <2>12 DEF progbuf, GoesOnFrom
  <2> QED
    BY <2>1, <2>2, <2>3, <2>4, <2>5, <2>6, <2>7, <2>8, <2>9, <2>10, <2>11, <2>12 DEF InFirmware
<1> QED
  BY <1>3, <1>4

LEMMA HartsAre ==
  ASSUME DebugTypeOK, NEW h \in HartIds \union {NoHart}, ~ndmrst, Steps(h)
  PROVE  /\ at' = [g \in HartIds |-> at'[g]] /\ x8' = [g \in HartIds |-> x8'[g]]
         /\ dscratch0' = [g \in HartIds |-> dscratch0'[g]]
<1>1. ASSUME NEW place, NEW x, NEW scratch, Goes(h, place, x, scratch)
      PROVE  /\ at' = [g \in HartIds |-> at'[g]] /\ x8' = [g \in HartIds |-> x8'[g]]
             /\ dscratch0' = [g \in HartIds |-> dscratch0'[g]]
  BY <1>1 DEF Goes, DebugTypeOK
<1>2. CASE UNCHANGED <<at, x8, dscratch0>>
  BY <1>2 DEF DebugTypeOK
<1>3. CASE EnterDebug(h) \/ entry_exception(h) \/ entry_park(h) \/ park_loop(h) \/ look_exe(h)
  BY <1>1, <1>3 DEF EnterDebug, entry_exception, entry_park, park_loop, look_exe
<1>4. CASE look_res(h) \/ resume(h) \/ dret(h) \/ execute(h) \/ transfer(h) \/ progbuf(h)
  BY <1>1, <1>4 DEF look_res, resume, dret, execute, transfer, progbuf
<1> QED
  BY <1>2, <1>3, <1>4 DEF Steps, InFirmware

\* What the debugger writes.
LEMMA AccessFacts ==
  ASSUME kit \in Kits, NEW dmi \in {Quiet} \union Accesses
  PROVE  /\ dmi.addr = "dmcontrol" => dmi.hartsel \in HartIds
         /\ dmi.addr = "data0" => dmi.data \in {"0", "1"}
<1>1. kit.harts \subseteq HartIds /\ kit.words \subseteq {"0", "1"} /\ FirstHart \in HartIds
  BY DebugAssumption DEF FirstHart, HartIds
<1>2. CASE dmi = Quiet
  BY <1>2 DEF Quiet
<1>3. CASE dmi \in [addr : {"dmcontrol"}, wr : {TRUE}, haltreq : BOOLEAN, resumereq : kit.resumes,
                    hartsel : kit.harts, ndmreset : {FALSE}, dmactive : {TRUE}]
  BY <1>1, <1>3
<1>4. CASE dmi \in {Control(reset) : reset \in kit.resets}
  <2>1. PICK reset \in kit.resets : dmi = Control(reset)
    BY <1>4
  <2> QED
    BY <1>1, <2>1 DEF Control
<1>5. CASE dmi \in [addr : {"command"}, wr : {TRUE}, data : kit.commands]
  BY <1>5
<1>6. CASE dmi \in [addr : {"abstractauto"}, wr : {TRUE}, data : kit.autos]
  BY <1>6
<1>7. CASE dmi \in [addr : {"abstractcs"}, wr : {TRUE}]
  BY <1>7
<1>8. CASE dmi \in [addr : {"data0"}, wr : BOOLEAN, data : kit.words]
  BY <1>1, <1>8
<1>9. CASE dmi \in [addr : {"progbuf"}, wr : BOOLEAN, data : kit.programs]
  BY <1>9
<1> QED
  BY <1>2, <1>3, <1>4, <1>5, <1>6, <1>7, <1>8, <1>9 DEF Accesses

\* The initial state satisfies the invariant.
LEMMA DebugInitially == ASSUME DebugInit PROVE DebugInv
<1>1. FirstHart \in HartIds
  BY DebugAssumption DEF FirstHart, HartIds
<1>2. order = NoOrder /\ cmd_state = "CMD_IDLE" /\ Strays = {}
  BY DEF DebugInit, Strays
<1>3. DebugTypeOK
  BY <1>1, <1>2 DEF DebugInit, DebugTypeOK, DebugWords
<1>4. LastAcknowledged /\ Ordered /\ Parked /\ Obeyed /\ StraysUnknown
  BY <1>2 DEF DebugInit, LastAcknowledged, Ordered, Parked, Obeyed, StraysUnknown
<1>5. Known
  BY <1>2 DEF DebugInit, Known, Loaded, Stored, Knows, Own
<1>6. Told
  BY <1>2 DEF DebugInit, Told, Done, Loaded
<1> QED
  BY <1>3, <1>4, <1>5, <1>6 DEF DebugInv

\* A reset of the system.
LEMMA ModuleReset ==
  ASSUME DebugInv, NEW dmi \in {Quiet} \union Accesses, NEW h \in HartIds \union {NoHart},
         Edge(dmi, h), ndmrst
  PROVE  DebugInv'
<1> USE DEF DebugInv
<1>1. /\ at' = [i \in HartIds |-> "run"] /\ x8' = [i \in HartIds |-> "0"]
      /\ dscratch0' = dscratch0 /\ kit' = kit
      /\ cmd_state' = "CMD_IDLE" /\ cmd_err' = "none" /\ told' = FALSE /\ order' = NoOrder
      /\ belief' = [x8 |-> [i \in HartIds |-> "0"], data |-> Unknown]
      /\ hart'.halted = {}
  BY DEF Edge, Steps, ndmrst, Reset, cmd_arbiter, record_told, record_order, record_belief, hart_status
<1>2. /\ dci'.ack_hlt = {} /\ dci'.ack_res = {} /\ dci'.ack_exe = {} /\ dci'.ack_exc = {}
      /\ dci'.data_reg \in DebugWords
  BY AccessFacts DEF Edge, bus_access, Free, Writes, Touches, DebugTypeOK, DebugWords
<1>3. dm_reg'.hartsel \in HartIds
  <2>1. FirstHart \in HartIds
    BY DebugAssumption DEF FirstHart, HartIds
  <2> QED
    BY <2>1, AccessFacts DEF Edge, dmi_write_access, Free, Writes, Touches, DebugTypeOK
<1>4. Strays' = {}
  BY <1>1 DEF Strays
<1>5. DebugTypeOK'
  <2>1. hart' \in [halted : SUBSET HartIds, resume_req : SUBSET HartIds, resume_ack : SUBSET HartIds]
    BY DEF Edge, hart_status, Reset, ndmrst
  <2>2. dci' \in [ack_hlt : SUBSET HartIds, ack_res : SUBSET HartIds, ack_exe : SUBSET HartIds,
                 ack_exc : SUBSET HartIds, data_reg : DebugWords]
    BY <1>2 DEF Edge, bus_access
  <2> QED
    BY <1>1, <1>3, <2>1, <2>2 DEF DebugTypeOK, DebugWords
<1>6. (LastAcknowledged /\ Ordered /\ Parked /\ Obeyed /\ StraysUnknown)'
  BY <1>1, <1>2, <1>4 DEF LastAcknowledged, Ordered, Parked, Obeyed, StraysUnknown
<1>7. Known'
  BY <1>1, <1>4 DEF Known, Loaded, Stored, Knows, Own
<1>8. Told'
  BY <1>1 DEF Told, Done, Loaded
<1> QED
  BY <1>5, <1>6, <1>7, <1>8

\* What a step without a reset of the system does to the harts and to the acknowledges.
HartsStep(h) ==
  /\ \A g \in HartIds : IF g = h THEN h # last /\ GoesOnFrom(g) ELSE Stays(g)
  /\ last' = h
  /\ dci'.ack_hlt = {g \in HartIds : g = h /\ at[g] \in {"entry_park", "park_loop"}}
  /\ dci'.ack_res = {g \in HartIds : g = h /\ at[g] = "resume"}
  /\ dci'.ack_exe = {g \in HartIds : g = h /\ at[g] = "execute"}
  /\ dci'.ack_exc = {g \in HartIds : g = h /\ at[g] = "entry_exception"}

LEMMA HartsGoOn ==
  ASSUME DebugInv, NEW dmi \in {Quiet} \union Accesses, NEW h \in HartIds \union {NoHart},
         Edge(dmi, h), ~ndmrst
  PROVE  HartsStep(h)
<1>1. \A g \in HartIds : IF g = h THEN h # last /\ GoesOnFrom(g) ELSE Stays(g)
  BY HartMoves DEF DebugInv, Edge
<1>2. NoHart \notin HartIds
  BY DEF NoHart, HartIds
<1> QED
  BY <1>1, <1>2 DEF HartsStep, Edge, bus_access

\* What it does to the arbiter and to the command.
Started == [hart |-> dm_reg.hartsel, command |-> dm_reg.command, progbuf |-> dm_reg.progbuf,
            data |-> belief.data, alone |-> Strays = {}]
ArbiterStep ==
  \/ /\ Reset /\ cmd_state' = "CMD_IDLE" /\ cmd_err' = "none" /\ order' = NoOrder
     /\ hart'.halted = {}
  \/ /\ ~Reset /\ cmd_state = "CMD_IDLE" /\ cmd_state' \in {"CMD_IDLE", "CMD_CHECK"}
     /\ order' = order
  \/ /\ ~Reset /\ Accepted /\ cmd_state' = "CMD_START" /\ order' = Started
  \/ /\ ~Reset /\ cmd_state = "CMD_CHECK" /\ ~Accepted /\ cmd_state' = "CMD_IDLE"
     /\ cmd_err' # "none" /\ order' = order
  \/ /\ ~Reset /\ cmd_state = "CMD_START" /\ order' = order /\ cmd_err' = cmd_err
     /\ cmd_state' = IF order.hart \in dci.ack_exe THEN "CMD_PENDING" ELSE cmd_state
  \/ /\ ~Reset /\ cmd_state = "CMD_PENDING" /\ CMD_PENDING
     /\ order' = IF order.hart \in dci.ack_hlt THEN NoOrder ELSE order
     /\ cmd_state' = IF order.hart \in dci.ack_hlt THEN "CMD_IDLE" ELSE cmd_state

LEMMA ArbiterGoesOn ==
  ASSUME DebugInv, NEW dmi \in {Quiet} \union Accesses, NEW h \in HartIds \union {NoHart},
         Edge(dmi, h)
  PROVE  ArbiterStep
<1> USE DEF DebugInv
<1>1. CASE Reset
  BY <1>1 DEF ArbiterStep, Edge, cmd_arbiter, record_order, hart_status
<1>2. CASE ~Reset /\ CMD_IDLE(dmi)
  BY <1>2 DEF ArbiterStep, Edge, CMD_IDLE, record_order, Accepted, Completed
<1>3. CASE ~Reset /\ CMD_CHECK
  BY <1>3 DEF ArbiterStep, Edge, CMD_CHECK, record_order, Accepted, Completed, Started
<1>4. CASE ~Reset /\ CMD_START
  BY <1>4 DEF ArbiterStep, Edge, CMD_START, record_order, Accepted, Completed, Ordered
<1>5. CASE ~Reset /\ CMD_PENDING
  BY <1>5 DEF ArbiterStep, Edge, CMD_PENDING, record_order, Accepted, Completed, Ordered
<1> QED
  BY <1>1, <1>2, <1>3, <1>4, <1>5 DEF Edge, cmd_arbiter

\* A hart that has an order is one of the processor, and only such an order is one.
LEMMA OrderFacts ==
  ASSUME DebugTypeOK, Ordered
  PROVE  /\ order = NoOrder => order.hart = NoHart
         /\ order.hart \in HartIds <=> order # NoOrder
         /\ req_exe = IF cmd_state = "CMD_START" THEN {order.hart} ELSE {}
<1>1. NoHart \notin HartIds /\ (order # NoOrder => order.hart \in HartIds)
  BY DEF NoHart, HartIds, DebugTypeOK
<1>2. order = NoOrder => order.hart = NoHart
  BY DEF NoOrder
<1>3. req_exe = IF cmd_state = "CMD_START" THEN {order.hart} ELSE {}
  BY DEF Ordered, req_exe
<1> QED
  BY <1>1, <1>2, <1>3

LEMMA OrderRecords == ASSUME DebugTypeOK PROVE Started # NoOrder /\ Started.hart = dm_reg.hartsel
  BY DEF Started, NoOrder, NoHart, DebugTypeOK, HartIds

\* Acknowledges are of the last access.
LEMMA AcknowledgedNext ==
  ASSUME NEW h \in HartIds \union {NoHart}, HartsStep(h) PROVE LastAcknowledged'
  BY DEF HartsStep, LastAcknowledged, GoesOnFrom, GoesTo

\* A hart that is called halted stays in its park loop.
LEMMA ParkedNext ==
  ASSUME DebugInv, NEW dmi \in {Quiet} \union Accesses, NEW h \in HartIds \union {NoHart},
         Edge(dmi, h), ~ndmrst, HartsStep(h), ArbiterStep
  PROVE  Parked'
<1> SUFFICES ASSUME NEW g \in hart'.halted
             PROVE  /\ at'[g] # "run" /\ (at'[g] = "dret" => g \in dci'.ack_res)
                    /\ g # order'.hart => at'[g] \in Idling
  BY DEF Parked
<1> USE DEF DebugInv
<1>1. ~Reset /\ g \in (hart.halted \union dci.ack_hlt) \ dci.ack_res
  BY DEF Edge, hart_status
<1>2. g \in HartIds
  BY <1>1 DEF DebugTypeOK
<1>3. CASE g \in dci.ack_hlt
  <2>1. at'[g] = "look_exe"
    BY <1>2, <1>3 DEF LastAcknowledged, HartsStep, Stays, GoesTo
  <2> QED
    BY <2>1 DEF Idling
<1>4. CASE g \in hart.halted
  <2>1. at[g] # "run" /\ at[g] # "dret"
    BY <1>1, <1>4 DEF Parked
  <2>2. at'[g] # "run" /\ (at'[g] = "dret" => at[g] = "resume" /\ g = h)
    BY <1>2, <2>1 DEF HartsStep, Stays, GoesOnFrom, GoesTo
  <2>3. at'[g] = "dret" => g \in dci'.ack_res
    BY <1>2, <2>2 DEF HartsStep
  <2>4. ASSUME g # order.hart PROVE at'[g] \in Idling
    <3>1. at[g] \in Idling /\ g \notin req_exe
      BY <1>4, <2>4, OrderFacts DEF Parked
    <3> QED
      BY <1>2, <2>1, <3>1 DEF HartsStep, Stays, GoesOnFrom, GoesTo, Idling
  <2>5. ASSUME g = order.hart, g # order'.hart PROVE at'[g] \in Idling
    <3>1. order.hart \in dci.ack_hlt
      BY <1>1, <1>2, <2>5, OrderFacts DEF ArbiterStep, Accepted, Ordered
    <3>2. at'[g] = "look_exe"
      BY <1>2, <2>5, <3>1 DEF LastAcknowledged, HartsStep, Stays, GoesTo
    <3> QED
      BY <3>2 DEF Idling
  <2> QED
    BY <2>2, <2>3, <2>4, <2>5
<1> QED
  BY <1>1, <1>3, <1>4

\* No hart begins to execute without a command, and one that does is lost.
LEMMA StraysNext ==
  ASSUME DebugInv, NEW h \in HartIds \union {NoHart}, HartsStep(h), ArbiterStep, NEW g \in Strays'
  PROVE  g \in Strays \/ (g = order.hart /\ Reset)
<1> USE DEF DebugInv
<1>1. g \in HartIds /\ at'[g] \in Executing /\ order'.hart # g
  BY DEF Strays, Executing
<1>2. at[g] \in Executing \/ g \in req_exe
  BY <1>1 DEF HartsStep, Stays, GoesOnFrom, GoesTo, Executing
<1>3. CASE g # order.hart
  <2>1. at[g] \in Executing
    BY <1>2, <1>3, OrderFacts
  <2> QED
    BY <1>1, <1>3, <2>1 DEF Strays, Executing
<1>4. CASE g = order.hart
  <2>1. order # NoOrder
    BY <1>1, <1>4, OrderFacts
  <2>2. CASE order.hart \in dci.ack_hlt
    BY <1>1, <1>4, <2>2 DEF LastAcknowledged, HartsStep, Stays, GoesTo, Executing
  <2> QED
    BY <1>1, <1>4, <2>1, <2>2 DEF ArbiterStep, Accepted, Ordered
<1> QED
  BY <1>3, <1>4

\* Where the hart of a command is.
LEMMA ObeyedNext ==
  ASSUME DebugInv, NEW h \in HartIds \union {NoHart}, HartsStep(h), ArbiterStep
  PROVE  Obeyed'
<1> USE DEF DebugInv
<1>1. CASE Accepted /\ cmd_state' = "CMD_START" /\ order' = Started
  <2>1. /\ order'.hart = dm_reg.hartsel /\ dm_reg.hartsel \in HartIds
        /\ dm_reg.hartsel \in hart.halted /\ order.hart = NoHart /\ req_exe = {}
    BY <1>1, OrderFacts DEF Started, DebugTypeOK, Accepted, Ordered
  <2>2. dm_reg.hartsel # NoHart
    BY <2>1 DEF NoHart, HartIds
  <2>3. at[dm_reg.hartsel] \in Idling
    BY <2>1, <2>2 DEF Parked
  <2>4. at'[dm_reg.hartsel] \notin {"progbuf", "entry_exception", "transfer"}
    BY <2>1, <2>3 DEF HartsStep, Stays, GoesOnFrom, GoesTo, Idling
  <2> QED
    BY <1>1, <2>1, <2>4 DEF Obeyed
<1>2. CASE cmd_state = "CMD_START" /\ order' = order
           /\ cmd_state' = IF order.hart \in dci.ack_exe THEN "CMD_PENDING" ELSE cmd_state
  <2>1. order.hart \in HartIds
    BY <1>2, OrderFacts DEF Ordered
  <2>2. CASE order.hart \in dci.ack_exe
    <3>1. at'[order.hart] = "transfer"
      BY <2>1, <2>2 DEF LastAcknowledged, HartsStep, Stays, GoesTo
    <3> QED
      BY <1>2, <2>2, <3>1 DEF Obeyed
  <2>3. CASE order.hart \notin dci.ack_exe
    <3>1. at[order.hart] \notin {"progbuf", "entry_exception", "transfer"}
      BY <1>2, <2>3 DEF Obeyed
    <3>2. /\ at'[order.hart] \notin {"progbuf", "entry_exception"}
          /\ at'[order.hart] = "transfer" => order.hart \in dci'.ack_exe
      BY <2>1, <3>1 DEF HartsStep, Stays, GoesOnFrom, GoesTo
    <3> QED
      BY <1>2, <2>3, <3>2 DEF Obeyed
  <2> QED
    BY <2>2, <2>3
<1>3. CASE cmd_state = "CMD_PENDING" /\ order' = order /\ cmd_state' = cmd_state
           /\ order.hart \notin dci.ack_hlt
  <2>1. order.hart \in HartIds
    BY <1>3, OrderFacts DEF Ordered
  <2>2. at[order.hart] \in {"transfer", "progbuf", "entry_exception", "entry_park"}
    BY <1>3 DEF Obeyed
  <2>3. /\ at'[order.hart] \in {"transfer", "progbuf", "entry_exception", "entry_park", "look_exe"}
        /\ at'[order.hart] = "look_exe" => order.hart \in dci'.ack_hlt
    BY <2>1, <2>2 DEF HartsStep, Stays, GoesOnFrom, GoesTo
  <2> QED
    BY <1>3, <2>3 DEF Obeyed
<1> QED
  BY <1>1, <1>2, <1>3 DEF ArbiterStep, Obeyed

LEMMA FlipFacts ==
  /\ \A w \in DebugWords : Flip(w) \in DebugWords
  /\ \A w \in DebugWords \union {Unknown} : Flip(w) \in DebugWords \union {Unknown}
  /\ Flip(Unknown) = Unknown
  BY DEF Flip, DebugWords, Unknown, Flag

\* The types, without a reset of the system.
LEMMA DebugTypes ==
  ASSUME DebugInv, NEW dmi \in {Quiet} \union Accesses, NEW h \in HartIds \union {NoHart},
         Edge(dmi, h), ~ndmrst, HartsStep(h), ArbiterStep
  PROVE  DebugTypeOK'
<1> USE DEF DebugInv
<1>1. kit' = kit /\ kit \in Kits
  BY DEF Edge, DebugTypeOK
<1>2. dm_reg'.hartsel \in HartIds
  <2>1. FirstHart \in HartIds
    BY DebugAssumption DEF FirstHart, HartIds
  <2> QED
    BY <2>1, AccessFacts DEF Edge, dmi_write_access, Free, Writes, Touches, DebugTypeOK
<1>3. cmd_state' \in {"CMD_IDLE", "CMD_CHECK", "CMD_START", "CMD_PENDING"}
  BY DEF ArbiterStep
<1>4. /\ at' \in [HartIds -> {"run"} \union Firmware \union Executing]
      /\ x8' \in [HartIds -> DebugWords] /\ dscratch0' \in [HartIds -> DebugWords]
  <2>1. /\ \A g \in HartIds : at'[g] \in {"run"} \union Firmware \union Executing
        /\ \A g \in HartIds : x8'[g] \in DebugWords /\ dscratch0'[g] \in DebugWords
    <3> SUFFICES ASSUME NEW g \in HartIds
                 PROVE  /\ at'[g] \in {"run"} \union Firmware \union Executing
                        /\ x8'[g] \in DebugWords /\ dscratch0'[g] \in DebugWords
      OBVIOUS
    <3>1. /\ at[g] \in {"run"} \union Firmware \union Executing
          /\ x8[g] \in DebugWords /\ dscratch0[g] \in DebugWords /\ dci.data_reg \in DebugWords
          /\ Flag \in DebugWords
      BY DEF DebugTypeOK, DebugWords
    <3>2. CASE g # h
      BY <3>1, <3>2 DEF HartsStep, Stays, GoesTo
    <3>3. CASE g = h
      BY <3>1, <3>3, FlipFacts DEF HartsStep, GoesOnFrom, GoesTo, Firmware, Executing
    <3> QED
      BY <3>2, <3>3
  <2> QED
    BY <2>1, HartsAre DEF Edge
<1>5. hart' \in [halted : SUBSET HartIds, resume_req : SUBSET HartIds, resume_ack : SUBSET HartIds]
  BY DEF Edge, hart_status, DebugTypeOK
<1>6. dci' \in [ack_hlt : SUBSET HartIds, ack_res : SUBSET HartIds, ack_exe : SUBSET HartIds,
               ack_exc : SUBSET HartIds, data_reg : DebugWords]
  <2>1. dci'.data_reg \in DebugWords
    BY AccessFacts DEF Edge, bus_access, Free, Writes, Touches, DebugTypeOK, DebugWords
  <2> QED
    BY <2>1 DEF Edge, bus_access, HartsStep
<1>7. belief' \in [x8 : [HartIds -> DebugWords \union {Unknown}], data : DebugWords \union {Unknown}]
  <2>1. ASSUME NEW d \in DebugWords \union {Unknown}, NEW x \in [HartIds -> DebugWords \union {Unknown}]
        PROVE  [x8 |-> x, data |-> d] \in [x8 : [HartIds -> DebugWords \union {Unknown}],
                                          data : DebugWords \union {Unknown}]
    OBVIOUS
  <2>2. /\ belief.x8 \in [HartIds -> DebugWords \union {Unknown}]
        /\ belief.data \in DebugWords \union {Unknown} /\ Unknown \in DebugWords \union {Unknown}
        /\ belief = [x8 |-> belief.x8, data |-> belief.data]
    BY DEF DebugTypeOK
  <2>3. CASE order = NoOrder \/ ~(Reset \/ Completed)
    <3>1. Free(dmi, "data0") => dmi.data \in DebugWords
      BY AccessFacts, <1>1 DEF Free, Writes, Touches, DebugWords
    <3>2. belief' = [x8 |-> belief.x8, data |-> belief'.data]
      BY <2>2, <2>3 DEF Edge, record_belief
    <3>3. belief'.data \in DebugWords \union {Unknown}
      BY <2>2, <2>3, <3>1 DEF Edge, record_belief
    <3> QED
      BY <2>1, <2>2, <3>2, <3>3
  <2>4. CASE order # NoOrder /\ Reset
    BY <2>1, <2>2, <2>4 DEF Edge, record_belief
  <2>5. CASE order # NoOrder /\ ~Reset /\ Completed
    <3>1. order.hart \in HartIds
      BY <2>5 DEF DebugTypeOK
    <3>2. OldX8 \in DebugWords \union {Unknown}
      BY <2>2, <2>5, <3>1 DEF OldX8, Ordered
    <3>3. NewX8 \in DebugWords \union {Unknown}
      BY <3>2, FlipFacts DEF NewX8
    <3>4. belief' = [x8 |-> [belief.x8 EXCEPT ![order.hart] = NewX8], data |-> belief'.data]
      BY <2>5 DEF Edge, record_belief, NewX8, OldX8
    <3>5. belief'.data \in DebugWords \union {Unknown}
      BY <2>2, <2>5, <3>1 DEF Edge, record_belief
    <3> QED
      BY <2>1, <2>2, <3>3, <3>4, <3>5
  <2> QED
    BY <2>3, <2>4, <2>5
<1>8. order' # NoOrder => order'.hart \in HartIds
  BY OrderRecords DEF ArbiterStep, DebugTypeOK
<1> QED
  BY <1>1, <1>2, <1>3, <1>4, <1>5, <1>6, <1>7, <1>8 DEF DebugTypeOK

\* What the debugger takes the registers for, without a reset of the system.
Kept == dm_reg'.hartsel = dm_reg.hartsel /\ dm_reg'.command = dm_reg.command
        /\ dm_reg'.progbuf = dm_reg.progbuf
BeliefStep(dmi) ==
  \/ /\ order = NoOrder /\ belief'.x8 = belief.x8
     /\ belief'.data = IF ~Free(dmi, "data0") THEN belief.data
                       ELSE IF Strays = {} THEN dmi.data ELSE Unknown
  \/ /\ order # NoOrder /\ Reset /\ belief'.data = Unknown
     /\ belief'.x8 = [belief.x8 EXCEPT ![order.hart] = Unknown]
  \/ /\ order # NoOrder /\ ~Reset /\ ~Free(dmi, "data0") /\ Kept /\ belief' = belief
     /\ cmd_state = "CMD_PENDING" => order.hart \notin dci.ack_hlt
  \/ /\ order # NoOrder /\ ~Reset /\ ~Free(dmi, "data0")
     /\ cmd_state = "CMD_PENDING" /\ order.hart \in dci.ack_hlt
     /\ belief'.x8 = [belief.x8 EXCEPT ![order.hart] = NewX8]
     /\ belief'.data = IF order.command.transfer # "sw" THEN belief.data
                       ELSE IF order.alone THEN belief.x8[order.hart] ELSE Unknown

LEMMA BeliefGoesOn ==
  ASSUME DebugInv, NEW dmi \in {Quiet} \union Accesses, NEW h \in HartIds \union {NoHart},
         Edge(dmi, h), ~ndmrst
  PROVE  BeliefStep(dmi)
<1> USE DEF DebugInv
<1>1. CASE order = NoOrder
  <2>1. belief' = IF Free(dmi, "data0")
                  THEN [belief EXCEPT !.data = IF Strays = {} THEN dmi.data ELSE Unknown]
                  ELSE belief
    BY <1>1 DEF Edge, record_belief
  <2>2. belief = [x8 |-> belief.x8, data |-> belief.data]
    BY DEF DebugTypeOK
  <2> QED
    BY <1>1, <2>1, <2>2 DEF BeliefStep
<1>2. CASE order # NoOrder /\ Reset
  BY <1>2 DEF Edge, record_belief, BeliefStep
<1>3. CASE order # NoOrder /\ ~Reset
  <2>1. /\ cmd_busy /\ order.hart = dm_reg.hartsel /\ dm_reg.dmactive
        /\ \A addr \in {"dmcontrol", "command", "progbuf", "data0"} : ~Free(dmi, addr)
    BY <1>3 DEF cmd_busy, Ordered, Free, Reset
  <2>2. Kept
    BY <2>1 DEF Edge, dmi_write_access, Kept
  <2>3. CASE Completed
    BY <1>3, <2>1, <2>3 DEF Edge, record_belief, BeliefStep, Completed, NewX8, OldX8
  <2>4. CASE ~Completed
    BY <1>3, <2>1, <2>2, <2>4 DEF Edge, record_belief, BeliefStep, Completed
  <2> QED
    BY <2>3, <2>4
<1> QED
  BY <1>1, <1>2, <1>3

\* A command is that of the registers.
LEMMA OrderedNext ==
  ASSUME DebugInv, NEW dmi \in {Quiet} \union Accesses, NEW h \in HartIds \union {NoHart},
         Edge(dmi, h), ~ndmrst, HartsStep(h), ArbiterStep, BeliefStep(dmi)
  PROVE  Ordered'
<1> USE DEF DebugInv
<1>1. CASE Reset
  BY <1>1 DEF ArbiterStep, Ordered, Accepted
<1>2. CASE ~Reset
  <2>1. Strays' \subseteq Strays
    BY <1>2, StraysNext
  <2>2. order' = NoOrder <=> cmd_state' \in {"CMD_IDLE", "CMD_CHECK"}
    BY <1>2, OrderRecords DEF ArbiterStep, Ordered, Accepted
  <2>3. CASE Accepted /\ order' = Started
    <3>1. /\ order = NoOrder /\ cmd_busy /\ dm_reg.dmactive
          /\ \A addr \in {"dmcontrol", "command", "progbuf", "data0"} : ~Free(dmi, addr)
      BY <1>2, <2>3 DEF Accepted, Ordered, cmd_busy, Free, Reset
    <3>2. Kept /\ belief'.data = belief.data
      BY <3>1 DEF Edge, dmi_write_access, Kept, BeliefStep
    <3> QED
      BY <2>1, <2>2, <2>3, <3>2 DEF Started, Kept, Ordered
  <2>4. CASE order' = order /\ order # NoOrder
    <3>1. Kept /\ belief'.data = belief.data
      BY <1>2, <2>2, <2>4 DEF BeliefStep, ArbiterStep, Accepted, Ordered
    <3> QED
      BY <2>1, <2>2, <2>4, <3>1 DEF Kept, Ordered
  <2>5. CASE order' = NoOrder
    BY <2>2, <2>5 DEF Ordered
  <2> QED
    BY <1>2, <2>3, <2>4, <2>5 DEF ArbiterStep
<1> QED
  BY <1>1, <1>2

\* Of a hart that executes without a command, nothing is known.
LEMMA StraysUnknownNext ==
  ASSUME DebugInv, NEW dmi \in {Quiet} \union Accesses, NEW h \in HartIds \union {NoHart},
         ~ndmrst, HartsStep(h), ArbiterStep, BeliefStep(dmi)
  PROVE  StraysUnknown'
<1> USE DEF DebugInv
<1>1. \A g \in Strays : g \in HartIds /\ g # order.hart
  BY DEF Strays
<1>2. ASSUME NEW g \in Strays' PROVE belief'.x8[g] = Unknown /\ belief'.data = Unknown
  <2>1. CASE g \in Strays
    <3>1. belief.x8[g] = Unknown /\ belief.data = Unknown /\ Strays # {}
      BY <2>1 DEF StraysUnknown
    <3>2. order # NoOrder => ~order.alone
      BY <3>1 DEF Ordered
    <3> QED
      BY <1>1, <2>1, <3>1, <3>2 DEF BeliefStep, DebugTypeOK
  <2>2. CASE g = order.hart /\ Reset
    <3>1. g \in HartIds
      BY <1>2 DEF Strays
    <3>2. order # NoOrder
      BY <2>2, <3>1, OrderFacts
    <3> QED
      BY <2>2, <3>1, <3>2 DEF BeliefStep, DebugTypeOK
  <2> QED
    BY <1>2, <2>1, <2>2, StraysNext
<1> QED
  BY <1>2 DEF StraysUnknown

\* An exception and a refused access are told.
LEMMA ToldNext ==
  ASSUME DebugInv, NEW dmi \in {Quiet} \union Accesses, NEW h \in HartIds \union {NoHart},
         Edge(dmi, h), ~ndmrst, HartsStep(h), ArbiterStep
  PROVE  Told'
<1> USE DEF DebugInv
<1>1. told' => cmd_err' # "none" \/ (cmd_state' # "CMD_IDLE" /\ dm_reg'.set_acc_err)
  <2>1. CASE Reset
    BY <2>1 DEF Edge, record_told
  <2>2. cmd_busy /\ (Refused(dmi) \/ dm_reg.set_acc_err) => dm_reg'.set_acc_err
    BY DEF Edge, dmi_write_access
  <2>3. CASE ~Reset /\ CMD_IDLE(dmi)
    BY <2>3 DEF Edge, record_told, CMD_IDLE, Refused, cmd_busy, Completed, Told
  <2>4. CASE ~Reset /\ CMD_CHECK
    BY <2>2, <2>4 DEF Edge, record_told, CMD_CHECK, cmd_busy, Completed, Told
  <2>5. CASE ~Reset /\ CMD_START
    BY <2>2, <2>5 DEF Edge, record_told, CMD_START, cmd_busy, Completed, Told
  <2>6. CASE ~Reset /\ CMD_PENDING
    <3>1. dm_reg.hartsel = order.hart /\ dm_reg.hartsel \in HartIds
      BY <2>6 DEF CMD_PENDING, Ordered, DebugTypeOK
    <3>2. CASE Completed
      <4>1. at[order.hart] = "look_exe"
        BY <3>1, <3>2 DEF Completed, LastAcknowledged
      <4>2. Traps(order.command, order.progbuf) => cmd_err # "none" \/ order.hart \in dci.ack_exc
        BY <2>6, <4>1 DEF Told, Done, Loaded, CMD_PENDING
      <4> QED
        BY <2>6, <3>1, <3>2, <4>2 DEF Edge, record_told, CMD_PENDING, Told
    <3>3. CASE ~Completed
      BY <2>2, <2>6, <3>3 DEF Edge, record_told, CMD_PENDING, cmd_busy, Told
    <3> QED
      BY <3>2, <3>3
  <2> QED
    BY <2>1, <2>3, <2>4, <2>5, <2>6 DEF Edge, cmd_arbiter
<1>2. ASSUME Done', Traps(order.command, order.progbuf)', at'[order'.hart] # "entry_exception"
      PROVE  cmd_err' # "none" \/ order'.hart \in dci'.ack_exc
  <2>1. cmd_state' = "CMD_PENDING" /\ at'[order'.hart] \notin {"transfer", "progbuf"}
    BY <1>2 DEF Done, Loaded
  <2>2. CASE cmd_state = "CMD_START" /\ order' = order /\ order.hart \in dci.ack_exe
    <3>1. order.hart \in HartIds
      BY <2>2, OrderFacts DEF Ordered
    <3>2. at'[order.hart] = "transfer"
      BY <2>2, <3>1 DEF LastAcknowledged, HartsStep, Stays, GoesTo
    <3> QED
      BY <2>1, <2>2, <3>2
  <2>3. CASE cmd_state = "CMD_PENDING" /\ CMD_PENDING /\ order' = order
    <3>1. order.hart = dm_reg.hartsel /\ order.hart \in HartIds
      BY <2>3, OrderFacts DEF Ordered
    <3>2. Traps(order.command, order.progbuf) /\ order.command = dm_reg.command
          /\ order.progbuf = dm_reg.progbuf
      BY <1>2, <2>3 DEF Traps, Ordered
    <3>3. at[order.hart] \in {"entry_park", "look_exe"}
          \/ (at[order.hart] = "entry_exception" /\ order.hart \in dci'.ack_exc)
      <4>1. at[order.hart] \in {"transfer", "progbuf", "entry_exception", "entry_park", "look_exe"}
        BY <2>3 DEF Obeyed
      <4> QED
        BY <1>2, <2>1, <2>3, <3>1, <3>2, <4>1 DEF HartsStep, Stays, GoesOnFrom, GoesTo
    <3>4. at[order.hart] \in {"entry_park", "look_exe"} =>
            cmd_err # "none" \/ order.hart \in dci.ack_exc
      BY <2>3, <3>2 DEF Told, Done, Loaded
    <3> QED
      BY <2>3, <3>1, <3>3, <3>4 DEF CMD_PENDING
  <2> QED
    BY <2>1, <2>2, <2>3 DEF ArbiterStep
<1> QED
  BY <1>1, <1>2 DEF Told

\* The park loop gives x8 back: a hart that does not execute keeps the register of its program.
LEMMA OwnKept ==
  ASSUME NEW h \in HartIds \union {NoHart}, HartsStep(h), NEW g \in HartIds,
         at[g] \notin {"transfer", "progbuf"} \/ g # h
  PROVE  Own(g)' = Own(g)
<1>1. CASE g # h
  BY <1>1 DEF HartsStep, Stays, GoesTo, Own
<1>2. CASE g = h
  BY <1>2 DEF HartsStep, GoesOnFrom, GoesTo, Own
<1> QED
  BY <1>1, <1>2

\* The data buffer, which a hart writes that executes a "sw".
LEMMA BufferNext ==
  ASSUME DebugInv, NEW dmi \in {Quiet} \union Accesses, NEW h \in HartIds \union {NoHart},
         Edge(dmi, h), ~ndmrst, HartsStep(h)
  PROVE  dci'.data_reg = IF Free(dmi, "data0") THEN dmi.data
                         ELSE IF /\ h \in HartIds /\ at[h] = "transfer"
                                 /\ dm_reg.command.transfer = "sw" THEN x8[h]
                         ELSE dci.data_reg
<1>1. NoHart \notin HartIds
  BY DEF NoHart, HartIds
<1> QED
  BY <1>1 DEF Edge, bus_access

\* The command ends, or it goes on: its hart stays, transfers, executes the program buffer, or
\* goes back to the park loop.
CommandStep(o) ==
  \/ at'[o] = at[o] /\ Own(o)' = Own(o)
  \/ /\ o = last' /\ at[o] = "transfer" /\ at'[o] = "progbuf"
     /\ Own(o)' = IF order.command.transfer = "lw" THEN dci.data_reg ELSE x8[o]
  \/ /\ o = last' /\ at[o] = "progbuf"
     /\ at'[o] = IF Traps(order.command, order.progbuf) THEN "entry_exception" ELSE "entry_park"
     /\ Own(o)' = IF Flips(order.command, order.progbuf) THEN Flip(x8[o]) ELSE x8[o]
  \/ /\ o = last' /\ at[o] \in {"entry_exception", "entry_park"}
     /\ at'[o] \in {"entry_park", "look_exe"} /\ Own(o)' = Own(o)

LEMMA CommandGoesOn ==
  ASSUME DebugInv, NEW h \in HartIds \union {NoHart}, HartsStep(h), cmd_state = "CMD_PENDING",
         NEW o \in HartIds, o = order.hart
  PROVE  CommandStep(o)
<1> USE DEF DebugInv
<1>1. /\ order.command = dm_reg.command /\ order.progbuf = dm_reg.progbuf
      /\ at[o] \in {"transfer", "progbuf", "entry_exception", "entry_park", "look_exe"}
      /\ at[o] = "look_exe" => o = last
  BY DEF Ordered, Obeyed, LastAcknowledged
<1>2. CASE o # h
  BY <1>1, <1>2 DEF HartsStep, Stays, GoesTo, Own, CommandStep
<1>3. CASE o = h
  <2>1. GoesOnFrom(o) /\ last' = o /\ at[o] # "look_exe"
    BY <1>1, <1>3 DEF HartsStep
  <2>2. CASE at[o] \in {"entry_exception", "entry_park"}
    BY <1>1, <2>1, <2>2 DEF GoesOnFrom, GoesTo, Own, CommandStep
  <2>3. CASE at[o] = "transfer"
    BY <1>1, <2>1, <2>3 DEF GoesOnFrom, GoesTo, Own, CommandStep
  <2>4. CASE at[o] = "progbuf"
    <3>1. GoesTo(o, IF Traps(order.command, order.progbuf) THEN "entry_exception" ELSE "entry_park",
                IF Flips(order.command, order.progbuf) THEN Flip(x8[o]) ELSE x8[o], dscratch0[o])
      BY <1>1, <2>1, <2>4 DEF GoesOnFrom
    <3>2. at'[o] \in {"entry_exception", "entry_park"}
      BY <3>1 DEF GoesTo
    <3> QED
      BY <2>1, <2>4, <3>1, <3>2 DEF GoesTo, Own, CommandStep
  <2> QED
    BY <1>1, <2>1, <2>2, <2>3, <2>4
<1> QED
  BY <1>2, <1>3

LEMMA FlipKnows ==
  ASSUME NEW b, NEW v, Knows(b, v) PROVE Knows(Flip(b), Flip(v))
  BY FlipFacts DEF Knows

\* What the command has done so far.
LEMMA DoneSoFar ==
  ASSUME DebugInv, NEW dmi \in {Quiet} \union Accesses, NEW h \in HartIds \union {NoHart},
         HartsStep(h), cmd_state = "CMD_PENDING", order' = order, belief' = belief,
         cmd_state' = cmd_state, NEW o \in HartIds, o = order.hart, CommandStep(o)
  PROVE  Loaded' => Knows(IF Done THEN NewX8 ELSE OldX8, Own(order.hart))'
<1> USE DEF DebugInv
<1>1. o \notin Strays /\ order.data = belief.data
  BY DEF Ordered, Strays
<1>2. OldX8' = OldX8 /\ NewX8' = NewX8
  BY DEF OldX8, NewX8, Flips
<1> SUFFICES ASSUME at'[o] # "transfer"
             PROVE  Knows(IF at'[o] # "progbuf" THEN NewX8 ELSE OldX8, Own(o)')
  BY <1>2 DEF Loaded, Done, Knows, Own
<1>3. CASE at'[o] = at[o] /\ Own(o)' = Own(o)
  BY <1>3 DEF Known, Loaded, Done
<1>4. CASE at[o] = "transfer" /\ at'[o] = "progbuf"
           /\ Own(o)' = IF order.command.transfer = "lw" THEN dci.data_reg ELSE x8[o]
  <2>1. Knows(belief.x8[o], x8[o]) /\ Knows(belief.data, dci.data_reg)
    BY <1>1, <1>4 DEF Known, Loaded, Stored, Own
  <2> QED
    BY <1>1, <1>4, <2>1 DEF OldX8
<1>5. CASE at[o] = "progbuf" /\ at'[o] \in {"entry_exception", "entry_park"}
           /\ Own(o)' = IF Flips(order.command, order.progbuf) THEN Flip(x8[o]) ELSE x8[o]
  <2>1. Knows(OldX8, x8[o])
    BY <1>5 DEF Known, Loaded, Done, Own
  <2> QED
    BY <1>5, <2>1, FlipKnows DEF NewX8
<1>6. CASE at[o] \in {"entry_exception", "entry_park"} /\ Own(o)' = Own(o)
           /\ at'[o] \in {"entry_park", "look_exe"}
  BY <1>6 DEF Known, Loaded, Done
<1> QED
  BY <1>3, <1>4, <1>5, <1>6 DEF CommandStep

\* The registers are known.
LEMMA RegistersKnown ==
  ASSUME DebugInv, NEW dmi \in {Quiet} \union Accesses, NEW h \in HartIds \union {NoHart},
         ~ndmrst, HartsStep(h), ArbiterStep, BeliefStep(dmi), Obeyed',
         NEW g \in HartIds \ Strays', ~(Loaded' /\ g = order'.hart)
  PROVE  Knows(belief'.x8[g], Own(g)')
<1> USE DEF DebugInv
<1>1. belief.x8 \in [HartIds -> DebugWords \union {Unknown}]
  BY DEF DebugTypeOK
<1>2. CASE g # order.hart
  <2>1. belief'.x8[g] = belief.x8[g]
    BY <1>1, <1>2 DEF BeliefStep
  <2>2. CASE g \in Strays
    BY <2>1, <2>2 DEF StraysUnknown, Knows
  <2>3. CASE g \notin Strays
    <3>1. Own(g)' = Own(g)
      BY <1>2, <2>3, OwnKept DEF Strays
    <3> QED
      BY <1>2, <2>1, <2>3, <3>1 DEF Known
  <2> QED
    BY <2>2, <2>3
<1>3. CASE g = order.hart
  <2>1. order # NoOrder /\ g \notin Strays
    BY <1>3, OrderFacts DEF Strays
  <2>2. CASE Reset
    BY <1>1, <1>3, <2>1, <2>2 DEF BeliefStep, Knows
  <2>3. CASE ~Reset /\ cmd_state = "CMD_START"
    <3>1. belief' = belief /\ ~Loaded
      BY <2>1, <2>3 DEF BeliefStep, Loaded
    <3>2. at[g] \notin {"transfer", "progbuf"} \/ g # h
      BY <1>3, <2>3 DEF Obeyed, LastAcknowledged, HartsStep
    <3>3. Own(g)' = Own(g)
      BY <3>2, OwnKept
    <3> QED
      BY <2>1, <3>1, <3>3 DEF Known
  <2>4. CASE ~Reset /\ cmd_state = "CMD_PENDING" /\ order.hart \in dci.ack_hlt
    <3>1. at[g] = "look_exe"
      BY <1>3, <2>4 DEF LastAcknowledged
    <3>2. Own(g)' = Own(g)
      BY <3>1, OwnKept
    <3>3. Knows(NewX8, Own(g))
      BY <1>3, <2>4, <3>1 DEF Known, Loaded, Done
    <3>4. belief'.x8[g] = NewX8
      BY <1>1, <1>3, <2>1, <2>4 DEF BeliefStep
    <3> QED
      BY <3>2, <3>3, <3>4
  <2>5. CASE ~Reset /\ cmd_state = "CMD_PENDING" /\ order.hart \notin dci.ack_hlt
    <3>1. order' = order /\ cmd_state' = cmd_state /\ belief' = belief
      BY <2>1, <2>5 DEF ArbiterStep, Accepted, BeliefStep
    <3>2. at'[g] = "transfer"
      BY <1>3, <2>5, <3>1 DEF Loaded
    <3>3. at[g] = "transfer" /\ Own(g)' = Own(g)
      BY <1>3, <2>5, <3>2, CommandGoesOn DEF CommandStep
    <3>4. ~Loaded
      BY <1>3, <3>3 DEF Loaded
    <3> QED
      BY <2>1, <3>1, <3>3, <3>4 DEF Known
  <2> QED
    BY <2>1, <2>2, <2>3, <2>4, <2>5 DEF Ordered, DebugTypeOK
<1> QED
  BY <1>2, <1>3

\* A hart that writes the data buffer executes the command, or one that the debugger lost.
LEMMA BufferKnown ==
  ASSUME DebugInv, NEW dmi \in {Quiet} \union Accesses, NEW h \in HartIds \union {NoHart},
         Edge(dmi, h), ~ndmrst, HartsStep(h), ArbiterStep, BeliefStep(dmi), Ordered', Obeyed'
  PROVE  /\ ~Stored' => Knows(belief'.data, dci'.data_reg)
         /\ Stored' /\ order'.alone => Knows(belief'.x8[order'.hart], dci'.data_reg)
<1> USE DEF DebugInv
<1> DEFINE stores == /\ h \in HartIds /\ at[h] = "transfer" /\ dm_reg.command.transfer = "sw"
<1>1. dci'.data_reg = IF Free(dmi, "data0") THEN dmi.data ELSE IF stores THEN x8[h]
                      ELSE dci.data_reg
  BY BufferNext
<1>2. stores /\ h # order.hart => Strays # {} /\ belief.data = Unknown
  BY DEF Strays, StraysUnknown
<1>3. stores => h # last
  BY DEF HartsStep
<1> HIDE DEF stores
<1>4. CASE order = NoOrder
  <2>1. ~Loaded /\ ~Loaded'
    BY <1>4, OrderRecords DEF Loaded, Ordered, ArbiterStep, Accepted
  <2>2. Knows(belief.data, dci.data_reg)
    BY <2>1 DEF Known, Stored
  <2>3. stores => belief.data = Unknown
    <3>1. stores => h \in HartIds
      BY DEF stores
    <3> QED
      BY <1>2, <1>4, <3>1, OrderFacts
  <2>4. Knows(belief'.data, dci'.data_reg)
    BY <1>1, <1>4, <2>2, <2>3 DEF BeliefStep, Knows
  <2> QED
    BY <2>1, <2>4 DEF Stored
<1>5. CASE order # NoOrder /\ Reset
  <2>1. belief'.data = Unknown /\ ~Loaded'
    BY <1>5 DEF BeliefStep, ArbiterStep, Loaded
  <2> QED
    BY <2>1 DEF Knows, Stored
<1>6. CASE order # NoOrder /\ ~Reset /\ cmd_state = "CMD_PENDING" /\ order.hart \in dci.ack_hlt
  <2>1. ~Free(dmi, "data0") /\ ~Loaded' /\ at[order.hart] = "look_exe"
        /\ belief'.data = IF order.command.transfer # "sw" THEN belief.data
                          ELSE IF order.alone THEN belief.x8[order.hart] ELSE Unknown
    BY <1>6 DEF BeliefStep, ArbiterStep, Loaded, LastAcknowledged
  <2>2. stores => h # order.hart
    BY <2>1 DEF stores
  <2>3. CASE order.command.transfer # "sw"
    <3>1. Knows(belief.data, dci.data_reg)
      BY <2>3 DEF Known, Stored
    <3> QED
      BY <1>1, <1>2, <2>1, <2>2, <2>3, <3>1 DEF Knows, Stored
  <2>4. CASE order.command.transfer = "sw" /\ order.alone
    <3>1. Strays = {} /\ Stored
      BY <1>6, <2>1, <2>4 DEF Ordered, Stored, Loaded
    <3>2. Knows(belief.x8[order.hart], dci.data_reg)
      BY <2>4, <3>1 DEF Known
    <3> QED
      BY <1>1, <1>2, <2>1, <2>2, <2>4, <3>1, <3>2 DEF Knows, Stored
  <2>5. CASE order.command.transfer = "sw" /\ ~order.alone
    BY <2>1, <2>5 DEF Knows, Stored
  <2> QED
    BY <2>3, <2>4, <2>5
<1>7. CASE order # NoOrder /\ ~Reset /\ (cmd_state = "CMD_PENDING" => order.hart \notin dci.ack_hlt)
  <2>1. belief' = belief /\ order' = order /\ ~Free(dmi, "data0")
    BY <1>7 DEF BeliefStep, ArbiterStep, Accepted, Ordered
  <2>2. PICK o \in HartIds : o = order.hart
    BY <1>7, OrderFacts
  <2>3. order.command = dm_reg.command /\ cmd_state \in {"CMD_START", "CMD_PENDING"}
    BY <1>7 DEF Ordered, DebugTypeOK
  <2>4. CASE cmd_state = "CMD_START"
    <3>1. stores => h # order.hart
      BY <1>3, <2>4 DEF stores, Obeyed, LastAcknowledged
    <3>2. ~Loaded /\ ~Stored
      BY <2>4 DEF Loaded, Stored
    <3>3. Knows(belief.data, dci.data_reg)
      BY <3>2 DEF Known
    <3>4. ~Loaded'
      <4>1. CASE order.hart \in dci.ack_exe
        <5>1. at'[o] = "transfer"
          BY <2>2, <4>1 DEF LastAcknowledged, HartsStep, Stays, GoesTo
        <5> QED
          BY <2>1, <2>2, <5>1 DEF Loaded
      <4>2. CASE order.hart \notin dci.ack_exe
        BY <1>7, <2>4, <4>2 DEF ArbiterStep, Accepted, Loaded
      <4> QED
        BY <4>1, <4>2
    <3> QED
      BY <1>1, <1>2, <2>1, <3>1, <3>3, <3>4 DEF Knows, Stored
  <2>5. CASE cmd_state = "CMD_PENDING"
    <3>1. cmd_state' = "CMD_PENDING"
      BY <1>7, <2>5 DEF ArbiterStep, Accepted
    <3>2. CommandStep(o)
      BY <2>2, <2>5, CommandGoesOn
    <3>3. stores /\ h = o => /\ order.command.transfer = "sw" /\ at[o] = "transfer"
                            /\ at'[o] = "progbuf"
      BY <2>3 DEF stores, HartsStep, GoesOnFrom, GoesTo
    <3>4. at[o] # "transfer" => at'[o] # "transfer"
      BY <3>2 DEF CommandStep
    <3>5. ASSUME ~Stored' PROVE Knows(belief'.data, dci'.data_reg)
      <4>1. ~Stored
        BY <2>1, <2>2, <2>5, <3>1, <3>4, <3>5 DEF Stored, Loaded
      <4>2. ~(stores /\ h = o)
        BY <2>1, <2>2, <3>1, <3>3, <3>5 DEF Stored, Loaded
      <4>3. Knows(belief.data, dci.data_reg)
        BY <4>1 DEF Known
      <4> QED
        BY <1>1, <1>2, <2>1, <2>2, <4>2, <4>3 DEF Knows
    <3>6. ASSUME Stored', order'.alone PROVE Knows(belief'.x8[order'.hart], dci'.data_reg)
      <4>1. Strays = {} /\ order.command.transfer = "sw" /\ order.alone
        BY <1>7, <2>1, <3>6 DEF Ordered, Stored
      <4>2. CASE at[o] = "transfer"
        <5>1. Knows(belief.x8[o], x8[o])
          BY <2>2, <4>2 DEF Known, Loaded, Strays, Own
        <5>2. at'[o] # "transfer"
          BY <2>1, <2>2, <3>6 DEF Stored, Loaded
        <5>3. stores /\ h = o
          BY <2>3, <4>1, <4>2, <5>2 DEF stores, HartsStep, Stays, GoesTo
        <5> QED
          BY <1>1, <2>1, <2>2, <5>1, <5>3
      <4>3. CASE at[o] # "transfer"
        <5>1. Knows(belief.x8[o], dci.data_reg)
          BY <2>2, <2>5, <4>1, <4>3 DEF Known, Stored, Loaded
        <5>2. ~stores
          BY <1>2, <2>2, <3>3, <4>1, <4>3
        <5> QED
          BY <1>1, <2>1, <2>2, <5>1, <5>2
      <4> QED
        BY <4>2, <4>3
    <3> QED
      BY <3>5, <3>6
  <2> QED
    BY <2>3, <2>4, <2>5
<1> QED
  BY <1>4, <1>5, <1>6, <1>7

\* What the debugger takes the registers for is what they hold.
LEMMA KnownNext ==
  ASSUME DebugInv, NEW dmi \in {Quiet} \union Accesses, NEW h \in HartIds \union {NoHart},
         Edge(dmi, h), ~ndmrst, HartsStep(h), ArbiterStep, BeliefStep(dmi), Ordered', Obeyed'
  PROVE  Known'
<1> USE DEF DebugInv
<1>1. \A g \in HartIds \ Strays' : ~(Loaded' /\ g = order'.hart) => Knows(belief'.x8[g], Own(g)')
  BY RegistersKnown
<1>2. Loaded' => Knows(IF Done THEN NewX8 ELSE OldX8, Own(order.hart))'
  <2> SUFFICES ASSUME Loaded' PROVE Knows(IF Done THEN NewX8 ELSE OldX8, Own(order.hart))'
    OBVIOUS
  <2>1. cmd_state' = "CMD_PENDING" /\ at'[order'.hart] # "transfer"
    BY DEF Loaded
  <2>2. CASE cmd_state = "CMD_START" /\ order' = order /\ order.hart \in dci.ack_exe
    <3>1. order.hart \in HartIds
      BY <2>2, OrderFacts DEF Ordered
    <3>2. at'[order.hart] = "transfer"
      BY <2>2, <3>1 DEF LastAcknowledged, HartsStep, Stays, GoesTo
    <3> QED
      BY <2>1, <2>2, <3>2
  <2>3. CASE ~Reset /\ cmd_state = "CMD_PENDING" /\ order' = order
             /\ order.hart \notin dci.ack_hlt
    <3>1. PICK o \in HartIds : o = order.hart
      BY <2>3, OrderFacts DEF Ordered
    <3>2. belief' = belief
      BY <2>3 DEF BeliefStep, Ordered
    <3>3. CommandStep(o)
      BY <2>3, <3>1, CommandGoesOn
    <3> QED
      BY <2>1, <2>3, <3>1, <3>2, <3>3, DoneSoFar
  <2> QED
    BY <2>1, <2>2, <2>3 DEF ArbiterStep
<1>3. /\ ~Stored' => Knows(belief'.data, dci'.data_reg)
      /\ Stored' /\ order'.alone => Knows(belief'.x8[order'.hart], dci'.data_reg)
  BY BufferKnown
<1> QED
  BY <1>1, <1>2, <1>3 DEF Known, Knows

\* Every step keeps the invariant.
LEMMA DebugStep == DebugInv /\ [DebugNext]_debugVars => DebugInv'
<1> SUFFICES ASSUME DebugInv, [DebugNext]_debugVars PROVE DebugInv'
  OBVIOUS
<1>1. CASE UNCHANGED debugVars
  <2>1. (DebugTypeOK /\ LastAcknowledged /\ Ordered /\ Parked /\ Obeyed /\ StraysUnknown)'
    BY <1>1 DEF debugVars, DebugInv, DebugTypeOK, LastAcknowledged, Ordered, Parked, Obeyed, StraysUnknown,
                Strays
  <2>2. (Known /\ Told)'
    BY <1>1 DEF debugVars, DebugInv, Known, Told, Loaded, Done, Stored, Strays, Own, NewX8, OldX8, Flips,
                Traps
  <2> QED
    BY <2>1, <2>2 DEF DebugInv
<1>2. ASSUME NEW dmi \in {Quiet} \union Accesses, NEW h \in HartIds \union {NoHart}, Edge(dmi, h)
      PROVE  DebugInv'
  <2>1. CASE ndmrst
    BY <1>2, <2>1, ModuleReset
  <2>2. CASE ~ndmrst
    <3>1. HartsStep(h) /\ ArbiterStep /\ BeliefStep(dmi)
      BY <1>2, <2>2, HartsGoOn, ArbiterGoesOn, BeliefGoesOn
    <3>2. LastAcknowledged' /\ Parked' /\ Obeyed' /\ DebugTypeOK' /\ StraysUnknown' /\ Told'
      BY <1>2, <2>2, <3>1, AcknowledgedNext, ParkedNext, ObeyedNext, DebugTypes, StraysUnknownNext,
         ToldNext
    <3>3. Ordered'
      BY <1>2, <2>2, <3>1, OrderedNext
    <3>4. Known'
      BY <1>2, <2>2, <3>1, <3>2, <3>3, KnownNext
    <3> QED
      BY <3>2, <3>3, <3>4 DEF DebugInv
  <2> QED
    BY <2>1, <2>2
<1> QED
  BY <1>1, <1>2 DEF DebugNext

\* Whatever accesses come while a command executes, whichever harts halt, resume or trap, and
\* whenever the module is switched off, the debugger knows the registers as soon as the arbiter is
\* idle (record_belief's history, cmd_arbiter, park_loop.S).
THEOREM DebuggerKnowsRegisters == DebugSpec => []DebuggerIsRight
<1>1. DebugInv => DebuggerIsRight
  <2> SUFFICES ASSUME DebugInv PROVE DebuggerIsRight
    OBVIOUS
  <2>1. \A h \in hart.halted : at[h] # "run"
    BY DEF DebugInv, Parked
  <2>2. ASSUME cmd_state = "CMD_IDLE"
        PROVE  /\ \A h \in HartIds \ Strays : belief.x8[h] \in {Unknown, Own(h)}
               /\ Strays = {} => belief.data \in {Unknown, dci.data_reg}
               /\ told => cmd_err # "none"
    BY <2>2 DEF DebugInv, Known, Told, Loaded, Stored, Knows
  <2> QED
    BY <2>1, <2>2 DEF DebuggerIsRight
<1> QED
  BY <1>1, DebugInitially, DebugStep, PTL DEF DebugSpec
================================================================================
