-------------------------------- MODULE TmrAlu --------------------------------
(***************************************************************************)
(* The triplicated ALU of the SET experiment (neorv32_cpu, and the voter    *)
(* tmr_neorv32_alu_voter): three replicas compute the same operation, the   *)
(* saboteur corrupts operand rs1 of one replica (A), and the voter passes   *)
(* the bitwise majority of results, sums and compare flags on.  The         *)
(* operation itself is the serial shifter, the ALU's smallest co-processor: *)
(* it works for several clocks on the operand it has latched.               *)
(***************************************************************************)
EXTENDS SetSaboteur, TLAPS

CONSTANTS
  ShamtBits,   \* width of the shift amount (5)
  Operands,    \* the words programs shift
  Victims      \* the replicas whose operand may be corrupted: {"A"} on the board

ASSUME ShifterAssumption ==
  /\ ShamtBits \in Nat \ {0} /\ DataBits = 2^ShamtBits
  /\ Operands \subseteq Vectors(DataBits)

Replicas == {"A", "B", "C"}

VARIABLES
  rs1, shamt, right,   \* the operands and the direction of the running instruction
  waiting,             \* the CPU waits for the co-processor
  sreg, cnt,           \* shift register of each replica, and the step counter
  busy, oe             \* handshake and output enable (the replicas' are equal:
                       \* the shift amount is not attacked)

shifterVars == <<rs1, shamt, right, waiting, sreg, cnt, busy, oe>>
tmrVars == <<saboteurVars, shifterVars>>

\* Operand rs1 as replica r receives it while the saboteur sits at `victim'.
Operand(r, victim, fault) == IF r = victim THEN data_out(rs1, fault) ELSE rs1

ShiftOnce(v) ==
  IF right THEN ShiftInTop(v, DataBits, 0)
  ELSE {i + 1 : i \in v} \intersect (0 .. DataBits - 1)

done == cnt <= 1

\* Issue: the instruction reaches the shifter; every replica latches its operand.
Trigger(victim, fault) ==
  /\ ~waiting
  /\ waiting' = TRUE /\ busy' = TRUE
  /\ oe' = (busy /\ done)
  /\ cnt' = shamt
  /\ sreg' = [r \in Replicas |-> Operand(r, victim, fault)]
  /\ UNCHANGED <<rs1, shamt, right>>

ShiftStep ==
  IF cnt > 0
    THEN cnt' = cnt - 1 /\ sreg' = [r \in Replicas |-> ShiftOnce(sreg[r])]
    ELSE UNCHANGED <<cnt, sreg>>

\* (A shift takes too few clocks to be aborted by the CPU's monitor timeout.)
\* Shift until one step is left; the CPU takes the result one clock after done.
Shift ==
  /\ waiting /\ busy
  /\ ShiftStep
  /\ busy' = ~done
  /\ oe' = done
  /\ UNCHANGED <<rs1, shamt, right, waiting>>

\* The result is on the bus for this clock; the next instruction brings its operands.
Complete ==
  /\ waiting /\ ~busy
  /\ ShiftStep
  /\ waiting' = FALSE /\ oe' = FALSE
  /\ rs1' \in Operands /\ shamt' \in 0 .. DataBits - 1 /\ right' \in BOOLEAN
  /\ UNCHANGED busy

\* res_o of a replica: zero unless its output is enabled.
Result(r) == IF oe THEN sreg[r] ELSE {}

\* Mutant: two of the three pairs are compared.
Majority_TwoPairs(a, b, c) == (a \intersect b) \union (a \intersect c)

Majority(a, b, c) == (a \intersect b) \union (a \intersect c) \union (b \intersect c)

res_o == Majority(Result("A"), Result("B"), Result("C"))

\* Mutant: the flag compares the two replicas that are not attacked.
err_o_Unattacked == Result("B") # Result("C")

err_o == Result("A") # Result("B") /\ Result("A") # Result("C")

TmrInit ==
  /\ SaboteurInit
  /\ rs1 \in Operands /\ shamt \in 0 .. DataBits - 1 /\ right \in BOOLEAN
  /\ waiting = FALSE /\ busy = FALSE /\ oe = FALSE
  /\ sreg = [r \in Replicas |-> {}] /\ cnt = 0

TmrNext ==
  /\ SaboteurNext
  /\ \/ \E victim \in Victims, fault \in FaultSetups : Trigger(victim, fault)
     \/ Shift
     \/ Complete

TmrSpec == TmrInit /\ [][TmrNext]_tmrVars

-------------------------------------------------------------------------------

\* What the instruction asks for.
Shifted(v, n) ==
  IF right THEN {i - n : i \in {j \in v : j >= n}}
  ELSE {i + n : i \in {j \in v : j + n < DataBits}}

\* The vote hides every fault of the saboteur: when the CPU takes the result it is
\* the fault-free one, whatever became of the victim's operand at any clock.
VotedIsClean == waiting /\ ~busy => oe /\ res_o = Shifted(rs1, shamt)

\* With the saboteur at replica A the error flag never cries wolf and reports every
\* wrong result of that replica.
ErrorTracksReplicaA ==
  err_o <=> (waiting /\ ~busy /\ Result("A") # Shifted(rs1, shamt))

-------------------------------------------------------------------------------
(* The vote is clean and the flag is right for words of any width, shifts   *)
(* of any length, every fault, and any victim per instruction.              *)

\* While an instruction is at work, every replica but one holds the operand, shifted by as much
\* as the counter has gone down; the result is out when the counter is at zero.
Running ==
  waiting =>
    /\ cnt \in 0 .. shamt
    /\ \E victim \in Victims : \A r \in Replicas \ {victim} : sreg[r] = Shifted(rs1, shamt - cnt)

Handshake ==
  /\ waiting \in BOOLEAN /\ busy \in BOOLEAN /\ oe = (waiting /\ ~busy)
  /\ busy => waiting
  /\ waiting /\ ~busy => cnt = 0

OperandsOK == rs1 \in Vectors(DataBits) /\ shamt \in Nat /\ right \in BOOLEAN

TmrInv == OperandsOK /\ Handshake /\ Running

\* Nothing shifted by nothing.
LEMMA ShiftedByZero ==
  ASSUME OperandsOK
  PROVE  Shifted(rs1, 0) = rs1
<1>1. \A x \in rs1 : x \in Nat /\ x < DataBits
  BY SaboteurAssumption DEF OperandsOK, Vectors
<1> QED
  BY <1>1, SaboteurAssumption DEF Shifted, OperandsOK

\* One more clock of the shifter is one more position.
LEMMA ShiftedOnce ==
  ASSUME OperandsOK, NEW n \in Nat
  PROVE  ShiftOnce(Shifted(rs1, n)) = Shifted(rs1, n + 1)
<1>1. \A x \in rs1 : x \in Nat /\ x < DataBits
  BY SaboteurAssumption DEF OperandsOK, Vectors
<1>2. CASE right
  <2>1. ShiftOnce(Shifted(rs1, n)) = {i - 1 : i \in Shifted(rs1, n) \ {0}}
    BY <1>2 DEF ShiftOnce, ShiftInTop
  <2>2. Shifted(rs1, n) = {i - n : i \in {j \in rs1 : j >= n}}
    BY <1>2 DEF Shifted
  <2>3. Shifted(rs1, n + 1) = {i - (n + 1) : i \in {j \in rs1 : j >= n + 1}}
    BY <1>2 DEF Shifted
  <2>4. ASSUME NEW x \in Shifted(rs1, n + 1) PROVE x \in ShiftOnce(Shifted(rs1, n))
    <3>1. PICK i \in rs1 : i >= n + 1 /\ x = i - (n + 1)
      BY <2>3
    <3>2. i - n \in Shifted(rs1, n) \ {0} /\ x = (i - n) - 1
      BY <3>1, <1>1, <2>2
    <3> QED
      BY <3>2, <2>1
  <2>5. ASSUME NEW x \in ShiftOnce(Shifted(rs1, n)) PROVE x \in Shifted(rs1, n + 1)
    <3>1. PICK k \in Shifted(rs1, n) : k # 0 /\ x = k - 1
      BY <2>1
    <3>2. PICK i \in rs1 : i >= n /\ k = i - n
      BY <2>2
    <3>3. i >= n + 1 /\ x = i - (n + 1)
      BY <3>1, <3>2, <1>1
    <3> QED
      BY <3>3, <2>3
  <2> QED
    BY <2>4, <2>5
<1>3. CASE ~right
  <2>1. ShiftOnce(Shifted(rs1, n)) = {i + 1 : i \in Shifted(rs1, n)} \intersect (0 .. DataBits - 1)
    BY <1>3 DEF ShiftOnce
  <2>2. Shifted(rs1, n) = {i + n : i \in {j \in rs1 : j + n < DataBits}}
    BY <1>3 DEF Shifted
  <2>3. Shifted(rs1, n + 1) = {i + (n + 1) : i \in {j \in rs1 : j + (n + 1) < DataBits}}
    BY <1>3 DEF Shifted
  <2>4. ASSUME NEW x \in Shifted(rs1, n + 1) PROVE x \in ShiftOnce(Shifted(rs1, n))
    <3>1. PICK i \in rs1 : i + (n + 1) < DataBits /\ x = i + (n + 1)
      BY <2>3
    <3>2. i + n \in Shifted(rs1, n) /\ x = (i + n) + 1 /\ x \in 0 .. DataBits - 1
      BY <3>1, <1>1, <2>2, SaboteurAssumption
    <3> QED
      BY <3>2, <2>1
  <2>5. ASSUME NEW x \in ShiftOnce(Shifted(rs1, n)) PROVE x \in Shifted(rs1, n + 1)
    <3>1. PICK k \in Shifted(rs1, n) : x = k + 1 /\ x \in 0 .. DataBits - 1
      BY <2>1
    <3>2. PICK i \in rs1 : k = i + n
      BY <2>2
    <3>3. i + (n + 1) < DataBits /\ x = i + (n + 1)
      BY <3>1, <3>2, <1>1, SaboteurAssumption
    <3> QED
      BY <3>3, <2>3
  <2> QED
    BY <2>4, <2>5
<1> QED
  BY <1>2, <1>3

\* The initial state satisfies the invariant.
LEMMA TmrInitInv == TmrInit => TmrInv
<1> SUFFICES ASSUME TmrInit PROVE TmrInv
  OBVIOUS
<1>1. OperandsOK
  BY ShifterAssumption, SaboteurAssumption DEF TmrInit, OperandsOK
<1>2. Handshake /\ Running
  BY DEF TmrInit, Handshake, Running
<1> QED
  BY <1>1, <1>2 DEF TmrInv

\* The registers of all replicas but one go on alike.
LEMMA ShiftStepRuns ==
  ASSUME TmrInv, waiting, ShiftStep, UNCHANGED <<rs1, shamt, right>>
  PROVE  Running' /\ cnt' = IF cnt > 0 THEN cnt - 1 ELSE 0
<1>1. cnt \in 0 .. shamt /\ shamt \in Nat
  BY DEF TmrInv, Running, OperandsOK
<1>2. PICK victim \in Victims :
        \A r \in Replicas \ {victim} : sreg[r] = Shifted(rs1, shamt - cnt)
  BY DEF TmrInv, Running
<1>3. CASE cnt > 0
  <2>1. cnt' = cnt - 1 /\ sreg' = [r \in Replicas |-> ShiftOnce(sreg[r])]
    BY <1>3 DEF ShiftStep
  <2>2. shamt - cnt' = (shamt - cnt) + 1 /\ shamt - cnt \in Nat /\ cnt' \in 0 .. shamt
    BY <2>1, <1>1, <1>3
  <2>3. ShiftOnce(Shifted(rs1, shamt - cnt)) = Shifted(rs1, (shamt - cnt) + 1)
    BY <2>2, ShiftedOnce DEF TmrInv
  <2>4. \A r \in Replicas \ {victim} : sreg'[r] = Shifted(rs1, shamt - cnt')
    BY <2>1, <2>2, <2>3, <1>2
  <2>5. (Shifted(rs1, shamt - cnt))' = Shifted(rs1, shamt - cnt')
    BY DEF Shifted
  <2> QED
    BY <2>1, <2>2, <2>4, <2>5, <1>3 DEF Running
<1>4. CASE ~(cnt > 0)
  <2>1. cnt' = cnt /\ sreg' = sreg /\ cnt = 0
    BY <1>1, <1>4 DEF ShiftStep
  <2>2. (Shifted(rs1, shamt - cnt))' = Shifted(rs1, shamt - cnt)
    BY <2>1 DEF Shifted
  <2> QED
    BY <2>1, <2>2, <1>1, <1>2 DEF Running
<1> QED
  BY <1>3, <1>4

\* Every step keeps the invariant: at the start of an instruction one replica at most gets a
\* wrong operand, and nothing mixes the replicas before the vote.
LEMMA TmrStep == TmrInv /\ [TmrNext]_tmrVars => TmrInv'
<1> SUFFICES ASSUME TmrInv, [TmrNext]_tmrVars PROVE TmrInv'
  OBVIOUS
<1>1. CASE UNCHANGED tmrVars
  <2>1. UNCHANGED <<rs1, shamt, right, waiting, sreg, cnt, busy, oe>>
    BY <1>1 DEF tmrVars, shifterVars
  <2>2. (Shifted(rs1, shamt - cnt))' = Shifted(rs1, shamt - cnt)
    BY <2>1 DEF Shifted
  <2> QED
    BY <2>1, <2>2 DEF TmrInv, OperandsOK, Handshake, Running
<1>2. ASSUME NEW victim \in Victims, NEW fault \in FaultSetups, Trigger(victim, fault)
      PROVE  TmrInv'
  <2>1. OperandsOK'
    BY <1>2 DEF Trigger, TmrInv, OperandsOK
  <2>2. Handshake'
    BY <1>2 DEF Trigger, TmrInv, Handshake
  <2>3. cnt' = shamt /\ UNCHANGED <<rs1, shamt, right>> /\ shamt \in Nat
    BY <1>2 DEF Trigger, TmrInv, OperandsOK
  <2>4. cnt' \in 0 .. shamt' /\ shamt' - cnt' = 0
    BY <2>3
  <2>5. (Shifted(rs1, shamt - cnt))' = Shifted(rs1, 0)
    BY <2>3, <2>4 DEF Shifted
  <2>6. \A r \in Replicas \ {victim} : sreg'[r] = rs1
    BY <1>2 DEF Trigger, Operand
  <2>7. Running'
    BY <2>4, <2>5, <2>6, ShiftedByZero DEF Running, TmrInv
  <2> QED
    BY <2>1, <2>2, <2>7 DEF TmrInv
<1>3. CASE Shift
  <2>1. Running' /\ cnt' = IF cnt > 0 THEN cnt - 1 ELSE 0
    BY <1>3, ShiftStepRuns DEF Shift
  <2>2. cnt \in Nat
    BY <1>3 DEF Shift, TmrInv, Running, OperandsOK
  <2>3. OperandsOK'
    BY <1>3 DEF Shift, TmrInv, OperandsOK
  <2>4. done \in BOOLEAN /\ (done => cnt' = 0)
    BY <2>1, <2>2 DEF done
  <2>5. waiting' = waiting /\ waiting /\ busy' = ~done /\ oe' = done
    BY <1>3 DEF Shift
  <2>6. Handshake'
    BY <2>4, <2>5 DEF Handshake, TmrInv
  <2> QED
    BY <2>1, <2>3, <2>6 DEF TmrInv
<1>4. CASE Complete
  <2>1. OperandsOK'
    BY <1>4, ShifterAssumption, SaboteurAssumption DEF Complete, OperandsOK
  <2>2. waiting' = FALSE /\ oe' = FALSE /\ busy' = busy /\ ~busy
    BY <1>4 DEF Complete
  <2>3. Handshake' /\ Running'
    BY <2>2 DEF Handshake, Running, TmrInv
  <2> QED
    BY <2>1, <2>3 DEF TmrInv
<1> QED
  BY <1>1, <1>2, <1>3, <1>4 DEF TmrNext

\* When the CPU takes the result, every replica but one has the fault-free one.
LEMMA AllButOneAreRight ==
  ASSUME TmrInv, waiting, ~busy
  PROVE  oe /\ \E victim \in Victims :
                 \A r \in Replicas \ {victim} : Result(r) = Shifted(rs1, shamt)
<1>1. oe /\ cnt = 0 /\ shamt \in Nat
  BY DEF TmrInv, Handshake, OperandsOK
<1>2. shamt - cnt = shamt
  BY <1>1
<1>3. PICK victim \in Victims :
        \A r \in Replicas \ {victim} : sreg[r] = Shifted(rs1, shamt - cnt)
  BY DEF TmrInv, Running
<1> QED
  BY <1>1, <1>2, <1>3 DEF Result

\* The vote hides every fault of the saboteur: words of any width, any mask and duration of a
\* fault, and whichever replica is the victim of an instruction.
THEOREM TmrVotesClean == TmrSpec => []VotedIsClean
<1>1. TmrInv => VotedIsClean
  <2> SUFFICES ASSUME TmrInv, waiting, ~busy PROVE oe /\ res_o = Shifted(rs1, shamt)
    BY DEF VotedIsClean
  <2>1. PICK victim \in Victims :
          \A r \in Replicas \ {victim} : Result(r) = Shifted(rs1, shamt)
    BY AllButOneAreRight
  <2>2. \/ Result("A") = Shifted(rs1, shamt) /\ Result("B") = Shifted(rs1, shamt)
        \/ Result("A") = Shifted(rs1, shamt) /\ Result("C") = Shifted(rs1, shamt)
        \/ Result("B") = Shifted(rs1, shamt) /\ Result("C") = Shifted(rs1, shamt)
    BY <2>1 DEF Replicas
  <2>3. res_o = Shifted(rs1, shamt)
    BY <2>2 DEF res_o, Majority
  <2> QED
    BY <2>3, AllButOneAreRight
<1> QED
  BY TmrInitInv, TmrStep, <1>1, PTL DEF TmrSpec

\* With the saboteur at replica A, as on the board, the error flag tells exactly its errors.
THEOREM TmrFlagTracksA ==
  ASSUME Victims \subseteq {"A"}
  PROVE  TmrSpec => []ErrorTracksReplicaA
<1>1. TmrInv => ErrorTracksReplicaA
  <2> SUFFICES ASSUME TmrInv PROVE ErrorTracksReplicaA
    OBVIOUS
  <2>1. CASE waiting /\ ~busy
    <3>1. Result("B") = Shifted(rs1, shamt) /\ Result("C") = Shifted(rs1, shamt)
      BY <2>1, AllButOneAreRight DEF Replicas
    <3> QED
      BY <2>1, <3>1 DEF ErrorTracksReplicaA, err_o
  <2>2. CASE ~(waiting /\ ~busy)
    <3>1. ~oe
      BY <2>2 DEF TmrInv, Handshake
    <3> QED
      BY <2>2, <3>1 DEF ErrorTracksReplicaA, err_o, Result
  <2> QED
    BY <2>1, <2>2
<1> QED
  BY TmrInitInv, TmrStep, <1>1, PTL DEF TmrSpec
===============================================================================
