----------------------------------- MODULE Rte -----------------------------------
(***************************************************************************)
(* The run-time environment (neorv32_rte.c): a first-level handler saves    *)
(* the registers in a frame on the stack of whatever it interrupts, calls   *)
(* the handler the table has for the cause, corrects the return address and *)
(* restores the registers.  Handlers read and change the registers of the   *)
(* interrupted program through the frame, whose address is in mscratch; one *)
(* of them emulates unaligned loads (demo_emulate_unaligned/main.c).        *)
(*                                                                         *)
(* This is one hart; all it shares with the other one is the table.         *)
(* Registers hold tokens: x3 stands for those a function may clobber, x4    *)
(* for those it preserves.  Interrupts are closed from a trap to its mret,  *)
(* and handlers raise no exceptions.                                        *)
(***************************************************************************)
EXTENDS Integers

CONSTANT StackWords   \* the words of the stack

Registers == 0..4
sp == 2
FrameWords == 5       \* 32 in the code

\* The stack holds a frame below the word the program keeps there.
ASSUME RteAssumption == StackWords \in Nat /\ StackWords > FrameWords

Exceptions == {"I_ACCESS", "L_MISALIGNED", "MENV_CALL"}
Interrupts == {"MTI"}
Fatal == {"I_ACCESS"}

Instruction(op, size, rd, rs1) ==
  [op |-> op, size |-> size, rd |-> rd, rs1 |-> rs1, imm |-> 1]
Lw == Instruction("lw", 4, 1, sp)
Instructions ==
  {Instruction("lw", 4, rd, rs1) : rd \in {0, 1}, rs1 \in {0, 1, sp}}
    \cup {Instruction("ecall", 4, 1, sp), Instruction("c.lw", 2, 1, sp),
          Instruction("c.add", 2, 1, sp)}

Causes(inst) ==
  Interrupts \cup {"I_ACCESS"} \cup (CASE inst.op \in {"lw", "c.lw"} -> {"L_MISALIGNED"}
                                       [] inst.op = "ecall" -> {"MENV_CALL"}
                                       [] OTHER -> {})

Junk == 90
Data(address) == 50 + (address % 2)   \* what lies at an unaligned address

VARIABLES
  mhartid,
  vector_lut,        \* __neorv32_rte_vector_lut
  trap_at,           \* where the hart is
  handler,           \* the second-level handler it has been sent to
  reg, mem,          \* its registers and its stack
  inst,              \* the instruction that was interrupted or raised the exception
  trap_pc,           \* where the program goes on; the last instruction interrupted is at 0
  mtvec, mie, mstatus, mcause, mepc, mscratch,
  due                \* history: the registers, stack and pc the program must find

csrs == <<mtvec, mie, mstatus, mcause, mepc, mscratch>>
rteVars == <<mhartid, vector_lut, trap_at, handler, reg, mem, inst, trap_pc, csrs, due>>

Causing == Exceptions \cup Interrupts
Panics == [c \in Causing |-> "panic"]

RteInit ==
  /\ mhartid \in {0, 1} /\ vector_lut = Panics
  /\ trap_at = "program" /\ handler = "none"
  /\ reg = [r \in Registers |-> IF r = sp THEN StackWords ELSE 10 * r]
  /\ mem = [a \in 0..(StackWords - 1) |-> Junk]
  /\ inst = Lw /\ trap_pc = 0
  /\ mtvec = "crt0_panic" /\ mie = {} /\ mstatus = [mie |-> FALSE, mpie |-> FALSE]
  /\ mcause = "none" /\ mepc = 0 /\ mscratch = 0
  /\ due = [reg |-> reg, mem |-> mem, pc |-> 0]

-------------------------------------------------------------------------------
(* The program                                                              *)

Program == trap_at = "program"

\* A function of the program keeps a word on the stack, and takes it back.
Push ==
  /\ Program /\ reg[sp] = StackWords
  /\ reg' = [reg EXCEPT ![sp] = StackWords - 1]
  /\ mem' = [mem EXCEPT ![StackWords - 1] = reg[1]]
  /\ due' = [due EXCEPT !.reg = reg', !.mem = mem']
  /\ UNCHANGED <<mhartid, vector_lut, trap_at, handler, inst, trap_pc, csrs>>

Pop ==
  /\ Program /\ reg[sp] = StackWords - 1
  /\ reg' = [reg EXCEPT ![sp] = StackWords, ![1] = mem[StackWords - 1]]
  /\ due' = [due EXCEPT !.reg = reg']
  /\ UNCHANGED <<mhartid, vector_lut, trap_at, handler, mem, inst, trap_pc, csrs>>

\* The primary hart fills the table, for both.
Setup(hart) == vector_lut' = IF hart = 0 THEN Panics ELSE vector_lut

neorv32_rte_setup ==
  /\ Program
  /\ mstatus' = [mie |-> FALSE, mpie |-> FALSE] /\ mie' = {}
  /\ Setup(mhartid)
  /\ mtvec' = "rte_core"
  /\ UNCHANGED <<mhartid, trap_at, handler, reg, mem, inst, trap_pc, mcause, mepc, mscratch, due>>

EnableInterrupts ==
  /\ Program /\ mtvec = "rte_core"
  /\ mstatus' = [mstatus EXCEPT !.mie = TRUE] /\ mie' = Interrupts
  /\ UNCHANGED <<mhartid, vector_lut, trap_at, handler, reg, mem, inst, trap_pc,
                 mtvec, mcause, mepc, mscratch, due>>

Install(code, new) == vector_lut' = [vector_lut EXCEPT ![code] = new]

neorv32_rte_handler_install ==
  \/ \E code \in Causing : Install(code, "plain")
  \/ Install("L_MISALIGNED", "emulate")

neorv32_rte_handler_uninstall == \E code \in Causing : Install(code, "panic")

\* The hart itself between two traps, or the other one at any time; what it does after the
\* table has been read counts for the next trap.
ChangeTable ==
  /\ trap_at \in {"program", "dispatch"}
  /\ neorv32_rte_handler_install \/ neorv32_rte_handler_uninstall \/ Setup(1 - mhartid)
  /\ UNCHANGED <<mhartid, trap_at, handler, reg, mem, inst, trap_pc, csrs, due>>

-------------------------------------------------------------------------------
(* The trap, and the first-level handler                                    *)

Trap(now, cause) ==
  /\ Program
  /\ cause \in Interrupts => mstatus.mie /\ cause \in mie
  /\ inst' = now /\ mcause' = cause /\ mepc' = 0
  /\ mstatus' = [mie |-> FALSE, mpie |-> mstatus.mie]
  /\ trap_at' = IF mtvec = "rte_core" THEN "save" ELSE "halted"
  /\ due' = [due EXCEPT !.pc = IF cause \in Interrupts \cup {"I_ACCESS"} THEN 0 ELSE now.size]
  /\ UNCHANGED <<mhartid, vector_lut, handler, reg, mem, trap_pc, mtvec, mie, mscratch>>

\* Mutant: the stack pointer in the frame is that of the handler.
Frame_MovedSp(base) ==
  [a \in (base + 1)..(base + FrameWords - 1) |-> IF a = base + sp THEN base ELSE reg[a - base]]

\* Slot 0 is left as it is.
Frame(base) == [a \in (base + 1)..(base + FrameWords - 1) |-> reg[a - base]]

Save ==
  /\ trap_at = "save" /\ trap_at' = "dispatch"
  /\ mscratch' = reg[sp] - FrameWords
  /\ mem' = LET frame == Frame(mscratch')
            IN [a \in DOMAIN mem |-> IF a \in DOMAIN frame THEN frame[a] ELSE mem[a]]
  /\ reg' = [reg EXCEPT ![sp] = mscratch', ![1] = reg[sp]]
  /\ UNCHANGED <<mhartid, vector_lut, handler, inst, trap_pc,
                 mtvec, mie, mstatus, mcause, mepc, due>>

Dispatch ==
  /\ trap_at = "dispatch" /\ trap_at' = "handler"
  /\ handler' = vector_lut[mcause]
  /\ UNCHANGED <<mhartid, vector_lut, reg, mem, inst, trap_pc, csrs, due>>

\* What a function may do: it clobbers registers and uses the stack below it.
Clobbered == [reg EXCEPT ![1] = Junk, ![3] = Junk]
Used(bottom) == [a \in DOMAIN mem |-> IF a < bottom THEN Junk ELSE mem[a]]

neorv32_rte_context_get(x) == IF x = 0 THEN 0 ELSE mem[mscratch + x]

neorv32_rte_context_put(x, data) ==
  mem' = IF x = 0 THEN Used(reg[sp]) ELSE [Used(reg[sp]) EXCEPT ![mscratch + x] = data]

InHandler(name) == trap_at = "handler" /\ handler = name
Returns == trap_at' = "adjust" /\ reg' = Clobbered

\* A handler that leaves the program alone, or changes one of its registers.
Plain ==
  /\ InHandler("plain") /\ Returns
  /\ \/ mem' = Used(reg[sp]) /\ UNCHANGED due
     \/ \E x \in {0, 1} :
          /\ neorv32_rte_context_put(x, Data(x))
          /\ due' = [due EXCEPT !.reg[x] = IF x = 0 THEN 0 ELSE Data(x)]
  /\ UNCHANGED <<mhartid, vector_lut, handler, inst, trap_pc, csrs>>

trap_handler_emulate_unaligned_lw ==
  /\ InHandler("emulate") /\ Returns
  /\ LET rs1 == neorv32_rte_context_get(inst.rs1)
     IN IF inst.op = "lw"
        THEN /\ neorv32_rte_context_put(inst.rd, Data(rs1 + inst.imm))
             /\ due' = [due EXCEPT !.reg[inst.rd] =
                          IF inst.rd = 0 THEN 0 ELSE Data(due.reg[inst.rs1] + inst.imm)]
        ELSE mem' = Used(reg[sp]) /\ UNCHANGED due
  /\ UNCHANGED <<mhartid, vector_lut, handler, inst, trap_pc, csrs>>

\* An interrupt nobody handles is disabled, a fatal exception stops the hart.
Panic ==
  /\ InHandler("panic")
  /\ mie' = mie \ {mcause}
  /\ IF mcause \in Fatal THEN trap_at' = "halted" /\ UNCHANGED <<reg, mem>>
                         ELSE Returns /\ mem' = Used(reg[sp])
  /\ UNCHANGED <<mhartid, vector_lut, handler, inst, trap_pc,
                 mtvec, mstatus, mcause, mepc, mscratch, due>>

\* Mutant: an instruction that could not be fetched is passed over.
Repeats_Interrupts == mcause \in Interrupts

Repeats == mcause \in Interrupts \cup {"I_ACCESS"}

AdjustMepc ==
  /\ trap_at = "adjust" /\ trap_at' = "restore"
  /\ mepc' = IF Repeats THEN mepc ELSE mepc + inst.size
  /\ UNCHANGED <<mhartid, vector_lut, handler, reg, mem, inst, trap_pc,
                 mtvec, mie, mstatus, mcause, mscratch, due>>

\* sp last, for the frame is addressed through it
Restore ==
  /\ trap_at = "restore" /\ trap_at' = "mret"
  /\ reg' = [r \in Registers |-> IF r = 0 THEN 0 ELSE mem[reg[sp] + r]]
  /\ UNCHANGED <<mhartid, vector_lut, handler, mem, inst, trap_pc, csrs, due>>

\* What nothing reads before it is written again is forgotten: the stack below sp, the CSRs.
Mret ==
  /\ trap_at = "mret" /\ trap_at' = "program"
  /\ trap_pc' = mepc /\ mstatus' = [mie |-> mstatus.mpie, mpie |-> TRUE]
  /\ mepc' = 0 /\ mscratch' = 0 /\ mcause' = "none" /\ handler' = "none" /\ inst' = Lw
  /\ mem' = Used(reg[sp])
  /\ UNCHANGED <<mhartid, vector_lut, reg, mtvec, mie, due>>

RteNext ==
  \/ Push \/ Pop \/ neorv32_rte_setup \/ EnableInterrupts \/ ChangeTable
  \/ \E now \in Instructions : \E cause \in Causes(now) : Trap(now, cause)
  \/ Save \/ Dispatch \/ Plain \/ trap_handler_emulate_unaligned_lw \/ Panic
  \/ AdjustMepc \/ Restore \/ Mret

RteSpec == RteInit /\ [][RteNext]_rteVars

-------------------------------------------------------------------------------
\* A program that has been interrupted, or whose instruction has been emulated, goes on with
\* exactly the registers, the stack and the instruction it would have had, and those changes
\* a handler made through the frame: whichever registers the instruction names, whatever the
\* handler used of stack and registers, and whatever the other hart did to the table meanwhile.
TrapIsTransparent ==
  Program => /\ reg = due.reg /\ trap_pc = due.pc
             /\ \A a \in DOMAIN mem : a >= due.reg[sp] => mem[a] = due.mem[a]
================================================================================
