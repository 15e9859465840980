------------------------------- MODULE CpuControl -------------------------------
(***************************************************************************)
(* neorv32_cpu_control: the execute engine, the trap controller, debug mode *)
(* and the CSRs that decide where the hart goes and what may interrupt it.  *)
(*                                                                          *)
(* An instruction is its `kind' and whether its encoding is illegal (`bad').*)
(* The combinational signals come first; then one action per state of the   *)
(* execute engine, each of them a whole clock edge of this unit.            *)
(* A CSR read without a write is an ALU instruction of two clocks.           *)
(*                                                                          *)
(* Left out are CSRs nothing in this unit reads (all of mcause but bit 31,  *)
(* mtval, mscratch, counters), vectored mode, mstatus.MPRV and TW.  One     *)
(* load/store exception ("lsu") stands for the four, two system interrupts  *)
(* for the nineteen: "mti", the last in priority, and "mei" for the others. *)
(***************************************************************************)
EXTENDS Integers, Sequences, FiniteSets

CONSTANTS
  PcBits,       \* width of a half-word address
  MonitorBits,  \* alu_cp_tmo_c: log2 of the longest co-processor operation
  Mtvec, DebugPark, DebugExc, BootAddr,  \* entry points
  Targets       \* addresses programs jump to and write to mepc and dpc

VARIABLES
  generics,     \* .c .u .sdext .const_br: configuration; .kinds .bad: instructions of the
                \* program, and illegal ones among them; .irqs .held: lines that may
                \* interrupt, and whether they then stay high
  exec,         \* execute engine
  ctrl,         \* registered control signals
  monitor_cnt,  \* clocks spent in S_ALU_WAIT
  exc_buf, irq_pnd, irq_buf, env_pend,   \* trap controller
  debug_run,    \* in debug mode
  csr,
  irq_dbg, hwtrig  \* inputs: halt request of the debug module, match of a trigger

controlVars == <<exec, ctrl, monitor_cnt, exc_buf, irq_pnd, irq_buf, env_pend, debug_run, csr>>

Pcs == 0 .. 2^PcBits - 1
After(pc, n) == (pc + n) % 2^PcBits

\* The state constraint on addresses without compressed instructions.
Aligned(pc) == IF generics.c THEN pc ELSE pc - (pc % 2)

\* From the highest priority to the lowest; the last is the encoder's default.
Priority ==
  <<"iaccess", "illegal", "ialign", "ecall", "ebreak", "lsu",
    "db_halt", "db_trig", "db_brkp", "db_step", "mei">>
Default == "mti"

Causes        == {Priority[k] : k \in DOMAIN Priority} \union {Default}
SystemIrqs    == {"mei", "mti"}
DebugCauses   == {"db_halt", "db_trig", "db_brkp", "db_step"}
AsyncCauses   == SystemIrqs \union {"db_halt", "db_trig", "db_step"}
Exceptions    == Causes \ (SystemIrqs \union {"db_halt"})
InstrExc      == {"iaccess", "illegal", "ialign"}
SyncExc       == InstrExc \union {"ecall", "ebreak", "lsu"}

CsrKinds == {"csr_mstatus", "csr_mie", "csr_mepc", "csr_dcsr", "csr_dpc"}
Kinds == {"alu", "multi", "load", "store", "branch", "jump", "fence",
          "ecall", "ebreak", "mret", "dret", "wfi"} \union CsrKinds

States == {"S_RESTART", "S_DISPATCH", "S_TRAP_ENTER", "S_TRAP_EXIT", "S_EXECUTE", "S_ALU_WAIT",
           "S_BRANCH", "S_MEM_REQ", "S_MEM_RSP", "S_SYSTEM", "S_SLEEP"}

ctrl_bus_zero_c == [rf_wb_en |-> FALSE, csr_we |-> FALSE, lsu_req |-> FALSE]

\* Without user mode mpp is tied to M, and dcsr.prv (which then has no effect) to U.
ControlInit ==
  /\ exec = [state |-> "S_RESTART", kind |-> "alu", bad |-> FALSE, ci |-> FALSE,
             pc |-> BootAddr, pc2 |-> BootAddr]
  /\ ctrl = ctrl_bus_zero_c
  /\ monitor_cnt = 0
  /\ exc_buf = {} /\ irq_pnd = {} /\ irq_buf = {} /\ env_pend = FALSE
  /\ debug_run = FALSE
  /\ csr = [prv |-> "M", mie |-> FALSE, mpie |-> FALSE, mpp |-> IF generics.u THEN "U" ELSE "M",
            ie |-> {}, mepc |-> 0, mcause_irq |-> FALSE, step |-> FALSE, ebreak |-> {},
            dprv |-> IF generics.sdext THEN "U" ELSE "M", dpc |-> 0]

-------------------------------------------------------------------------------
(* Combinational signals.                                                    *)

env_enter == exec.state = "S_TRAP_ENTER"
env_exit  == exec.state = "S_TRAP_EXIT"
exc_fire  == exc_buf # {}

\* Only a CSR whose privilege the hart has, and mret, dret where they belong.
illegal_cmd ==
  \/ exec.bad
  \/ exec.kind = "mret" /\ (csr.prv = "U" \/ debug_run)
  \/ exec.kind = "dret" /\ ~debug_run
  \/ exec.kind \in {"csr_mstatus", "csr_mie", "csr_mepc"} /\ csr.prv = "U"
  \/ exec.kind \in {"csr_dcsr", "csr_dpc"} /\ ~(generics.sdext /\ debug_run)

\* An illegal instruction, or a co-processor that never answers.
instr_il ==
  /\ exec.state \in {"S_EXECUTE", "S_ALU_WAIT"}
  /\ illegal_cmd \/ monitor_cnt >= 2^MonitorBits

InterruptsOpen ==
  /\ csr.mie \/ csr.prv = "U"
  /\ ~debug_run /\ ~csr.step

\* Mutant: the interrupt is taken in any state.
system_irq_fire_Any == irq_buf \intersect SystemIrqs # {} /\ InterruptsOpen

system_irq_fire ==
  /\ exec.state \in {"S_EXECUTE", "S_SLEEP"}
  /\ irq_buf \intersect SystemIrqs # {}
  /\ InterruptsOpen

irq_fire == system_irq_fire \/ "db_halt" \in irq_buf

\* The priority encoder: its last choice needs no request.
cause ==
  LET pending == {k \in DOMAIN Priority : Priority[k] \in exc_buf \union irq_buf}
  IN  IF pending = {} THEN Default
      ELSE Priority[CHOOSE k \in pending : \A j \in pending : k <= j]

\* Mutant: the trap address is always that of the instruction.
trap_pc_Same == exec.pc

trap_pc == IF cause \in AsyncCauses THEN exec.pc2 ELSE exec.pc

\* Debug mode is entered by a halt request, while there is none ...
trig_halt == generics.sdext /\ irq_dbg /\ ~debug_run
\* ... by an instruction when single-stepping, by a trigger, and by ebreak.
debug_triggers(ebreak) ==
  {e \in {"db_step", "db_trig", "db_brkp"} :
     /\ generics.sdext
     /\ CASE e = "db_step" -> csr.step /\ ~debug_run /\ exec.state = "S_EXECUTE"
          [] e = "db_trig" -> hwtrig /\ ~debug_run
          [] e = "db_brkp" -> ebreak /\ (debug_run \/ csr.prv \in csr.ebreak)}
ebreak_trig(ebreak) == IF ebreak /\ ~debug_run /\ csr.prv \notin csr.ebreak THEN {"ebreak"} ELSE {}

rf_wb_en_o == ctrl.rf_wb_en /\ exc_buf \intersect SyncExc = {}

if_ready == exec.state = "S_DISPATCH"

-------------------------------------------------------------------------------
(* Registers that every clock edge updates.                                  *)

exc_buf_after(raised) == IF env_enter THEN {} ELSE exc_buf \union raised

\* `raised': exceptions of the instruction in this clock; `ebreak': one is executed.
trap_buffer(raised, ebreak) ==
  /\ irq_pnd' \in SUBSET generics.irqs
  /\ generics.held => irq_pnd \subseteq irq_pnd'
  /\ irq_buf' = {i \in irq_pnd : i \in csr.ie}
                \union (IF trig_halt THEN {"db_halt"} ELSE {})
                \union (IF env_pend THEN irq_buf ELSE {})
  /\ exc_buf' = exc_buf_after(raised \union (IF instr_il THEN {"illegal"} ELSE {})
                              \union ebreak_trig(ebreak) \union debug_triggers(ebreak))

trap_pending ==
  env_pend' = IF env_enter THEN FALSE ELSE env_pend \/ exc_fire \/ irq_fire

debug_control ==
  debug_run' = CASE ~debug_run /\ env_enter /\ cause \in DebugCauses -> TRUE
                 [] env_exit -> FALSE
                 [] OTHER -> debug_run

multi_cycle_monitor ==
  monitor_cnt' = IF exec.state = "S_ALU_WAIT"
                 THEN (monitor_cnt + 1) % 2^(MonitorBits + 1) ELSE 0

\* What a CSR instruction may write; bits of missing modes stay tied off.
Modes == IF generics.u THEN {"U", "M"} ELSE {"M"}
csr_written ==
  \/ /\ exec.kind = "csr_mstatus"
     /\ \E a, b \in BOOLEAN, p \in Modes : csr' = [csr EXCEPT !.mie = a, !.mpie = b, !.mpp = p]
  \/ /\ exec.kind = "csr_mie"
     /\ \E i \in SUBSET generics.irqs : csr' = [csr EXCEPT !.ie = i]
  \/ /\ exec.kind = "csr_mepc"
     /\ \E t \in Targets : csr' = [csr EXCEPT !.mepc = Aligned(t)]
  \/ /\ exec.kind = "csr_dcsr"
     /\ \E s \in BOOLEAN, e \in SUBSET Modes, p \in IF generics.u THEN Modes ELSE {"U"} :
          csr' = [csr EXCEPT !.step = s, !.ebreak = e, !.dprv = p]
  \/ /\ exec.kind = "csr_dpc"
     /\ \E t \in Targets : csr' = [csr EXCEPT !.dpc = Aligned(t)]

TrapToDebug ==
  [csr EXCEPT !.prv = "M", !.dprv = IF generics.u THEN csr.prv ELSE "U", !.dpc = Aligned(trap_pc)]
\* Mutant: the interrupt enable is not saved.
TrapToMachine_KeepMpie ==
  [csr EXCEPT !.prv = "M", !.mpp = csr.prv, !.mie = FALSE, !.mepc = Aligned(trap_pc),
              !.mcause_irq = cause \in SystemIrqs]

TrapToMachine ==
  [csr EXCEPT !.prv = "M", !.mpp = csr.prv, !.mie = FALSE, !.mpie = csr.mie,
              !.mepc = Aligned(trap_pc), !.mcause_irq = cause \in SystemIrqs]
ReturnFromDebug == [csr EXCEPT !.prv = IF generics.u THEN csr.dprv ELSE "M"]
ReturnFromTrap ==
  [csr EXCEPT !.prv = csr.mpp, !.mpp = IF generics.u THEN "U" ELSE "M",
              !.mie = csr.mpie, !.mpie = TRUE]

\* Software writes first, then the trap's entry and its exit.
csr_write_access ==
  CASE ctrl.csr_we -> csr_written
    [] ~ctrl.csr_we /\ env_enter /\ ~debug_run ->
         csr' = IF cause \in DebugCauses THEN TrapToDebug ELSE TrapToMachine
    [] ~ctrl.csr_we /\ env_exit ->
         csr' = IF debug_run THEN ReturnFromDebug ELSE ReturnFromTrap
    [] OTHER -> UNCHANGED csr

ControlEdge(raised, ebreak) ==
  /\ trap_buffer(raised, ebreak)
  /\ trap_pending /\ debug_control /\ multi_cycle_monitor /\ csr_write_access

-------------------------------------------------------------------------------
(* The execute engine: one action per state.                                 *)

\* The back-end restarts the fetch engine from pc2, in this clock.
Reset(taken) ==
  \/ exec.state = "S_RESTART"
  \/ exec.state = "S_BRANCH" /\ (taken \/ generics.const_br)

Go(state) == exec' = [exec EXCEPT !.state = state]
Control(signals) ==
  ctrl' = [rf_wb_en |-> "rf_wb_en" \in signals, csr_we |-> "csr_we" \in signals,
           lsu_req |-> "lsu_req" \in signals]
Faulted == exc_buf \intersect InstrExc # {}

Restart ==
  /\ exec.state = "S_RESTART"
  /\ Go("S_DISPATCH") /\ Control({})
  /\ ControlEdge({}, FALSE)

\* A pending trap goes first; then an instruction, unless a trigger holds it back.
TrapsFirst == env_pend \/ exc_fire
Accepts(i_valid) == exec.state = "S_DISPATCH" /\ ~TrapsFirst /\ i_valid /\ ~hwtrig

Dispatch(i_valid, i_compr, i_fault) ==
  /\ exec.state = "S_DISPATCH"
  /\ Control({})
  /\ \/ /\ TrapsFirst
        /\ Go("S_TRAP_ENTER")
        /\ ControlEdge({}, FALSE)
     \/ /\ Accepts(i_valid)
        /\ \E kind \in generics.kinds, bad \in BOOLEAN :
             /\ bad => kind \in generics.bad
             /\ exec' = [state |-> "S_EXECUTE", kind |-> kind, bad |-> bad,
                         ci |-> i_compr, pc |-> exec.pc2, pc2 |-> exec.pc2]
        /\ ControlEdge(IF i_fault THEN {"iaccess"} ELSE {}, FALSE)
     \/ /\ ~TrapsFirst /\ ~Accepts(i_valid)
        /\ UNCHANGED exec
        /\ ControlEdge({}, FALSE)

Vector ==
  CASE generics.sdext /\ cause \in DebugCauses -> DebugPark
    [] generics.sdext /\ cause \notin DebugCauses /\ debug_run -> DebugExc
    [] OTHER -> Mtvec

TrapEnter ==
  /\ exec.state = "S_TRAP_ENTER"
  /\ exec' = [exec EXCEPT !.state = "S_RESTART", !.pc2 = Vector]
  /\ Control({})
  /\ ControlEdge({}, FALSE)

TrapExit ==
  /\ exec.state = "S_TRAP_EXIT"
  /\ exec' = [exec EXCEPT !.state = "S_RESTART", !.pc2 = IF debug_run THEN csr.dpc ELSE csr.mepc]
  /\ Control({})
  /\ ControlEdge({}, FALSE)

\* One clock for every instruction: pc2 becomes the next linear address.
AfterExecute ==
  CASE exec.kind = "alu"                 -> "S_DISPATCH"
    [] exec.kind = "multi"               -> "S_ALU_WAIT"
    [] exec.kind \in {"load", "store"}   -> "S_MEM_REQ"
    [] exec.kind \in {"branch", "jump"}  -> "S_BRANCH"
    [] exec.kind = "fence"               -> "S_RESTART"
    [] OTHER                             -> "S_SYSTEM"

Execute ==
  /\ exec.state = "S_EXECUTE"
  /\ exec' = [exec EXCEPT !.state = AfterExecute,
                          !.pc2 = After(exec.pc, IF exec.ci THEN 1 ELSE 2)]
  /\ Control(IF exec.kind = "alu" THEN {"rf_wb_en"} ELSE {})
  /\ ControlEdge({}, FALSE)

\* Mutant: the monitor raises its exception and the engine waits on.
AluLeaves_Done(alu_cp_done) == alu_cp_done

AluLeaves(alu_cp_done) == alu_cp_done \/ Faulted

AluWait(alu_cp_done) ==
  /\ exec.state = "S_ALU_WAIT"
  /\ Go(IF AluLeaves(alu_cp_done) THEN "S_DISPATCH" ELSE "S_ALU_WAIT")
  /\ Control(IF alu_cp_done THEN {"rf_wb_en"} ELSE {})
  /\ ControlEdge({}, FALSE)

Branch(taken, target) ==
  /\ exec.state = "S_BRANCH"
  /\ exec.kind = "jump" => taken
  /\ exec' = [exec EXCEPT !.state = "S_DISPATCH", !.pc2 = IF taken THEN target ELSE exec.pc2]
  /\ Control(IF exec.kind = "jump" THEN {"rf_wb_en"} ELSE {})
  /\ ControlEdge(IF taken /\ target % 2 = 1 /\ ~generics.c THEN {"ialign"} ELSE {},
                 FALSE)

MemReq ==
  /\ exec.state = "S_MEM_REQ"
  /\ Go(IF Faulted THEN "S_DISPATCH" ELSE "S_MEM_RSP")
  /\ Control(IF Faulted THEN {} ELSE {"lsu_req"})
  /\ ControlEdge({}, FALSE)

\* The load/store unit reports its answer, and errors with or without one.
MemRsp(ack, lsu_err) ==
  /\ exec.state = "S_MEM_RSP"
  /\ LET leaves == ack \/ "lsu" \in exc_buf
     IN  /\ Go(IF leaves THEN "S_DISPATCH" ELSE "S_MEM_RSP")
         /\ Control(IF leaves /\ exec.kind = "load" THEN {"rf_wb_en"} ELSE {})
  /\ ControlEdge(IF lsu_err THEN {"lsu"} ELSE {}, FALSE)

\* Mutant: a faulted instruction still writes its CSR.
WritesCsr_Always == exec.kind \in CsrKinds

WritesCsr == exec.kind \in CsrKinds /\ ~Faulted

AfterSystem ==
  CASE ~Faulted /\ exec.kind \in {"mret", "dret"} -> "S_TRAP_EXIT"
    [] ~Faulted /\ exec.kind = "wfi"              -> "S_SLEEP"
    [] OTHER                                      -> "S_DISPATCH"

System ==
  /\ exec.state = "S_SYSTEM"
  /\ Go(AfterSystem)
  /\ Control({"rf_wb_en"} \union (IF WritesCsr THEN {"csr_we"} ELSE {}))
  /\ ControlEdge(IF ~Faulted /\ exec.kind = "ecall" THEN {"ecall"} ELSE {},
                 ~Faulted /\ exec.kind = "ebreak")

Sleep ==
  /\ exec.state = "S_SLEEP"
  /\ Go(IF irq_buf # {} \/ exc_fire THEN "S_DISPATCH" ELSE "S_SLEEP")
  /\ Control({})
  /\ ControlEdge({}, FALSE)
================================================================================
