-------------------------------- MODULE CpuCore --------------------------------
(***************************************************************************)
(* The control unit with its frontend, as wired in neorv32_cpu, and around  *)
(* them whatever the co-processors, the load/store unit, the instruction    *)
(* bus, the interrupt lines, the trigger module and the debugger may do.    *)
(* One step is one clock edge.                                              *)
(***************************************************************************)
EXTENDS CpuControl

CONSTANT Configurations  \* values of generics, with what the hart's surroundings may do

\* neorv32_cpu_control aligns the entry points to words (lines 204, 301-307), and the trigger
\* module comes with the debugger (neorv32_top.vhd:308).  What is said of powers of
\* two is true of them: the provers do not know it.
ASSUME CoreAssumption ==
  /\ PcBits \in Nat \ {0} /\ 2^PcBits \in Nat \ {0} /\ 2^PcBits % 2 = 0
  /\ MonitorBits \in Nat /\ 2^MonitorBits \in Nat \ {0}
  /\ 2^(MonitorBits + 1) = 2 * 2^MonitorBits
  /\ {Mtvec, DebugPark, DebugExc, BootAddr} \subseteq {pc \in Pcs : pc % 2 = 0}
  /\ Targets \subseteq Pcs
  /\ Configurations \subseteq
       [c : BOOLEAN, u : BOOLEAN, sdext : BOOLEAN, const_br : BOOLEAN, late : BOOLEAN,
        faults : BOOLEAN, trig : BOOLEAN, halts : BOOLEAN, held : BOOLEAN,
        irqs : SUBSET SystemIrqs, kinds : SUBSET Kinds, bad : SUBSET Kinds]
  /\ \A g \in Configurations : g.trig => g.sdext

VARIABLES
  fetch, ipb, align_q,  \* frontend
  open,                 \* history: interrupts were enabled when the last instruction began
  wrote,                \* history: the instruction in exec has written a register or a CSR
  idle                  \* history: clocks without progress, see AlwaysGoesOn

vars == <<generics, controlVars, irq_dbg, hwtrig, fetch, ipb, align_q, open, wrote, idle>>

F == INSTANCE CpuFrontend

-------------------------------------------------------------------------------
(* What a program sees.                                                      *)

InstrStates == {"S_EXECUTE", "S_ALU_WAIT", "S_BRANCH", "S_MEM_REQ", "S_MEM_RSP", "S_SYSTEM",
                "S_TRAP_EXIT"}

\* A halt request or a trigger goes before an ebreak into debug mode, and
\* resumes behind it (cause, trap_pc): such an ebreak does nothing.
Overtaken == "db_halt" \in irq_buf \/ "db_trig" \in exc_buf

\* The instruction in exec will not happen: its exception has not trapped yet.
Aborted == exc_buf \intersect SyncExc # {} \/ ("db_brkp" \in exc_buf /\ ~Overtaken)

\* The instruction in exec has not happened yet.  A CSR is written one clock
\* after its instruction has left the execute engine.
InFlight == exec.state \in InstrStates \/ ctrl.csr_we \/ Aborted

\* At this edge it does.
Happens == ctrl.csr_we \/ (InFlight /\ ~InFlight')

\* The longest the hart may take from one instruction to the next, without its buses.
MaxIdle == 13 + 2^MonitorBits

H == INSTANCE Hart WITH
       user    <- generics.u,
       pc      <- IF InFlight THEN exec.pc ELSE exec.pc2,
       prv     <- csr.prv,
       mstatus <- [mie |-> csr.mie, mpie |-> csr.mpie, mpp |-> csr.mpp],
       mepc    <- csr.mepc, mcause_irq <- csr.mcause_irq,
       debug   <- debug_run,
       dcsr    <- [step |-> csr.step, prv |-> IF generics.u THEN csr.dprv ELSE "M"],
       dpc     <- csr.dpc,
       stepped <- "db_step" \in exc_buf /\ ~InFlight

-------------------------------------------------------------------------------
(* One clock edge.                                                           *)

\* The trigger module matches an executed address or a memory access, and
\* keeps the match until debug mode.
MatchBuffer ==
  hwtrig' \in IF debug_run THEN {FALSE}
              ELSE {hwtrig} \union (IF generics.trig /\ (exec.state = "S_EXECUTE" \/ ctrl.lsu_req)
                                    THEN {TRUE} ELSE {})

\* The debugger holds its request until the hart has halted.
Debugger ==
  irq_dbg' \in {irq_dbg} \union (IF generics.halts /\ ~debug_run THEN {TRUE} ELSE {})
               \union (IF debug_run THEN {FALSE} ELSE {})

History ==
  /\ open' = CASE env_enter -> FALSE
               [] ~env_enter /\ Happens -> InterruptsOpen
               [] OTHER -> open
  /\ wrote' = /\ ~(exec.state = "S_DISPATCH" /\ exec'.state = "S_EXECUTE")
              /\ wrote \/ rf_wb_en_o \/ ctrl.csr_we
  /\ idle' = IF exec.state \in {"S_EXECUTE", "S_SLEEP"} THEN 0
              ELSE IF fetch.state = "S_PENDING" \/ exec.state = "S_MEM_RSP" THEN idle
              ELSE idle + 1

Around(if_reset) ==
  /\ F!FrontendEdge(if_reset, if_ready, exec.pc2, csr.prv, debug_run)
  /\ MatchBuffer /\ Debugger /\ History
  /\ UNCHANGED generics

Init ==
  /\ generics \in Configurations
  /\ ControlInit
  /\ F!FrontendInit
  /\ irq_dbg = FALSE /\ hwtrig = FALSE /\ open = FALSE /\ wrote = FALSE /\ idle = 0

TakeBranch ==
  \E taken \in BOOLEAN, target \in Targets :
    Branch(taken, target) /\ Around(Reset(taken))

Next ==
  \/ Restart /\ Around(TRUE)
  \/ Dispatch(F!valid, F!compressed, F!fault) /\ Around(FALSE)
  \/ TrapEnter /\ Around(FALSE)
  \/ TrapExit /\ Around(FALSE)
  \/ Execute /\ Around(FALSE)
  \/ (\E done \in BOOLEAN : AluWait(done)) /\ Around(FALSE)
  \/ TakeBranch
  \/ MemReq /\ Around(FALSE)
  \/ (\E ack, err \in BOOLEAN : MemRsp(ack, err)) /\ Around(FALSE)
  \/ System /\ Around(FALSE)
  \/ Sleep /\ Around(FALSE)

Spec == Init /\ [][Next]_vars

-------------------------------------------------------------------------------

\* What the back-end takes from the issue engine is the instruction at the
\* next PC, fetched with the hart's privilege and debug mode: neither a branch,
\* nor a trap, nor a return, nor a late answer of the bus lets anything stale
\* through (neorv32_cpu_frontend, S_DISPATCH of neorv32_cpu_control).
DispatchedIsNext ==
  Accepts(F!valid) =>
    /\ F!issued[1].from = exec.pc2
    /\ ~F!compressed => F!issued[2].from = After(exec.pc2, 1)
    /\ \A k \in DOMAIN F!issued :
         F!issued[k].priv = csr.prv /\ F!issued[k].debug = debug_run

\* An instruction that will trap has written neither a register nor a CSR,
\* however late its exception came, and if it was fetched or decoded with an
\* exception it has asked nothing of the memory (trap_buffer, rf_wb_en, csr_we,
\* lsu_req).
FaultedHasNoEffect ==
  /\ exc_buf \intersect SyncExc # {} => ~wrote /\ ~rf_wb_en_o /\ ~ctrl.csr_we
  /\ exc_buf \intersect InstrExc # {} => ~ctrl.lsu_req

\* The hart is one that takes its traps precisely (module Hart).
TrapsArePrecise == H!Spec

\* Between two instructions there are at most MaxIdle clocks in which no bus
\* is awaited: an exception, a halt request and the trap it leaves pending may
\* follow one another, but the engines never wait for each other, and a co-processor
\* that does not answer is given up (exec_comb, fetch_fsm, multi_cycle_monitor).
AlwaysGoesOn == idle <= MaxIdle

\* A trap serves an exception or an interrupt that is in the trap buffers
\* (neorv32_cpu_control.vhd:807, "local feedback to ensure requests stay active
\* until trap environment has started").
TrapsHaveASource == env_enter => exc_buf \union irq_buf # {}
================================================================================
