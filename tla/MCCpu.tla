--------------------------------- MODULE MCCpu ---------------------------------
(***************************************************************************)
(* Eight half-words of address space and six configurations, each with the  *)
(* instructions and the surroundings that make one aspect interesting: all  *)
(* of them together would only multiply states that do not interact.        *)
(***************************************************************************)
EXTENDS CpuCore, TLC

MCTargets == {0, 3, 4}

Off == [c |-> FALSE, u |-> FALSE, sdext |-> FALSE, const_br |-> FALSE,
        late |-> FALSE, faults |-> FALSE, trig |-> FALSE, halts |-> FALSE,
        irqs |-> {}, held |-> FALSE]

\* Compressed instructions, branches and fetch errors.
Stream == [Off EXCEPT !.c = TRUE, !.late = TRUE, !.faults = TRUE]
            @@ [kinds |-> {"alu", "branch", "jump", "fence"}, bad |-> {"branch"}]

\* Every way to the memory, the co-processors and the trap handler.
Faults == [Off EXCEPT !.const_br = TRUE, !.late = TRUE, !.faults = TRUE]
            @@ [kinds |-> {"multi", "load", "store", "jump", "ebreak", "csr_mepc"},
                bad |-> {"store", "csr_mepc"}]

\* Interrupts, sleep and both privilege modes.
Interrupts == [Off EXCEPT !.u = TRUE, !.irqs = {"mti"}]
                @@ [kinds |-> {"alu", "ecall", "mret", "wfi", "csr_mstatus", "csr_mie"}, bad |-> {}]

\* Halt requests, breakpoints and single steps.
Debugging == [Off EXCEPT !.sdext = TRUE, !.halts = TRUE]
               @@ [kinds |-> {"alu", "ebreak", "dret", "wfi", "csr_dcsr", "csr_dpc"},
                   bad |-> {"csr_dcsr"}]

\* Halt requests among interrupts that stay until they are served.
Mixed == [Off EXCEPT !.sdext = TRUE, !.halts = TRUE, !.irqs = {"mei"}, !.held = TRUE]
           @@ [kinds |-> {"dret", "csr_mstatus", "csr_mie"}, bad |-> {}]

\* The trigger module.
Triggers == [Off EXCEPT !.late = TRUE, !.sdext = TRUE, !.trig = TRUE]
              @@ [kinds |-> {"store", "ebreak", "dret", "csr_dcsr"}, bad |-> {}]

\* A co-processor that never answers, in compressed code, and a debugger that cannot wait for it.
\* This one reaches MaxIdle; it has half as many states as the others together, and is not one of
\* MCConfigurations.
Waiting == [Off EXCEPT !.c = TRUE, !.sdext = TRUE, !.halts = TRUE]
             @@ [kinds |-> {"multi"}, bad |-> {}]

MCConfigurations == {Stream, Faults, Interrupts, Debugging, Mixed, Triggers}

\* One interrupt line, which stays high, and a program that masks it.
MCOneLine == {[Interrupts EXCEPT !.irqs = {"mei"}, !.held = TRUE]}
================================================================================
