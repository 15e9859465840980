--------------------------------- MODULE Hart ----------------------------------
(***************************************************************************)
(* What a program sees of a hart: instructions happen one after the other   *)
(* at pc, and traps happen between them.  An exception or an interrupt      *)
(* saves the address of the first instruction that has not happened, and    *)
(* entering or leaving debug mode is invisible to the rest of the hart.     *)
(*                                                                          *)
(*   - An interrupt comes only if interrupts were enabled when the last     *)
(*     instruction began; so at least one instruction separates the start   *)
(*     of a handler or a return from it and the next interrupt.             *)
(*   - When single-stepping, debug mode follows each instruction.           *)
(***************************************************************************)
CONSTANTS Pcs, Mtvec, DebugPark, DebugExc, BootAddr

VARIABLES
  user,      \* the hart has a user mode; this never changes
  pc, prv,
  mstatus,   \* .mie .mpie .mpp
  mepc, mcause_irq,  \* the trap's address, and bit 31 of its cause
  debug,     \* in debug mode
  dcsr,      \* .step .prv
  dpc,
  open,      \* interrupts were enabled when the last instruction began
  stepped    \* it was a single step

vars == <<user, pc, prv, mstatus, mepc, mcause_irq, debug, dcsr, dpc, open, stepped>>
machine  == <<mstatus, mepc, mcause_irq>>
debugger == <<dcsr, dpc>>

Modes == IF user THEN {"U", "M"} ELSE {"M"}

Init ==
  /\ user \in BOOLEAN
  /\ pc = BootAddr /\ prv = "M" /\ ~debug
  /\ mstatus = [mie |-> FALSE, mpie |-> FALSE, mpp |-> IF user THEN "U" ELSE "M"]
  /\ mepc = 0 /\ mcause_irq = FALSE /\ dcsr.step = FALSE /\ dpc = 0
  /\ open = FALSE /\ stepped = FALSE

Enabled == (mstatus.mie \/ prv = "U") /\ ~debug /\ ~dcsr.step

\* Every instruction: not after a single step.
Instruction ==
  /\ ~stepped
  /\ open' = Enabled
  /\ stepped' = (dcsr.step /\ ~debug)

\* Instructions without effect on the state of this module but the address.
Compute == Instruction /\ pc' \in Pcs /\ UNCHANGED <<prv, debug, machine, debugger>>

WriteMachine ==
  /\ Instruction /\ prv = "M"
  /\ pc' \in Pcs
  /\ mstatus' \in [mie : BOOLEAN, mpie : BOOLEAN, mpp : Modes]
  /\ mepc' \in Pcs
  /\ UNCHANGED <<prv, mcause_irq, debug, debugger>>

WriteDebug ==
  /\ Instruction /\ debug
  /\ pc' \in Pcs
  /\ dcsr' \in [step : BOOLEAN, prv : Modes]
  /\ dpc' \in Pcs
  /\ UNCHANGED <<prv, debug, machine>>

Mret ==
  /\ Instruction /\ prv = "M" /\ ~debug
  /\ pc' = mepc
  /\ prv' = mstatus.mpp
  /\ mstatus' = [mie |-> mstatus.mpie, mpie |-> TRUE, mpp |-> IF user THEN "U" ELSE "M"]
  /\ UNCHANGED <<mepc, mcause_irq, debug, debugger>>

Dret ==
  /\ Instruction /\ debug
  /\ pc' = dpc /\ prv' = dcsr.prv /\ debug' = FALSE
  /\ UNCHANGED <<machine, debugger>>

\* After a trap no interrupt is due, and no step is.
Trap == open' = FALSE /\ stepped' = FALSE

ToMachine ==
  /\ Trap /\ ~debug
  /\ mepc' = pc /\ pc' = Mtvec
  /\ prv' = "M"
  /\ mstatus' = [mie |-> FALSE, mpie |-> mstatus.mie, mpp |-> prv]
  /\ UNCHANGED <<debug, debugger>>

Exception == ToMachine /\ ~stepped /\ mcause_irq' = FALSE
Interrupt == ToMachine /\ ~stepped /\ open /\ mcause_irq' = TRUE

Halt ==
  /\ Trap /\ ~debug
  /\ dpc' = pc /\ pc' = DebugPark
  /\ prv' = "M" /\ debug' = TRUE
  /\ dcsr' = [dcsr EXCEPT !.prv = prv]
  /\ UNCHANGED machine

\* A trap inside debug mode: back to the park loop.
DebugTrap ==
  /\ Trap /\ debug
  /\ pc' \in {DebugPark, DebugExc}
  /\ UNCHANGED <<prv, debug, machine, debugger>>

Next ==
  /\ \/ Compute \/ WriteMachine \/ WriteDebug \/ Mret \/ Dret
     \/ Exception \/ Interrupt \/ Halt \/ DebugTrap
  /\ UNCHANGED user

Spec == Init /\ [][Next]_vars
================================================================================
