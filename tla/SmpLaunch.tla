-------------------------------- MODULE SmpLaunch --------------------------------
(***************************************************************************)
(* Core 0 starts core 1 (neorv32_smp.c): it leaves a stack and an entry     *)
(* point in the two halves of MTIMECMP[1], raises the software interrupt of *)
(* core 1 and waits until core 1 has cleared it (crt0.S).  It does so twice *)
(* for each launch: first for the start-up code of the program, since core  *)
(* 1 may still be in the one of the boot ROM, then for the function.        *)
(* One step is one access of one core to the CLINT, or a jump of core 1.    *)
(* The wait is a count of polls that has nothing to do with how fast core 1 *)
(* is, so it may end at any time, and a launch that failed may be repeated. *)
(***************************************************************************)
EXTENDS Naturals

CONSTANTS Mains, Stacks, MaxLaunches

Crt0 == "__crt0_entry"

\* A function is not the start-up code.
ASSUME LaunchAssumption == Crt0 \notin Mains

VARIABLES
  launch_mtimecmp,   \* MTIMECMP[1]: the stack in lo, the entry point in hi
  mswi,              \* MSWI[1]
  pc0,               \* the next access of core 0
  request,           \* which of the two boot requests
  asked,             \* the arguments of the launch
  launch_rc,         \* what the last launch returned; 1 before the first and during one
  launches,
  pc1,               \* where core 1 is
  code,              \* whose start-up code core 1 has come through
  x2, x12            \* its stack pointer and the entry point it has read

core0 == <<pc0, request, asked, launch_rc, launches>>
core1 == <<pc1, code, x2, x12>>
launchVars == <<launch_mtimecmp, mswi, core0, core1>>

Nothing == "none"

LaunchInit ==
  /\ launch_mtimecmp = [lo |-> Nothing, hi |-> Nothing] /\ mswi = FALSE
  /\ pc0 = "idle" /\ request = 1 /\ asked = [entry |-> Nothing, stack |-> Nothing]
  /\ launch_rc = 1 /\ launches = 0
  /\ pc1 = "crt0" /\ code = "rom" /\ x2 = Nothing /\ x12 = Nothing

-------------------------------------------------------------------------------
(* Core 0                                                                   *)

neorv32_smp_launch ==
  /\ pc0 = "idle" /\ launches < MaxLaunches
  /\ \E entry \in Mains, stack \in Stacks : asked' = [entry |-> entry, stack |-> stack]
  /\ pc0' = "lo" /\ request' = 1 /\ launch_rc' = 1 /\ launches' = launches + 1
  /\ UNCHANGED <<launch_mtimecmp, mswi, core1>>

SetStack ==
  /\ pc0 = "lo" /\ pc0' = "hi"
  /\ launch_mtimecmp' = [launch_mtimecmp EXCEPT !.lo = asked.stack]
  /\ UNCHANGED <<mswi, request, asked, launch_rc, launches, core1>>

SetEntry ==
  /\ pc0 = "hi" /\ pc0' = "msi"
  /\ launch_mtimecmp' = [launch_mtimecmp EXCEPT !.hi = IF request = 1 THEN Crt0 ELSE asked.entry]
  /\ UNCHANGED <<mswi, request, asked, launch_rc, launches, core1>>

neorv32_clint_msi_set ==
  /\ pc0 = "msi" /\ pc0' = "poll"
  /\ mswi' = TRUE
  /\ UNCHANGED <<launch_mtimecmp, request, asked, launch_rc, launches, core1>>

Acknowledged ==
  /\ pc0 = "poll" /\ ~mswi
  /\ IF request = 1 THEN pc0' = "lo" /\ request' = 2 /\ UNCHANGED launch_rc
                    ELSE pc0' = "idle" /\ launch_rc' = 0 /\ UNCHANGED request
  /\ UNCHANGED <<launch_mtimecmp, mswi, asked, launches, core1>>

TimedOut ==
  /\ pc0 = "poll" /\ mswi
  /\ pc0' = "idle" /\ launch_rc' = 2      \* -2
  /\ UNCHANGED <<launch_mtimecmp, mswi, request, asked, launches, core1>>

-------------------------------------------------------------------------------
(* Core 1.  Its interrupts are closed everywhere but in the sleep loop.     *)

smp_setup ==
  /\ pc1 = "crt0" /\ pc1' = "asleep"
  /\ UNCHANGED <<launch_mtimecmp, mswi, core0, code, x2, x12>>

smp_wakeup ==
  /\ pc1 = "asleep" /\ mswi
  /\ pc1' = "stack"
  /\ UNCHANGED <<launch_mtimecmp, mswi, core0, code, x2, x12>>

\* Mutant: the request is acknowledged before it has been read.
LoadStack_Acknowledges ==
  /\ pc1 = "stack" /\ pc1' = "entry"
  /\ x2' = launch_mtimecmp.lo /\ mswi' = FALSE
  /\ UNCHANGED <<launch_mtimecmp, core0, code, x12>>

LoadStack ==
  /\ pc1 = "stack" /\ pc1' = "entry"
  /\ x2' = launch_mtimecmp.lo
  /\ UNCHANGED <<launch_mtimecmp, mswi, core0, code, x12>>

LoadEntry ==
  /\ pc1 = "entry" /\ pc1' = "clear"
  /\ x12' = launch_mtimecmp.hi
  /\ UNCHANGED <<launch_mtimecmp, mswi, core0, code, x2>>

ClearMswi ==
  /\ pc1 = "clear" /\ pc1' = "main_entry"
  /\ mswi' = FALSE
  /\ UNCHANGED <<launch_mtimecmp, core0, code, x2, x12>>

main_entry ==
  /\ pc1 = "main_entry"
  /\ IF x12 = Crt0 THEN pc1' = "crt0" /\ code' = "elf" ELSE pc1' = "main" /\ UNCHANGED code
  /\ UNCHANGED <<launch_mtimecmp, mswi, core0, x2, x12>>

main_exit ==
  /\ pc1 = "main" /\ pc1' = "halt"
  /\ UNCHANGED <<launch_mtimecmp, mswi, core0, code, x2, x12>>

LaunchNext ==
  \/ neorv32_smp_launch \/ SetStack \/ SetEntry \/ neorv32_clint_msi_set \/ Acknowledged \/ TimedOut
  \/ smp_setup \/ smp_wakeup \/ LoadStack \/ LoadEntry \/ ClearMswi \/ main_entry \/ main_exit

LaunchSpec == LaunchInit /\ [][LaunchNext]_launchVars

-------------------------------------------------------------------------------
\* When neorv32_smp_launch returns 0, core 1 is on its way into, in, or through the function
\* it was asked for, on the stack it was asked for; and whatever launches timed out before,
\* core 1 comes to a function only through the start-up code of the program.
LaunchedAsAsked ==
  /\ launch_rc = 0 => /\ pc1 \in {"main_entry", "main", "halt"}
              /\ x12 = asked.entry /\ x2 = asked.stack
  /\ pc1 \in {"main", "halt"} => code = "elf"
================================================================================
