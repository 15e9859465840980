------------------------------- MODULE SeeBoard -------------------------------
(***************************************************************************)
(* The injection board (neorv32_test_setup_on_chip_debugger): the mutant    *)
(* data memory with its trigger driven by the debounced push button BTN1,   *)
(* its enable by the logic analyser (VIO), its multi-bit input tied to zero *)
(* and its reset by BTN0.  The debouncer itself has no reset.               *)
(***************************************************************************)
EXTENDS SeuDmem

CONSTANT DebounceLimit   \* 1_250_000 clocks, about 10 ms

ASSUME DebounceAssumption == DebounceLimit \in Nat \ {0}

VARIABLES debounce_cnt, btn1_stable, fault_pulse

boardVars == <<vars, debounce_cnt, btn1_stable, fault_pulse>>

\* Mutant: a button held down fires again and again.
debouncer_Repeats(btn1) ==
  \/ /\ btn1 /\ debounce_cnt < DebounceLimit
     /\ debounce_cnt' = debounce_cnt + 1
     /\ fault_pulse' = FALSE
     /\ UNCHANGED btn1_stable
  \/ /\ btn1 /\ debounce_cnt = DebounceLimit
     /\ fault_pulse' = TRUE
     /\ UNCHANGED <<debounce_cnt, btn1_stable>>
  \/ /\ ~btn1
     /\ debounce_cnt' = 0
     /\ fault_pulse' = FALSE
     /\ UNCHANGED btn1_stable

\* Mutant: the counter is not bounded.
debouncer_Unbounded(btn1) ==
  \/ /\ btn1
     /\ debounce_cnt' = debounce_cnt + 1
     /\ fault_pulse' = (debounce_cnt = DebounceLimit)
     /\ btn1_stable' = (debounce_cnt >= DebounceLimit)
  \/ /\ ~btn1
     /\ debounce_cnt' = 0
     /\ btn1_stable' = FALSE
     /\ fault_pulse' = FALSE

\* One pulse per press, once the button has been down for DebounceLimit clocks.
debouncer(btn1) ==
  \/ /\ btn1 /\ debounce_cnt < DebounceLimit
     /\ debounce_cnt' = debounce_cnt + 1
     /\ fault_pulse' = FALSE
     /\ UNCHANGED btn1_stable
  \/ /\ btn1 /\ debounce_cnt = DebounceLimit
     /\ fault_pulse' = ~btn1_stable
     /\ btn1_stable' = TRUE
     /\ UNCHANGED debounce_cnt
  \/ /\ ~btn1
     /\ debounce_cnt' = 0
     /\ btn1_stable' = FALSE
     /\ fault_pulse' = FALSE

BoardInit ==
  /\ Init
  /\ debounce_cnt = 0 /\ btn1_stable = FALSE /\ fault_pulse = FALSE

\* vio_fault_enable gates the pulse inside the memory; fault_MBU is tied to '0'.
BoardFault(vio_fault_enable) ==
  IF fault_pulse /\ vio_fault_enable THEN SbuFault ELSE NoFault

BoardNext ==
  \E btn0, btn1, vio_fault_enable \in BOOLEAN, early \in Orders :
    /\ Edge(early, BoardFault(vio_fault_enable), ~btn0)
    /\ Drive(~btn0)
    /\ debouncer(btn1)

BoardSpec == BoardInit /\ [][BoardNext]_boardVars /\ WF_boardVars(BoardNext)

-------------------------------------------------------------------------------
BoardTypeOK ==
  /\ TypeOK
  /\ debounce_cnt \in 0 .. DebounceLimit
  /\ btn1_stable \in BOOLEAN /\ fault_pulse \in BOOLEAN

\* A press is never swallowed: the memory's injection FSM ignores a trigger while
\* it is busy, and no bouncing of the button makes a pulse meet a busy FSM.
PulseFindsIdle == fault_pulse => seu_state = "IDLE"

\* Address and bit of an upset are cut from the same low bits of the LFSR, so a
\* given word is only ever upset in the bits whose index agrees with its address.
SharedBits == IF IndexBits < AddrBits THEN IndexBits ELSE AddrBits

BitFollowsAddress ==
  seu_state # "IDLE" =>
    \E i \in 0 .. WordBits - 1 :
      /\ bit_reg = {i}
      /\ Low(Unsigned(i, IndexBits), SharedBits) = Low(addr_reg, SharedBits)

===============================================================================
