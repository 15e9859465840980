----------------------------- MODULE MCSeeMemory ------------------------------
(***************************************************************************)
(* Three test benches in one model, chosen at the start: the mutant memory  *)
(* with triggers at any time ("memory"), the same behind the board's button *)
(* ("board"; its master asks for whole words), and the RAM saboteur         *)
(* ("saboteur").  A part that the bench does not drive keeps its initial    *)
(* state.                                                                   *)
(*                                                                          *)
(* The memory: two words of two one-bit lanes, a three-bit LFSR.  The       *)
(* saboteur: a two-bit address of which three words exist, so that "mod     *)
(* MEMORY_DEPTH" folds, words of two bits, a five-bit LFSR.                 *)
(***************************************************************************)
EXTENDS SeeBoard, SeuSaboteur

VARIABLE bench

benchVars == <<bench, boardVars, sabVars>>

MCLanes == {{0}, {1}}
MCSeed  == {0}
MCWords == {{}, {0, 1}}
MCMasks == {{0, 1}}
MCLfsrSeed == {0, 2}

BenchInit ==
  /\ bench \in {"memory", "board", "saboteur"}
  /\ BoardInit /\ (bench = "saboteur" => spram = [a \in Addresses |-> {}])
  /\ SaboteurInit /\ (bench # "saboteur" => ram = [a \in Rows |-> {}])

BenchNext ==
  /\ UNCHANGED bench
  /\ \/ bench = "memory"   /\ Next /\ UNCHANGED <<debounce_cnt, btn1_stable, fault_pulse, sabVars>>
     \/ bench = "board"    /\ BoardNext /\ bus_req'.ben \in {{}, Lanes} /\ UNCHANGED sabVars
     \/ bench = "saboteur" /\ SaboteurNext /\ UNCHANGED boardVars

BenchSpec == BenchInit /\ [][BenchNext]_benchVars
===============================================================================
