------------------------------ MODULE MCBusUnits ------------------------------
(***************************************************************************)
(* Three test benches in one model, chosen at the start:                    *)
(* "switch": the bus switch with its two hosts (round robin, both ports     *)
(*   read and write, as in the core complex arbiter);                       *)
(* "amo": the read-modify-write controller (words of two bits have a sign   *)
(*   and a magnitude, so that every order of two operands, signed and       *)
(*   unsigned, and every carry occurs);                                     *)
(* "dma": the DMA controller with a FIFO that takes two descriptors; three  *)
(*   are written, so that both pointers wrap.                               *)
(***************************************************************************)
EXTENDS SwitchedHosts, Dma

VARIABLES
  bench,
  arbiter, cmd, amo_rdata, wdata, alu_res, request, current, busy

amoVars == <<arbiter, cmd, amo_rdata, wdata, alu_res, request, current, busy>>
benchVars == <<bench, vars, amoVars, dmaVars>>

Amo == INSTANCE AmoOperations WITH
  WordBits <- 2, Harts <- {"a", "b"}, Cells <- {"cell"}, Holes <- {}, Externals <- {},
  rdata <- amo_rdata

MCNoReader == {}
MCLeftovers == {0}
MCPrograms == {<<0, 8, 14>>, <<3, 12, 1>>}

BenchInit ==
  /\ bench \in {"switch", "amo", "dma"}
  /\ Init /\ Amo!Init /\ DmaInit

BenchNext ==
  /\ UNCHANGED bench
  /\ \/ bench = "switch" /\ Next /\ UNCHANGED <<amoVars, dmaVars>>
     \/ bench = "amo" /\ Amo!Next /\ UNCHANGED <<vars, dmaVars>>
     \/ bench = "dma" /\ DmaNext /\ UNCHANGED <<vars, amoVars>>

\* The clock ticks, and a device does not keep an access forever (see the
\* fairness of the parts; those that rest ask for nothing).
SwitchMoves == bench = "switch" /\ UNCHANGED <<bench, amoVars, dmaVars>>
DmaMoves    == bench = "dma" /\ UNCHANGED <<bench, vars, amoVars>>
BenchSpec ==
  /\ BenchInit /\ [][BenchNext]_benchVars
  /\ WF_benchVars(SwitchMoves /\ Next)
  /\ WF_benchVars(SwitchMoves /\ Edge(TRUE))
  /\ WF_benchVars(DmaMoves /\ Quiet)
  /\ WF_benchVars(DmaMoves /\ Answered)

\* See AmoOperations.
ActsAsReference == Amo!ActsAsReference
===============================================================================
