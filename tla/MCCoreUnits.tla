------------------------------ MODULE MCCoreUnits ------------------------------
(***************************************************************************)
(* Two test benches in one model, chosen at the start:                    *)
(* "alu": the TMR ALU with four-bit words, and two-bit LFSRs, whose low     *)
(*   bits agree in some draws only;                                         *)
(* "cache": data caches of two blocks or of one block of two words, with    *)
(*   and without bursts, an instruction cache, and a burst of four words.   *)
(*   The host writes 1 to one word only, the last of its block, and 0 to    *)
(*   the others: a word that goes astray shows, there or here.              *)
(***************************************************************************)
EXTENDS TmrAlu, Cache

VARIABLES bench

benchVars == <<bench, tmrVars, vars>>

MCGeometry(blocks, words, bursts, read_only) ==
  [blocks |-> blocks, words |-> words, bursts |-> bursts, read_only |-> read_only]
MCGeometries ==
  {MCGeometry(2, 1, FALSE, FALSE), MCGeometry(1, 2, FALSE, FALSE), MCGeometry(1, 2, TRUE, FALSE),
   MCGeometry(1, 2, FALSE, TRUE), MCGeometry(1, 4, TRUE, FALSE)}

MCAccess(kind, t, i, o, w) == Request(kind, Address(t, i, o), w)
MCIssued(g) ==
  LET last == g.words - 1
  IN  {MCAccess("store", "s", 0, last, w) : w \in {0, 1}}
      \union {MCAccess("load", "s", 0, o, 0) : o \in {0, last}}
      \union {MCAccess("store", "t", 0, 0, 0)}
      \union IF g.words = 4 THEN {} ELSE
             {MCAccess("swap", "s", 0, last, 1), MCAccess("load", "t", 0, last, 0),
              MCAccess("store", "s", g.blocks - 1, 0, 0), MCAccess("load", "io", 0, 0, 0)}

MCMasks    == {{0, 3}, {1}}
MCOperands == {{0, 3}, {1, 2, 3}}

\* The one state of the part that rests, among its initial ones.
AluRests == ~rst_n /\ ~fault_enable /\ rs1 = {0, 3} /\ shamt = 0 /\ right
CacheRests == geo = MCGeometry(2, 1, FALSE, FALSE) /\ tags[0] = "s" /\ ~dirty[0]

BenchInit ==
  /\ TmrInit /\ Init
  /\ \/ bench = "alu" /\ CacheRests
     \/ bench = "cache" /\ AluRests

BenchNext ==
  /\ UNCHANGED bench
  /\ \/ bench = "alu" /\ TmrNext /\ UNCHANGED vars
     \/ bench = "cache" /\ Next /\ UNCHANGED tmrVars

\* The fairness of the cache (see there); nothing is asked of the ALU.
BenchSpec ==
  /\ BenchInit /\ [][BenchNext]_benchVars
  /\ WF_benchVars(bench = "cache" /\ Waiting /\ UNCHANGED <<bench, tmrVars>>)
  /\ WF_benchVars(bench = "cache" /\ Answered /\ UNCHANGED <<bench, tmrVars>>)
===============================================================================
