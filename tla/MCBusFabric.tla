------------------------------ MODULE MCBusFabric -------------------------------
(***************************************************************************)
(* One-bit words, one address of each kind, timeouts of two clocks, with    *)
(* and without an external bus.  The clock is a variable here, so that an   *)
(* edge at which no register changes is a step too and its fairness         *)
(* (FairSpec) can be stated on it alone.                                    *)
(***************************************************************************)
EXTENDS BusFabric

VARIABLE clk

MCHarts     == {"a", "b"}
MCCells     == {"cell"}
MCHoles     == {"hole"}
MCExternals == {"ext"}

\* Without an external bus, everything inside; an access outside finds nobody.
MCInside == [x_en |-> FALSE, issued |->
  {Load("cell"), Store("cell", 0), Store("cell", 1), LoadRes("cell"), StoreCond("cell", 1),
   Modify(ADD, "cell", 1),
   Load("hole"), StoreCond("hole", 1), Modify(ADD, "hole", 1),
   Load("ext")}]

\* With an external bus: accesses inside, outside and to nothing.
MCOutside == [x_en |-> TRUE, issued |->
  {Load("cell"), Store("cell", 1), Load("ext"), Modify(ADD, "ext", 1), Load("hole")}]

MCSetups     == {MCInside, MCOutside}
MCOnlyOutside == {MCOutside}

\* The clock is seen only where liveness is asked: without an external bus.
Clocked == ~setup.x_en

ClockedInit == Init /\ clk = FALSE
ClockedNext == Next /\ clk' = (Clocked /\ ~clk)

ClockedSpec ==
  ClockedInit /\ [][ClockedNext]_<<vars, clk>> /\ WF_clk(Clocked /\ clk' = ~clk)
===============================================================================
