------------------------------- MODULE BusFabric -------------------------------
(***************************************************************************)
(* The bus of a dual-core processor without caches and DMA, as wired in     *)
(* neorv32_top: the load/store units of two harts, the core complex         *)
(* arbiter, the two controllers of atomic operations, the gateway with the  *)
(* bus monitor, and behind it the internal data memory, a hole of the IO    *)
(* space and the external bus.                                              *)
(*                                                                          *)
(* One step is one rising clock edge: the combinational paths of the clock  *)
(* are the operators of section "Wires", the registers follow in Edge.      *)
(***************************************************************************)
EXTENDS Bus

CONSTANTS
  TmoInt, TmoExt,  \* generics of the gateway
  Setups           \* values of `setup'

\* A timeout of one clock would strike between the read and the write of an
\* atomic operation: the write takes effect and is answered with an error.
\* (int_bus_tmo_c is 16.)
ASSUME GatewayAssumption == TmoInt \in Nat \ {1} /\ TmoExt \in Nat

VARIABLES
  setup,                                       \* .x_en: there is an external bus; .issued: what
                                               \* the programs access; this never changes
  cpu,                                         \* load/store units
  arb_state, arb_sel_q, arb_lock, arb_pending, \* core complex arbiter
  rmw, cmd, rdata, wdata, alu_res,             \* read-modify-write controller
  valid, sc_fail, sc_pend,                     \* reservation station
  keeper, keeper_lock, keeper_ext, keeper_cnt, \* bus monitor
  mem, mem_q, wren, rden,                      \* data memory
  xbus_pending, xbus_locked,                   \* external bus gate
  got                                          \* what a hart received at the last edge

arbVars == <<arb_state, arb_sel_q, arb_lock, arb_pending>>
vars == <<setup, cpu, arbVars, rmw, cmd, rdata, wdata, alu_res, valid, sc_fail, sc_pend,
          keeper, keeper_lock, keeper_ext, keeper_cnt, mem, mem_q, wren, rden,
          xbus_pending, xbus_locked, got>>

Arb  == INSTANCE BusSwitch WITH RoundRobin <- TRUE, ReadOnly <- {},
          state <- arb_state, sel_q <- arb_sel_q, lock <- arb_lock, pending <- arb_pending
Rmw  == INSTANCE BusAmoRmw WITH arbiter <- rmw
Rvs  == INSTANCE BusAmoRvs
Gate == INSTANCE BusGateway WITH x_en <- setup.x_en
XGate == INSTANCE Xbus WITH pending <- xbus_pending, locked <- xbus_locked

-------------------------------------------------------------------------------
(* The load/store unit.                                                      *)

\* The requests of a program: loads, stores, and atomics.
Access(rw, amo, amoop, addr, data) ==
  [rw |-> rw, amo |-> amo, amoop |-> amoop, addr |-> addr, data |-> data]

Load(a)        == Access(FALSE, FALSE, SWAP, a, 0)
Store(a, d)    == Access(TRUE, FALSE, SWAP, a, d)
LoadRes(a)     == Access(FALSE, TRUE, LR, a, 0)
StoreCond(a, d) == Access(TRUE, TRUE, SC, a, d)
Modify(c, a, d) == Access(FALSE, TRUE, c, a, d)

Accesses ==
  {Load(a) : a \in Addresses} \union {Store(a, d) : a \in Addresses, d \in Word}
  \union {LoadRes(a) : a \in Addresses} \union {StoreCond(a, d) : a \in Addresses, d \in Word}
  \union {Modify(c, a, d) : c \in RmwCodes, a \in Addresses, d \in Word}

ASSUME SetupAssumption == Setups \subseteq [x_en : BOOLEAN, issued : SUBSET Accesses]

NoAccess == Access(FALSE, FALSE, SWAP, CHOOSE a \in Addresses : TRUE, 0)

\* Only a read-modify-write asks for the lock.
Locks(access) == access.amo /\ access.amoop \in RmwCodes

\* "run": no request on the bus; "strobe": first clock of S_MEM_RSP; "wait":
\* the rest of it; "fault": a read-modify-write was misaligned or refused by the
\* PMP: no strobe, but the lock is up until the trap.  (Another faulty access
\* shows the bus nothing, and is part of "run".)
Phases == {"run", "strobe", "wait", "fault"}

Units == [phase : Phases, access : setup.issued \union {NoAccess}, lock : BOOLEAN]

Running == [phase |-> "run", access |-> NoAccess, lock |-> FALSE]

Issue(access) == [phase |-> "strobe", access |-> access, lock |-> Locks(access)]
Faulty        == [phase |-> "fault", access |-> NoAccess, lock |-> TRUE]

Done(u) == Running

\* What a load/store unit can do at an edge, given its response.
UnitSteps(u, rsp) ==
  CASE u.phase = "run" ->
         {u, Faulty} \union {Issue(access) : access \in setup.issued}
    [] u.phase = "fault" -> {[u EXCEPT !.lock = @ /\ ~rsp.ack], Running}
    [] OTHER -> {IF rsp.ack THEN Done(u) ELSE [u EXCEPT !.phase = "wait"]}

-------------------------------------------------------------------------------
(* Wires: the requests down to the sections and the responses back up.      *)

core_req == [h \in Harts |->
  [stb |-> cpu[h].phase = "strobe", lock |-> cpu[h].lock, meta |-> h,
   rw |-> cpu[h].access.rw, amo |-> cpu[h].access.amo, amoop |-> cpu[h].access.amoop,
   addr |-> cpu[h].access.addr, data |-> cpu[h].access.data]]

sys1_req == Arb!x_req(core_req)
amo_req  == Rmw!sys_req(sys1_req)
sys3_req == Rvs!bus_request(amo_req)
dmem_req == Gate!port_req("dmem", sys3_req)
xbus_req == Gate!port_req("xbus", sys3_req)

dmem_rsp      == [ack |-> rden \/ wren, err |-> FALSE, data |-> IF rden THEN mem_q ELSE 0]
int_rsp(ext)  == Gate!int_rsp(dmem_rsp, XGate!xbus_rsp(ext))
sys3_rsp(ext) == Gate!gateway_rsp(int_rsp(ext))
amo_rsp(ext)  == Rvs!rvs_rsp(sys3_rsp(ext))
sys1_rsp(ext) == Rmw!core_rsp(amo_rsp(ext))
core_rsp(ext) == [h \in Harts |-> Arb!rsp_o(h, sys1_rsp(ext))]

-------------------------------------------------------------------------------
(* The data memory: a RAM with one registered port and its handshake.       *)

dmem ==
  /\ mem'   = IF dmem_req.stb /\ dmem_req.rw
                THEN [mem EXCEPT ![dmem_req.addr] = dmem_req.data] ELSE mem
  /\ mem_q' = IF dmem_req.stb THEN mem[dmem_req.addr] ELSE mem_q
  /\ wren'  = (dmem_req.stb /\ dmem_req.rw)
  /\ rden'  = (dmem_req.stb /\ ~dmem_req.rw)

\* What the external device can drive, whether or not it was asked; without an
\* external bus its response is tied off.
Answers ==
  {rsp_terminate_c}
  \union (IF setup.x_en THEN [ack : {TRUE}, err : BOOLEAN, data : Word] ELSE {})

\* One clock edge of the whole fabric.
Edge(ext) ==
  /\ LET rsp == core_rsp(ext)
     IN  /\ \E s \in UnitSteps(cpu["a"], rsp["a"]), t \in UnitSteps(cpu["b"], rsp["b"]) :
              cpu' = [h \in Harts |-> IF h = "a" THEN s ELSE t]
         /\ got' = [h \in Harts |->
              IF cpu[h].phase \in {"strobe", "wait"} /\ rsp[h].ack THEN rsp[h]
                                                                ELSE rsp_terminate_c]
  /\ Arb!arbiter_sync(core_req, sys1_rsp(ext))
  /\ Rmw!arbiter_comb(sys1_req, amo_rsp(ext))
  /\ Rvs!rvs_control(amo_req)
  /\ Rvs!sc_result(amo_req, sys3_rsp(ext))
  /\ Gate!bus_monitor(sys3_req, int_rsp(ext))
  /\ XGate!xbus_arbiter(xbus_req, Gate!keeper_err, ext)
  /\ dmem
  /\ UNCHANGED setup

\* Every memory content is a start: a reset clears the registers, not the RAM.
Init ==
  /\ setup \in Setups
  /\ cpu = [h \in Harts |-> Running] /\ got = [h \in Harts |-> rsp_terminate_c]
  /\ Arb!SwitchInit /\ Rmw!RmwInit /\ Rvs!RvsInit /\ Gate!GatewayInit /\ XGate!XbusInit
  /\ mem \in [Cells -> Word]
  /\ mem_q = 0 /\ wren = FALSE /\ rden = FALSE

Next == \E ext \in Answers : Edge(ext)

Spec == Init /\ [][Next]_vars

\* The clock ticks.
FairSpec == Spec /\ WF_vars(Next)

-------------------------------------------------------------------------------
(* What the fabric promises.                                                 *)

\* The hart the arbiter serves, past its request.
Served(h) == arb_state = h /\ cpu[h].phase = "wait"

\* The access of a hart has taken effect: it is granted, and a
\* read-modify-write of the memory is past its write.
TookEffect(h) ==
  Served(h) /\ (cpu[h].access.addr \in Cells => rmw \in {"S_IDLE", "S_WRITE_WAIT"})

Progress(h) ==
  LET a == cpu[h].access
  IN  IF TookEffect(h)
        THEN IF a.addr \in Cells \/ sc_fail
          THEN [status |-> "performed", access |-> a, result |-> core_rsp(rsp_terminate_c)[h]]
          ELSE [status |-> "open", access |-> a]
      ELSE IF cpu[h].phase \in {"strobe", "wait"} THEN [status |-> "asked", access |-> a]
      ELSE [status |-> "free"]

Atomic == INSTANCE AtomicMemory WITH
  reserved <- valid, op <- [h \in Harts |-> Progress(h)],
  dead <- Holes \union (IF setup.x_en THEN {} ELSE Externals)

\* Loads, stores, store-conditionals and read-modify-writes of the two harts are
\* atomic, their results are those of the textbook operations, and an access
\* that nothing answers ends with a bus error (neorv32_bus_switch,
\* neorv32_bus_amo_rmw, neorv32_bus_amo_rvs and neorv32_bus_gateway together).
AccessesAreAtomic == Atomic!Spec

\* "ALL accesses are completed within a bound time window" (neorv32_bus_gateway):
\* the monitor watches every access of the hart being served, unless it is a
\* store-conditional refused above the gateway.
EveryAccessIsWatched == \A h \in Harts : Served(h) => sc_fail \/ keeper # "idle"

\* The same where no external device can answer in the clock of the timeout.
WatchedInside == ~setup.x_en => EveryAccessIsWatched

\* Every access of a hart is answered, with data or with an error: no hart waits
\* forever for the bus or behind the other hart (where no external device can
\* make the monitor miss an access).
EveryAccessEnds == ~setup.x_en => \A h \in Harts : cpu[h].phase = "wait" ~> cpu[h].phase # "wait"
================================================================================
