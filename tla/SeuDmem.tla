------------------------------- MODULE SeuDmem --------------------------------
(***************************************************************************)
(* The "mutant" data memory: neorv32_dmem (bus handshake), its RAM wrapper  *)
(* neorv32_dmem_ram (target selection) and the dual-port RAM primitive      *)
(* neorv32_prim_spram (port A for the CPU, port B for the upset FSM).       *)
(*                                                                          *)
(* One step is one rising clock edge.  The byte-wide RAM instances share    *)
(* every control input, so one FSM and one address register stand for       *)
(* theirs; words are whole, and a byte lane is a part of a word.            *)
(***************************************************************************)
EXTENDS BitVectors

CONSTANTS
  AddrBits,    \* AWIDTH-2: width of a word address
  WordBits,    \* bits of a word (32), a power of two
  Lanes,       \* the byte lanes, as the sets of bits they hold
  IndexBits,   \* bits that index a bit of a word (5)
  OutReg,      \* OUTREG: 1 adds an output register to the read path
  RandBits,    \* width of the LFSR (32)
  Taps,        \* tapped positions of the LFSR: {31, 21, 1, 0}
  Seed,        \* its reset value A5C3F19B
  StoreWords,  \* the words the CPU stores, and the power-up contents
  Masks        \* the masks a user applies for multi-bit upsets

ASSUME ConstantsAssumption ==
  /\ AddrBits \in Nat /\ IndexBits \in Nat
  /\ WordBits \in Nat \ {0} /\ WordBits = 2^IndexBits
  /\ \A v \in Vectors(IndexBits) :    \* every vector is a number's
       \E n \in 0 .. 2^IndexBits - 1 : Unsigned(n, IndexBits) = v
  /\ UNION Lanes = 0 .. WordBits - 1
  /\ \A l, k \in Lanes : l # k => l \intersect k = {}
  /\ OutReg \in {0, 1}
  /\ RandBits \in Nat \ {0} /\ AddrBits <= RandBits /\ IndexBits <= RandBits
  /\ Taps \subseteq 0 .. RandBits - 1 /\ 0 \in Taps
  /\ Seed \in Vectors(RandBits) \ {{}}
  /\ StoreWords \subseteq Vectors(WordBits) /\ Masks \subseteq Vectors(WordBits)

Words     == Vectors(WordBits)
Addresses == Vectors(AddrBits)

VARIABLES
  bus_req,       \* what the bus master drives in this cycle
  spram,         \* the shared RAM
  rdata,         \* read register of port A
  data_o,        \* output register (only clocked when OutReg = 1)
  seu_state,     \* FSM of port B
  clean_reg, addr_reg, bit_reg,
  clean_data, faulted_data,   \* readback ports
  randvect,      \* LFSR of the wrapper
  wren, rden     \* handshake: write strobe, and the set bits of rden(1 downto 0)

portVars == <<seu_state, clean_reg, addr_reg, bit_reg, clean_data, faulted_data>>
vars == <<bus_req, spram, rdata, data_o, portVars, randvect, wren, rden>>

\* What a bus master can drive in one cycle: nothing, a load or a store.
NoRequest == [stb |-> FALSE, rw |-> FALSE, addr |-> {}, ben |-> {}, data |-> {}]

Loads  == [stb : {TRUE}, rw : {FALSE}, addr : Addresses,
           ben : (SUBSET Lanes) \ {{}}, data : {{}}]
Stores == [stb : {TRUE}, rw : {TRUE}, addr : Addresses,
           ben : (SUBSET Lanes) \ {{}}, data : StoreWords]

Requests == {NoRequest} \union Loads \union Stores

\* What the injection ports can ask: nothing, a single- or a multi-bit upset
\* (trigger stands for fault_enable and fault_trigger).
NoFault  == [trigger |-> FALSE, mbu |-> FALSE, mask |-> {}]
SbuFault == [trigger |-> TRUE, mbu |-> FALSE, mask |-> {}]
Faults   == {NoFault, SbuFault} \union [trigger : {TRUE}, mbu : {TRUE}, mask : Masks]

-------------------------------------------------------------------------------
(* The wrapper: where an upset goes and which bits it flips.                 *)

\* Mutant: the last tap is forgotten.
fibo_lfsr_NoTap0(s) == ShiftInTop(s, RandBits, Parity(s, Taps \ {0}))

fibo_lfsr(s) == ShiftInTop(s, RandBits, Parity(s, Taps))

atbit_comb      == ToInteger(Low(randvect, IndexBits), IndexBits)
fault_word_addr == Low(randvect, AddrBits)

\* The one-hot mask of a single-bit upset, or the user's mask of a multi-bit one.
faulted_bit(fault) == IF fault.mbu THEN fault.mask ELSE {atbit_comb}

\* rst_n is synchronous and resets the LFSR only.
seq_proc(fault, rst_n) ==
  randvect' = IF ~rst_n THEN Seed
              ELSE IF fault.trigger THEN fibo_lfsr(randvect) ELSE randvect

-------------------------------------------------------------------------------
(* The RAM.  Both ports are clocked processes on one shared variable: VHDL   *)
(* leaves the order of the two at an edge open, independently in each lane.  *)
(* `early' is the set of the lanes in which port A runs before port B.       *)

Store(ram, lanes) ==
  IF bus_req.stb /\ bus_req.rw
    THEN [ram EXCEPT ![bus_req.addr] =
                       Overlay(@, bus_req.data, UNION (bus_req.ben \intersect lanes))]
    ELSE ram

\* Mutant: the write-back uses the wrapper's address of the moment.
WriteBack_LiveAddress(ram) ==
  IF seu_state = "SEU_WRITE"
    THEN [ram EXCEPT ![fault_word_addr] = Xor(clean_reg, bit_reg)]
    ELSE ram

WriteBack(ram) ==
  IF seu_state = "SEU_WRITE"
    THEN [ram EXCEPT ![addr_reg] = Xor(clean_reg, bit_reg)]
    ELSE ram

SeenByPortB(early) == Store(spram, early)

\* An enabled port A reads the cell after its own store of the same edge.
port_a(early) ==
  LET first == SeenByPortB(early)
      last  == Store(WriteBack(first), Lanes \ early)
      seen  == Overlay(last[bus_req.addr], first[bus_req.addr], UNION early)
  IN  /\ spram' = last
      /\ rdata' = IF bus_req.stb THEN Overlay(rdata, seen, UNION bus_req.ben) ELSE rdata

port_b(early, fault) ==
  /\ clean_data'   = IF seu_state = "SEU_WRITE" THEN clean_reg ELSE {}
  /\ faulted_data' = IF seu_state = "SEU_WRITE" THEN Xor(clean_reg, bit_reg) ELSE {}
  /\ \/ /\ seu_state = "IDLE" /\ ~fault.trigger
        /\ UNCHANGED <<seu_state, clean_reg, addr_reg, bit_reg>>
     \/ /\ seu_state = "IDLE" /\ fault.trigger
        /\ seu_state' = "SEU_READ"
        /\ addr_reg' = fault_word_addr
        /\ bit_reg' = faulted_bit(fault)
        /\ UNCHANGED clean_reg
     \/ /\ seu_state = "SEU_READ"
        /\ seu_state' = "SEU_WRITE"
        /\ clean_reg' = SeenByPortB(early)[addr_reg]
        /\ UNCHANGED <<addr_reg, bit_reg>>
     \/ /\ seu_state = "SEU_WRITE"
        /\ seu_state' = "IDLE"
        /\ UNCHANGED <<clean_reg, addr_reg, bit_reg>>

read_outreg == data_o' = IF OutReg = 1 THEN rdata ELSE data_o

-------------------------------------------------------------------------------
(* The bus side of neorv32_dmem.                                             *)

\* rstn_i is an asynchronous reset: while it is low an edge finds the strobes clear.
bus_handshake(rstn_i) ==
  /\ wren' = (rstn_i /\ bus_req.stb /\ bus_req.rw)
  /\ rden' = IF ~rstn_i THEN {}
             ELSE {i + 1 : i \in rden \ {1}}
                    \union (IF bus_req.stb /\ ~bus_req.rw THEN {0} ELSE {})

ack == wren \/ OutReg \in rden

\* bus_rsp_o.data: zero unless a read answers.
rsp_data == IF OutReg \notin rden THEN {} ELSE IF OutReg = 1 THEN data_o ELSE rdata

\* The core's bus masters keep one access in flight: no strobe before the
\* acknowledge of the previous one has been seen.
MasterIsFree == ~wren /\ rden \intersect (0 .. OutReg) = {}

-------------------------------------------------------------------------------
Init ==
  /\ bus_req = NoRequest
  /\ spram \in [Addresses -> StoreWords]
  /\ rdata = {} /\ data_o = {}
  /\ seu_state = "IDLE" /\ clean_reg = {} /\ addr_reg = {} /\ bit_reg = {}
  /\ clean_data = {} /\ faulted_data = {}
  /\ randvect = Seed
  /\ wren = FALSE /\ rden = {}

\* One rising edge: every clocked process of the three entities at once.
\* rst_n and rstn_i are the same reset.
Edge(early, fault, rst_n) ==
  /\ port_a(early)
  /\ port_b(early, fault)
  /\ read_outreg
  /\ seq_proc(fault, rst_n)
  /\ bus_handshake(rst_n)

\* What the bus drives after the edge; a master in reset drives no strobe.
Drive(rst_n) ==
  IF rst_n /\ MasterIsFree' THEN bus_req' \in Requests ELSE bus_req' = NoRequest

\* The order of the ports matters only when both touch one word.
Collision == bus_req.stb /\ seu_state # "IDLE" /\ bus_req.addr = addr_reg

Orders == IF Collision THEN SUBSET bus_req.ben ELSE {{}}

Next ==
  \E fault \in Faults, rst_n \in BOOLEAN, early \in Orders :
    Edge(early, fault, rst_n) /\ Drive(rst_n)

Spec == Init /\ [][Next]_vars /\ WF_vars(Next)

-------------------------------------------------------------------------------
\* Types: every register holds a vector of its width.
TypeOK ==
  /\ bus_req \in Requests
  /\ spram \in [Addresses -> Words]
  /\ rdata \in Words /\ data_o \in Words
  /\ seu_state \in {"IDLE", "SEU_READ", "SEU_WRITE"}
  /\ clean_reg \in Words /\ addr_reg \in Addresses /\ bit_reg \in Words
  /\ clean_data \in Words /\ faulted_data \in Words
  /\ randvect \in Vectors(RandBits)
  /\ wren \in BOOLEAN /\ rden \subseteq {0, 1}

\* The all-zero LFSR never moves again; with position 0 tapped it is not reachable.
RandvectNotZero == randvect # {}

\* The memory as a program will find it when the upset at work is over.
Effective ==
  IF seu_state = "SEU_WRITE"
    THEN [spram EXCEPT ![addr_reg] = Xor(clean_reg, bit_reg)]
    ELSE spram

StoreOnBus ==
  IF bus_req.stb /\ bus_req.rw
    THEN {[addr |-> bus_req.addr, lanes |-> bus_req.ben, data |-> bus_req.data]}
    ELSE {}

AllFlips  == Masks \union {{i} : i \in 0 .. WordBits - 1}
Announced == IF seu_state = "SEU_READ" THEN {[addr |-> addr_reg, mask |-> bit_reg]} ELSE {}
Struck    == IF seu_state = "SEU_WRITE" THEN {addr_reg} ELSE {}

Promised == INSTANCE UpsetMemory WITH
  Lossy    <- TRUE,
  Flips    <- AllFlips,
  mem      <- Effective,
  store    <- StoreOnBus,
  pending  <- Announced,
  settling <- Struck

Claimed == INSTANCE UpsetMemory WITH
  Lossy    <- FALSE,
  Flips    <- AllFlips,
  mem      <- Effective,
  store    <- StoreOnBus,
  pending  <- Announced,
  settling <- Struck

\* Upsets are atomic: whatever the CPU does meanwhile, memory changes only by
\* the stores on the bus and by flips of exactly the mask in the target word;
\* only a store that collides with the upset of its word can miss lanes.
UpsetsAreAtomic == Promised!ASpec

\* The claim that the two ports never collide: no store misses a lane.
NoStoreIsLost == Claimed!ASpec

===============================================================================
