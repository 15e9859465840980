---------------------------- MODULE SeeBoard_proof ----------------------------
(***************************************************************************)
(* Theorems about the mutant data memory and the injection board around it, *)
(* for every memory geometry, every LFSR and every debounce time.  The      *)
(* memory's hold whatever the CPU and the injection ports do.               *)
(***************************************************************************)
EXTENDS SeeBoard, SeuSaboteur, TLAPS, FiniteSetTheorems

-------------------------------------------------------------------------------
(* Operators on bit vectors.                                                 *)

\* The xor of two words is a word.
LEMMA XorVector ==
  ASSUME NEW w, NEW u \in Vectors(w), NEW v \in Vectors(w)
  PROVE  Xor(u, v) \in Vectors(w)
BY DEF Xor, Vectors

\* Storing into a part of a word gives a word.
LEMMA OverlayVector ==
  ASSUME NEW w, NEW u \in Vectors(w), NEW v \in Vectors(w), NEW part
  PROVE  Overlay(u, v, part) \in Vectors(w)
BY DEF Overlay, Vectors

\* A slice that is no wider than its vector is a vector of the slice's width.
LEMMA LowVector ==
  ASSUME NEW w, NEW v
  PROVE  Low(v, w) \in Vectors(w)
BY DEF Low, Vectors

\* A shift keeps the width of the register.
LEMMA ShiftVector ==
  ASSUME NEW w \in Nat \ {0}, NEW v \in Vectors(w), NEW new
  PROVE  ShiftInTop(v, w, new) \in Vectors(w)
BY DEF ShiftInTop, Vectors

\* A number that stands for a vector is found in its range.
LEMMA ToIntegerRange ==
  ASSUME NEW w \in Nat, NEW v,
         \E n \in 0 .. 2^w - 1 : Unsigned(n, w) = v
  PROVE  ToInteger(v, w) \in 0 .. 2^w - 1
BY DEF ToInteger

\* A Fibonacci LFSR whose last position is tapped never falls to zero: a bit
\* above position 0 survives the shift, and a lone bit at 0 feeds a new top bit.
LEMMA ShiftNotZero ==
  ASSUME NEW w \in Nat \ {0}, NEW v \in Vectors(w), v # {},
         NEW taps \in SUBSET (0 .. w - 1), 0 \in taps
  PROVE  ShiftInTop(v, w, Parity(v, taps)) # {}
<1>1. CASE v = {0}
  <2>1. v \intersect taps = {0}
    BY <1>1
  <2>2. Cardinality({0}) = 1
    BY FS_Singleton
  <2>3. Parity(v, taps) = 1
    BY <2>1, <2>2 DEF Parity
  <2> QED
    BY <2>3 DEF ShiftInTop
<1>2. CASE v # {0}
  <2>1. PICK i \in v : i # 0
    BY <1>2
  <2>2. i - 1 \in ShiftInTop(v, w, Parity(v, taps))
    BY <2>1 DEF ShiftInTop
  <2> QED
    BY <2>2
<1> QED
  BY <1>1, <1>2

-------------------------------------------------------------------------------
(* The registers of the memory.                                              *)

LEMMA WordConstants ==
  /\ 0 .. 2^IndexBits - 1 = 0 .. WordBits - 1
  /\ {} \in Words /\ {} \in Addresses
  /\ StoreWords \subseteq Words /\ Masks \subseteq Words
BY ConstantsAssumption DEF ConstantsAssumption, Words, Addresses, Vectors

\* The bit the wrapper chooses is a bit of a word.
LEMMA AtbitInWord == atbit_comb \in 0 .. WordBits - 1
<1>1. Low(randvect, IndexBits) \in Vectors(IndexBits)
  BY LowVector
<1>2. \E n \in 0 .. 2^IndexBits - 1 : Unsigned(n, IndexBits) = Low(randvect, IndexBits)
  BY <1>1, ConstantsAssumption DEF ConstantsAssumption
<1>3. ToInteger(Low(randvect, IndexBits), IndexBits) \in 0 .. 2^IndexBits - 1
  BY <1>2, ToIntegerRange, ConstantsAssumption DEF ConstantsAssumption
<1> QED
  BY <1>3, WordConstants DEF atbit_comb

LEMMA FaultedBitWord ==
  ASSUME NEW fault \in Faults
  PROVE  faulted_bit(fault) \in Words
<1>1. {atbit_comb} \in Words
  BY AtbitInWord DEF Words, Vectors
<1>2. fault.mask \in Words
  <2>1. CASE fault = NoFault
    BY <2>1, WordConstants DEF NoFault
  <2>3. CASE fault = SbuFault
    BY <2>3, WordConstants DEF SbuFault
  <2>2. CASE fault \in [trigger : {TRUE}, mbu : {TRUE}, mask : Masks]
    BY <2>2, WordConstants
  <2> QED
    BY <2>1, <2>2, <2>3 DEF Faults
<1> QED
  BY <1>1, <1>2 DEF faulted_bit

\* The address and the data on the bus have their types.
LEMMA RequestParts ==
  ASSUME bus_req \in Requests
  PROVE  bus_req.addr \in Addresses /\ bus_req.data \in Words
<1>1. CASE bus_req = NoRequest
  BY <1>1, WordConstants DEF NoRequest
<1>2. CASE bus_req \in Loads
  BY <1>2, WordConstants DEF Loads
<1>3. CASE bus_req \in Stores
  BY <1>3, WordConstants DEF Stores
<1> QED
  BY <1>1, <1>2, <1>3 DEF Requests

\* A store, whole or in part, keeps the RAM a RAM.
LEMMA StoreRam ==
  ASSUME NEW words \in [Addresses -> Words], NEW lanes, bus_req \in Requests
  PROVE  Store(words, lanes) \in [Addresses -> Words]
<1>1. CASE bus_req.stb /\ bus_req.rw
  <2>1. bus_req.addr \in Addresses /\ bus_req.data \in Words
    BY RequestParts
  <2>2. Overlay(words[bus_req.addr], bus_req.data, UNION (bus_req.ben \intersect lanes)) \in Words
    BY <2>1, OverlayVector DEF Words
  <2> QED
    BY <1>1, <2>1, <2>2 DEF Store
<1>2. CASE ~(bus_req.stb /\ bus_req.rw)
  BY <1>2 DEF Store
<1> QED
  BY <1>1, <1>2

LEMMA WriteBackRam ==
  ASSUME NEW words \in [Addresses -> Words],
         addr_reg \in Addresses, clean_reg \in Words, bit_reg \in Words
  PROVE  WriteBack(words) \in [Addresses -> Words]
<1>1. Xor(clean_reg, bit_reg) \in Words
  BY XorVector DEF Words
<1> QED
  BY <1>1 DEF WriteBack

LEMMA LfsrVector ==
  ASSUME NEW v \in Vectors(RandBits)
  PROVE  fibo_lfsr(v) \in Vectors(RandBits)
BY ShiftVector, ConstantsAssumption DEF ConstantsAssumption, fibo_lfsr

LEMMA InitTypeOK == Init => TypeOK
<1> SUFFICES ASSUME Init PROVE TypeOK
  OBVIOUS
<1>1. bus_req \in Requests
  BY DEF Init, Requests
<1>2. spram \in [Addresses -> Words]
  BY WordConstants DEF Init
<1>3. /\ rdata \in Words /\ data_o \in Words /\ addr_reg \in Addresses
      /\ clean_reg \in Words /\ bit_reg \in Words
      /\ clean_data \in Words /\ faulted_data \in Words
  BY WordConstants DEF Init
<1>4. randvect \in Vectors(RandBits)
  BY ConstantsAssumption DEF ConstantsAssumption, Init
<1> QED
  BY <1>1, <1>2, <1>3, <1>4 DEF Init, TypeOK

\* One clock edge preserves the types: one step per clocked process.
LEMMA EdgeTypeOK ==
  ASSUME TypeOK, NEW early, NEW fault \in Faults, NEW rst_n \in BOOLEAN,
         Edge(early, fault, rst_n), Drive(rst_n)
  PROVE  TypeOK'
<1> USE DEF TypeOK
<1>1. SeenByPortB(early) \in [Addresses -> Words]
  BY StoreRam DEF SeenByPortB
<1>2. WriteBack(SeenByPortB(early)) \in [Addresses -> Words]
  BY <1>1, WriteBackRam
<1>3. spram' \in [Addresses -> Words]
  BY <1>2, StoreRam DEF Edge, port_a
<1>4. rdata' \in Words
  <2> DEFINE first == SeenByPortB(early)
             last  == Store(WriteBack(first), Lanes \ early)
             seen  == Overlay(last[bus_req.addr], first[bus_req.addr], UNION early)
  <2>1. bus_req.addr \in Addresses
    BY RequestParts
  <2>2. last \in [Addresses -> Words]
    BY <1>2, StoreRam
  <2>3. seen \in Words
    <3>1. last[bus_req.addr] \in Words /\ first[bus_req.addr] \in Words
      BY <1>1, <2>1, <2>2
    <3> QED
      BY <3>1, OverlayVector DEF Words
  <2>4. Overlay(rdata, seen, UNION bus_req.ben) \in Words
    BY <2>3, OverlayVector DEF Words
  <2>5. rdata' = IF bus_req.stb THEN Overlay(rdata, seen, UNION bus_req.ben) ELSE rdata
    BY DEF Edge, port_a
  <2> QED
    BY <2>4, <2>5
<1>5. /\ seu_state' \in {"IDLE", "SEU_READ", "SEU_WRITE"}
      /\ clean_reg' \in Words /\ addr_reg' \in Addresses /\ bit_reg' \in Words
      /\ clean_data' \in Words /\ faulted_data' \in Words
  <2>1. faulted_bit(fault) \in Words
    BY FaultedBitWord
  <2>2. fault_word_addr \in Addresses
    BY LowVector DEF fault_word_addr, Addresses
  <2>3. SeenByPortB(early)[addr_reg] \in Words
    BY <1>1
  <2>4. Xor(clean_reg, bit_reg) \in Words
    BY XorVector DEF Words
  <2> QED
    BY <2>1, <2>2, <2>3, <2>4, WordConstants DEF Edge, port_b
<1>6. data_o' \in Words
  BY DEF Edge, read_outreg
<1>7. randvect' \in Vectors(RandBits)
  BY LfsrVector, ConstantsAssumption DEF ConstantsAssumption, Edge, seq_proc
<1>8. wren' \in BOOLEAN /\ rden' \subseteq {0, 1}
  <2>1. wren' \in BOOLEAN
    BY DEF Edge, bus_handshake
  <2>2. rden' \subseteq {0, 1}
    BY DEF Edge, bus_handshake
  <2> QED
    BY <2>1, <2>2
<1>9. bus_req' \in Requests
  BY DEF Drive, Requests
<1> QED
  BY <1>3, <1>4, <1>5, <1>6, <1>7, <1>8, <1>9

\* Every register of the memory holds a vector of its width, for every geometry
\* of the memory, every LFSR and every use of its ports.
THEOREM SeuDmemTypes == Spec => []TypeOK
<1>1. TypeOK /\ [Next]_vars => TypeOK'
  <2> SUFFICES ASSUME TypeOK, [Next]_vars PROVE TypeOK'
    OBVIOUS
  <2>1. CASE Next
    BY <2>1, EdgeTypeOK DEF Next
  <2>2. CASE UNCHANGED vars
    BY <2>2 DEF vars, portVars, TypeOK
  <2> QED
    BY <2>1, <2>2
<1> QED
  BY <1>1, InitTypeOK, PTL DEF Spec

\* The wrapper's LFSR never reaches the zero vector, in which it would stay and
\* every further upset would hit bit 0 of word 0.
THEOREM SeuDmemLfsrAlive == Spec => []RandvectNotZero
<1> DEFINE Inv == TypeOK /\ RandvectNotZero
<1>1. Init => Inv
  BY InitTypeOK, ConstantsAssumption DEF ConstantsAssumption, Init, RandvectNotZero
<1>2. Inv /\ [Next]_vars => Inv'
  <2> SUFFICES ASSUME Inv, [Next]_vars PROVE Inv'
    OBVIOUS
  <2>1. CASE Next
    <3>1. PICK fault \in Faults, rst_n \in BOOLEAN, early \in Orders :
            Edge(early, fault, rst_n) /\ Drive(rst_n)
      BY <2>1 DEF Next
    <3>2. TypeOK'
      BY <3>1, EdgeTypeOK
    <3>3. fibo_lfsr(randvect) # {}
      BY ShiftNotZero, ConstantsAssumption
      DEF ConstantsAssumption, TypeOK, RandvectNotZero, fibo_lfsr
    <3>4. randvect' # {}
      BY <3>1, <3>3, ConstantsAssumption
      DEF ConstantsAssumption, Edge, seq_proc, RandvectNotZero
    <3> QED
      BY <3>2, <3>4 DEF RandvectNotZero
  <2>2. CASE UNCHANGED vars
    BY <2>2 DEF vars, portVars, TypeOK, RandvectNotZero
  <2> QED
    BY <2>1, <2>2
<1> QED
  BY <1>1, <1>2, PTL DEF Spec

-------------------------------------------------------------------------------
(* The refinement of UpsetMemory.                                            *)

\* A store in the chosen lanes: the word on the bus overlays them.
LEMMA StoreEffect ==
  ASSUME NEW words, NEW lanes
  PROVE  /\ bus_req.stb /\ bus_req.rw =>
              Store(words, lanes) =
                [words EXCEPT ![bus_req.addr] =
                   Overlay(@, bus_req.data, UNION (bus_req.ben \intersect lanes))]
         /\ ~(bus_req.stb /\ bus_req.rw) => Store(words, lanes) = words
BY DEF Store

\* What a master drives, as the abstract memory sees it.
LEMMA RequestStore ==
  ASSUME NEW req \in Requests, req.stb /\ req.rw
  PROVE  req.addr \in Addresses /\ req.ben \in SUBSET Lanes /\ req.data \in StoreWords
<1>1. req # NoRequest
  BY DEF NoRequest
<1>2. req \notin Loads
  BY DEF Loads
<1>3. req \in Stores
  BY <1>1, <1>2 DEF Requests
<1> QED
  BY <1>3 DEF Stores

\* An upset flips a bit of the word or a mask of the user.
LEMMA FaultedBitFlips ==
  ASSUME NEW fault \in Faults
  PROVE  faulted_bit(fault) \in AllFlips
<1>1. {atbit_comb} \in AllFlips
  BY AtbitInWord DEF AllFlips
<1>2. fault.mbu => fault.mask \in Masks
  <2>1. CASE fault \in {NoFault, SbuFault}
    BY <2>1 DEF NoFault, SbuFault
  <2>2. CASE fault \in [trigger : {TRUE}, mbu : {TRUE}, mask : Masks]
    BY <2>2
  <2> QED
    BY <2>1, <2>2 DEF Faults
<1> QED
  BY <1>1, <1>2 DEF faulted_bit, AllFlips

\* The memories the abstract store can leave behind: all its lanes are kept, or
\* any of them when the word is under attack.
LEMMA AfterStoreMembers ==
  ASSUME NEW attacked
  PROVE  /\ ~(bus_req.stb /\ bus_req.rw) => Promised!AfterStore(attacked) = {Effective}
         /\ bus_req.stb /\ bus_req.rw =>
              \A l \in IF bus_req.addr \in attacked THEN SUBSET bus_req.ben ELSE {bus_req.ben} :
                [Effective EXCEPT ![bus_req.addr] = Overlay(@, bus_req.data, UNION l)]
                  \in Promised!AfterStore(attacked)
<1> DEFINE s == [addr |-> bus_req.addr, lanes |-> bus_req.ben, data |-> bus_req.data]
<1>1. CASE ~(bus_req.stb /\ bus_req.rw)
  BY <1>1 DEF Promised!AfterStore, StoreOnBus
<1>2. CASE bus_req.stb /\ bus_req.rw
  <2>1. StoreOnBus = {s} /\ StoreOnBus # {}
    BY <1>2 DEF StoreOnBus
  <2>2. (CHOOSE x \in StoreOnBus : TRUE) = s
    BY <2>1
  <2>3. s.addr = bus_req.addr /\ s.lanes = bus_req.ben /\ s.data = bus_req.data
    OBVIOUS
  <2>4. Promised!AfterStore(attacked) =
          {[Effective EXCEPT ![bus_req.addr] = Overlay(@, bus_req.data, UNION l)] :
             l \in IF bus_req.addr \in attacked THEN SUBSET bus_req.ben ELSE {bus_req.ben}}
    BY <2>1, <2>2, <2>3 DEF Promised!AfterStore, Promised!Overlay, Overlay
  <2> QED
    BY <1>2, <2>4
<1> QED
  BY <1>1, <1>2

\* A clock edge is a step of the abstract memory: calm or an announcement while
\* the FSM is idle, the strike when it reads, the settling when it writes.
LEMMA EdgeRefinesUpsetMemory ==
  ASSUME TypeOK, NEW early \in Orders, NEW fault \in Faults, NEW rst_n \in BOOLEAN,
         Edge(early, fault, rst_n), Drive(rst_n)
  PROVE  Promised!ANext
<1> DEFINE Stored == bus_req.stb /\ bus_req.rw
           a == bus_req.addr
           Left(words, l) == [words EXCEPT ![a] = Overlay(@, bus_req.data, UNION l)]
<1>1. TypeOK'
  BY EdgeTypeOK
<1>2. StoreOnBus' \in Promised!NoneOrOne(Promised!StoreRequests)
  <2>1. bus_req' \in Requests
    BY <1>1 DEF TypeOK
  <2> QED
    BY <2>1, RequestStore DEF StoreOnBus, Promised!NoneOrOne, Promised!StoreRequests
<1>3. /\ spram' = Store(WriteBack(Store(spram, early)), Lanes \ early)
      /\ port_b(early, fault)
  BY DEF Edge, port_a, SeenByPortB
<1>4. spram \in [Addresses -> Words] /\ addr_reg \in Addresses /\ bus_req \in Requests
  BY DEF TypeOK
<1>5. Stored => a \in Addresses /\ bus_req.ben \in SUBSET Lanes
  BY <1>4, RequestStore
<1>6. early = {} \/ (Collision /\ early \in SUBSET bus_req.ben)
  BY DEF Orders
\* Without a collision a store takes effect in all its lanes at once.
<1>7. Stored /\ early = {} =>
        /\ Store(spram, early) = spram
        /\ \A words : Store(words, Lanes \ early) = Left(words, bus_req.ben)
  <2> SUFFICES ASSUME Stored, early = {}
               PROVE  /\ Store(spram, early) = spram
                      /\ \A words : Store(words, Lanes \ early) = Left(words, bus_req.ben)
    OBVIOUS
  <2>1. bus_req.ben \intersect early = {} /\ bus_req.ben \intersect (Lanes \ early) = bus_req.ben
    BY <1>5
  <2>2. Overlay(spram[a], bus_req.data, UNION {}) = spram[a]
    BY DEF Overlay
  <2> QED
    BY <2>1, <2>2, <1>4, <1>5 DEF Store
<1>8. ~Stored => \A words, lanes : Store(words, lanes) = words
  BY DEF Store
<1>9. CASE seu_state = "IDLE"
  <2>1. early = {}
    BY <1>6, <1>9 DEF Collision
  <2>2. WriteBack(Store(spram, early)) = Store(spram, early)
    BY <1>9 DEF WriteBack
  <2>3. spram' = IF Stored THEN Left(spram, bus_req.ben) ELSE spram
    BY <1>3, <1>7, <1>8, <2>1, <2>2
  <2>4. Effective = spram /\ Effective' = spram'
    BY <1>3, <1>9 DEF port_b, Effective
  <2>5. Effective' \in Promised!AfterStore({})
    BY <2>3, <2>4, AfterStoreMembers
  <2>6. Announced = {} /\ Struck = {} /\ Struck' = {}
    BY <1>3, <1>9 DEF port_b, Announced, Struck
  <2>7. CASE fault.trigger
    <3>1. fault_word_addr \in Addresses /\ faulted_bit(fault) \in AllFlips
      BY LowVector, FaultedBitFlips DEF fault_word_addr, Addresses
    <3>2. Announced' = {[addr |-> fault_word_addr, mask |-> faulted_bit(fault)]}
      BY <1>3, <1>9, <2>7 DEF port_b, Announced
    <3> QED
      BY <1>2, <2>5, <2>6, <3>1, <3>2 DEF Promised!ANext, Promised!Announce
  <2>8. CASE ~fault.trigger
    <3>1. Announced' = {}
      BY <1>3, <1>9, <2>8 DEF port_b, Announced
    <3> QED
      BY <1>2, <2>5, <2>6, <3>1 DEF Promised!ANext, Promised!Calm
  <2> QED
    BY <2>7, <2>8
<1>10. CASE seu_state = "SEU_READ"
  <2> DEFINE u == [addr |-> addr_reg, mask |-> bit_reg]
             Flipped(m) == [m EXCEPT ![addr_reg] = Xor(@, bit_reg)]
  <2>1. /\ Effective = spram
        /\ Announced = {u} /\ Announced' = {} /\ Struck' = {addr_reg}
        /\ Effective' = [spram' EXCEPT ![addr_reg] = Xor(Store(spram, early)[addr_reg], bit_reg)]
    BY <1>3, <1>10 DEF port_b, Effective, Announced, Struck, SeenByPortB
  <2>2. spram' = Store(Store(spram, early), Lanes \ early)
    BY <1>3, <1>10 DEF WriteBack
  <2>3. \E m \in Promised!AfterStore({addr_reg}) : Effective' = Flipped(m)
    <3>1. CASE ~Stored
      <4>1. Effective' = Flipped(spram)
        BY <1>8, <2>1, <2>2, <3>1
      <4> QED
        BY <2>1, <3>1, <4>1, AfterStoreMembers
    <3>2. CASE Stored /\ a # addr_reg
      <4>1. early = {}
        BY <1>6, <3>2 DEF Collision
      <4>2. Left(spram, bus_req.ben) \in Promised!AfterStore({addr_reg})
        BY <2>1, <3>2, AfterStoreMembers
      <4>3. Effective' = [Left(spram, bus_req.ben)
                            EXCEPT ![addr_reg] = Xor(spram[addr_reg], bit_reg)]
        BY <1>7, <2>1, <2>2, <3>2, <4>1
      <4>4. Left(spram, bus_req.ben)[addr_reg] = spram[addr_reg]
        BY <1>4, <1>5, <3>2
      <4>5. Effective' = Flipped(Left(spram, bus_req.ben))
        BY <4>3, <4>4
      <4> QED
        BY <4>2, <4>5
    <3>3. CASE Stored /\ a = addr_reg
      <4> DEFINE l == bus_req.ben \intersect early
      <4>1. Left(spram, l) \in Promised!AfterStore({addr_reg})
        BY <2>1, <3>3, AfterStoreMembers
      <4>2. Store(spram, early) = Left(spram, l)
        BY <3>3, StoreEffect
      <4>3. \E w : spram' = [Left(spram, l) EXCEPT ![addr_reg] = w]
        BY <2>2, <3>3, <4>2 DEF Store
      <4>4. Left(spram, l) \in [Addresses -> {Left(spram, l)[x] : x \in Addresses}]
        BY <1>4
      <4>5. Effective' = Flipped(Left(spram, l))
        BY <1>4, <2>1, <4>2, <4>3, <4>4
      <4> QED
        BY <4>1, <4>5
    <3> QED
      BY <3>1, <3>2, <3>3
  <2> QED
    BY <1>2, <2>1, <2>3 DEF Promised!ANext, Promised!Strike, Promised!Xor, Xor
<1>11. CASE seu_state = "SEU_WRITE"
  <2> DEFINE X == Xor(clean_reg, bit_reg)
  <2>1. /\ Effective = [spram EXCEPT ![addr_reg] = X] /\ Effective' = spram'
        /\ Announced = {} /\ Announced' = {} /\ Struck = {addr_reg} /\ Struck' = {}
    BY <1>3, <1>11 DEF port_b, Effective, Announced, Struck
  <2>2. \A words : WriteBack(words) = [words EXCEPT ![addr_reg] = X]
    BY <1>11 DEF WriteBack
  <2>3. Effective' \in Promised!AfterStore({addr_reg})
    <3>1. CASE ~Stored
      <4>1. Effective' = Effective
        BY <1>3, <1>8, <2>1, <2>2, <3>1
      <4> QED
        BY <3>1, <4>1, AfterStoreMembers
    <3>2. CASE Stored /\ a # addr_reg
      <4>1. early = {}
        BY <1>6, <3>2 DEF Collision
      <4>2. Effective' = Left(Effective, bus_req.ben)
        BY <1>3, <1>7, <2>1, <2>2, <3>2, <4>1
      <4> QED
        BY <3>2, <4>2, AfterStoreMembers
    <3>3. CASE Stored /\ a = addr_reg
      <4> DEFINE l == bus_req.ben \intersect (Lanes \ early)
      <4>1. Left(Effective, l) \in Promised!AfterStore({addr_reg})
        BY <3>3, AfterStoreMembers
      <4>2. \E w : Store(spram, early) = [spram EXCEPT ![addr_reg] = w]
        BY <3>3 DEF Store
      <4>3. WriteBack(Store(spram, early)) = Effective
        BY <1>4, <2>1, <2>2, <4>2
      <4>4. Store(Effective, Lanes \ early) = Left(Effective, l)
        BY <3>3, StoreEffect
      <4>5. Effective' = Left(Effective, l)
        BY <1>3, <2>1, <4>3, <4>4
      <4> QED
        BY <4>1, <4>5
    <3> QED
      BY <3>1, <3>2, <3>3
  <2> QED
    BY <1>2, <2>1, <2>3 DEF Promised!ANext, Promised!Settle
<1> QED
  BY <1>9, <1>10, <1>11 DEF TypeOK

LEMMA InitRefinesUpsetMemory == Init => Promised!AInit
BY DEF Init, Promised!AInit, NoRequest, Effective, StoreOnBus, Announced, Struck,
       Promised!NoneOrOne

LEMMA StutterRefinesUpsetMemory == UNCHANGED vars => UNCHANGED Promised!avars
BY DEF vars, portVars, Promised!avars, Effective, StoreOnBus, Announced, Struck

\* Upsets are atomic in every geometry of the memory and for every traffic on the
\* bus: the memory as it will be when the upset at work is over (Effective) changes
\* only by the stores and by a flip of exactly the mask, and only a store to the
\* word under attack can miss lanes.
THEOREM SeuDmemImplementsUpsetMemory == Spec => UpsetsAreAtomic
<1>1. TypeOK /\ [Next]_vars => [Promised!ANext]_Promised!avars
  BY EdgeRefinesUpsetMemory, StutterRefinesUpsetMemory DEF Next
<1> QED
  BY <1>1, InitRefinesUpsetMemory, SeuDmemTypes, PTL DEF Spec, UpsetsAreAtomic, Promised!ASpec


-------------------------------------------------------------------------------
(* The board.                                                                 *)

\* Since an upset started the button has been released or its press is over, so
\* the debouncer is at least one clock away from its next pulse.
DebounceGap ==
  /\ fault_pulse => btn1_stable
  /\ seu_state = "SEU_READ" => btn1_stable \/ debounce_cnt = 0
  /\ seu_state = "SEU_WRITE" => btn1_stable \/ debounce_cnt \in {0, 1}
  /\ seu_state # "IDLE" => ~fault_pulse

LEMMA BoardFaultType ==
  ASSUME NEW vio_fault_enable \in BOOLEAN
  PROVE  /\ BoardFault(vio_fault_enable) \in Faults
         /\ BoardFault(vio_fault_enable).trigger = (fault_pulse /\ vio_fault_enable)
         /\ ~BoardFault(vio_fault_enable).mbu
BY DEF BoardFault, Faults, NoFault, SbuFault

LEMMA BoardInitTypeOK == BoardInit => BoardTypeOK
<1> SUFFICES ASSUME BoardInit PROVE BoardTypeOK
  OBVIOUS
<1>1. TypeOK
  BY InitTypeOK DEF BoardInit
<1>2. debounce_cnt \in 0 .. DebounceLimit
  BY DebounceAssumption DEF BoardInit, DebounceAssumption
<1> QED
  BY <1>1, <1>2 DEF BoardInit, BoardTypeOK

LEMMA BoardStepTypeOK == BoardTypeOK /\ [BoardNext]_boardVars => BoardTypeOK'
<1> SUFFICES ASSUME BoardTypeOK, [BoardNext]_boardVars PROVE BoardTypeOK'
  OBVIOUS
<1>1. CASE BoardNext
  <2>1. PICK btn0 \in BOOLEAN, btn1 \in BOOLEAN, vio_fault_enable \in BOOLEAN, early \in Orders :
          /\ Edge(early, BoardFault(vio_fault_enable), ~btn0)
          /\ Drive(~btn0)
          /\ debouncer(btn1)
    BY <1>1 DEF BoardNext
  <2>2. TypeOK'
    <3>1. (~btn0) \in BOOLEAN
      OBVIOUS
    <3> QED
      BY <2>1, <3>1, EdgeTypeOK, BoardFaultType DEF BoardTypeOK
  <2>3. /\ debounce_cnt' \in 0 .. DebounceLimit
        /\ btn1_stable' \in BOOLEAN /\ fault_pulse' \in BOOLEAN
    <3>1. debounce_cnt \in 0 .. DebounceLimit /\ DebounceLimit \in Nat \ {0}
      BY DebounceAssumption DEF BoardTypeOK, DebounceAssumption
    <3>2. debounce_cnt' \in 0 .. DebounceLimit
      <4>1. CASE btn1 /\ debounce_cnt < DebounceLimit
        BY <2>1, <3>1, <4>1 DEF debouncer
      <4>2. CASE ~(btn1 /\ debounce_cnt < DebounceLimit)
        BY <2>1, <3>1, <4>2 DEF debouncer
      <4> QED
        BY <4>1, <4>2
    <3>3. btn1_stable' \in BOOLEAN /\ fault_pulse' \in BOOLEAN
      BY <2>1 DEF BoardTypeOK, debouncer
    <3> QED
      BY <3>2, <3>3
  <2> QED
    BY <2>2, <2>3 DEF BoardTypeOK
<1>2. CASE UNCHANGED boardVars
  BY <1>2 DEF boardVars, vars, portVars, BoardTypeOK, TypeOK
<1> QED
  BY <1>1, <1>2

\* The board's registers keep their types; the counter stays within its range.
THEOREM BoardTypes == BoardSpec => []BoardTypeOK
BY BoardInitTypeOK, BoardStepTypeOK, PTL DEF BoardSpec

\* A press is never swallowed by an upset that is still in progress, however
\* short the debounce time and whatever the button and the CPU do.
THEOREM BoardPulseFindsIdle == BoardSpec => []PulseFindsIdle
<1>1. BoardInit => DebounceGap
  BY DEF BoardInit, Init, DebounceGap
<1>2. BoardTypeOK /\ DebounceGap /\ [BoardNext]_boardVars => DebounceGap'
  <2> SUFFICES ASSUME BoardTypeOK, DebounceGap, [BoardNext]_boardVars PROVE DebounceGap'
    OBVIOUS
  <2>1. CASE BoardNext
    <3>1. PICK btn0 \in BOOLEAN, btn1 \in BOOLEAN, vio_fault_enable \in BOOLEAN, early \in Orders :
            /\ port_b(early, BoardFault(vio_fault_enable))
            /\ debouncer(btn1)
      BY <2>1 DEF BoardNext, Edge
    <3>2. \/ seu_state = "IDLE" /\ ~fault_pulse /\ seu_state' = "IDLE"
          \/ seu_state = "IDLE" /\ fault_pulse /\ seu_state' \in {"IDLE", "SEU_READ"}
          \/ seu_state = "SEU_READ" /\ seu_state' = "SEU_WRITE"
          \/ seu_state = "SEU_WRITE" /\ seu_state' = "IDLE"
      BY <3>1, BoardFaultType DEF port_b, BoardTypeOK
    <3>3. debouncer(btn1)
      BY <3>1
    <3>4. debounce_cnt \in 0 .. DebounceLimit /\ DebounceLimit \in Nat \ {0}
      BY DebounceAssumption DEF BoardTypeOK, DebounceAssumption
    <3>5. CASE btn1 /\ debounce_cnt < DebounceLimit
      <4>1. /\ debounce_cnt' = debounce_cnt + 1 /\ ~fault_pulse'
            /\ btn1_stable' = btn1_stable
        BY <3>3, <3>4, <3>5 DEF debouncer
      <4> QED
        BY <3>2, <3>4, <4>1 DEF DebounceGap
    <3>6. CASE btn1 /\ debounce_cnt = DebounceLimit
      <4>1. /\ debounce_cnt' = debounce_cnt /\ btn1_stable'
            /\ fault_pulse' = ~btn1_stable
        BY <3>3, <3>4, <3>6 DEF debouncer
      <4> QED
        BY <3>2, <3>4, <3>6, <4>1 DEF DebounceGap
    <3>7. CASE ~btn1
      <4>1. debounce_cnt' = 0 /\ ~btn1_stable' /\ ~fault_pulse'
        BY <3>3, <3>7 DEF debouncer
      <4> QED
        BY <3>2, <4>1 DEF DebounceGap
    <3> QED
      BY <3>4, <3>5, <3>6, <3>7
  <2>2. CASE UNCHANGED boardVars
    BY <2>2 DEF boardVars, vars, portVars, DebounceGap
  <2> QED
    BY <2>1, <2>2
<1>3. BoardTypeOK /\ DebounceGap => PulseFindsIdle
  BY DEF DebounceGap, PulseFindsIdle
<1> QED
  BY <1>1, <1>2, <1>3, BoardTypes, PTL DEF BoardSpec

LEMMA SharedSlice ==
  \A r : Low(Low(r, IndexBits), SharedBits) = Low(Low(r, AddrBits), SharedBits)
BY ConstantsAssumption DEF ConstantsAssumption, Low, SharedBits

\* Address and bit of every upset agree in the bits they share: a word can only
\* be upset in the bits whose index is congruent to its address.
THEOREM BoardBitFollowsAddress == BoardSpec => []BitFollowsAddress
<1>1. BoardInit => BitFollowsAddress
  BY DEF BoardInit, Init, BitFollowsAddress
<1>2. BoardTypeOK /\ BitFollowsAddress /\ [BoardNext]_boardVars => BitFollowsAddress'
  <2> SUFFICES ASSUME BoardTypeOK, BitFollowsAddress, [BoardNext]_boardVars
               PROVE  BitFollowsAddress'
    OBVIOUS
  <2>1. CASE BoardNext
    <3>1. PICK vio_fault_enable \in BOOLEAN, early \in Orders :
            port_b(early, BoardFault(vio_fault_enable))
      BY <2>1 DEF BoardNext, Edge
    <3>2. CASE seu_state = "IDLE" /\ seu_state' = "SEU_READ"
      <4>1. bit_reg' = {atbit_comb} /\ addr_reg' = Low(randvect, AddrBits)
        BY <3>1, <3>2, BoardFaultType DEF port_b, faulted_bit, fault_word_addr
      <4>2. Unsigned(atbit_comb, IndexBits) = Low(randvect, IndexBits)
        <5>1. Low(randvect, IndexBits) \in Vectors(IndexBits)
          BY LowVector
        <5>2. \E n \in 0 .. 2^IndexBits - 1 :
                Unsigned(n, IndexBits) = Low(randvect, IndexBits)
          BY <5>1, ConstantsAssumption DEF ConstantsAssumption
        <5> QED
          BY <5>2 DEF atbit_comb, ToInteger
      <4> QED
        BY <4>1, <4>2, AtbitInWord, SharedSlice DEF BitFollowsAddress
    <3>3. CASE seu_state' = "IDLE"
      BY <3>3 DEF BitFollowsAddress
    <3>4. CASE seu_state = "SEU_READ" /\ seu_state' = "SEU_WRITE"
      BY <3>1, <3>4 DEF port_b, BitFollowsAddress
    <3> QED
      BY <3>1, <3>2, <3>3, <3>4 DEF port_b
  <2>2. CASE UNCHANGED boardVars
    BY <2>2 DEF boardVars, vars, portVars, BitFollowsAddress
  <2> QED
    BY <2>1, <2>2
<1> QED
  BY <1>1, <1>2, BoardTypes, PTL DEF BoardSpec

\* The same behind the button of the board, for every debounce time.
THEOREM BoardImplementsUpsetMemory == BoardSpec => UpsetsAreAtomic
<1>1. BoardTypeOK /\ [BoardNext]_boardVars => [Promised!ANext]_Promised!avars
  <2>1. BoardTypeOK /\ BoardNext => Promised!ANext
    <3> SUFFICES ASSUME BoardTypeOK, BoardNext PROVE Promised!ANext
      OBVIOUS
    <3>1. PICK btn0 \in BOOLEAN, vio_fault_enable \in BOOLEAN, early \in Orders :
            /\ Edge(early, BoardFault(vio_fault_enable), ~btn0)
            /\ Drive(~btn0)
      BY DEF BoardNext
    <3>2. (~btn0) \in BOOLEAN
      OBVIOUS
    <3> QED
      BY <3>1, <3>2, BoardFaultType, EdgeRefinesUpsetMemory DEF BoardTypeOK
  <2> QED
    BY <2>1, StutterRefinesUpsetMemory DEF boardVars
<1>2. BoardInit => Promised!AInit
  BY InitRefinesUpsetMemory DEF BoardInit
<1> QED
  BY <1>1, <1>2, BoardTypes, PTL DEF BoardSpec, UpsetsAreAtomic, Promised!ASpec

-------------------------------------------------------------------------------
(* The RAM saboteur.                                                         *)

\* The word in the FSM is the one at the address on the port, which is the last target's until
\* the write; and it has one bit flipped once it has been modified.
Carries ==
  /\ state \in {"IDLE", "READ", "MODIFY", "WRITE"}
  /\ addr_s \in Rows
  /\ state \in {"IDLE", "READ"} => addr_o = addr_s
  /\ state = "READ" => en_o
  /\ state # "IDLE" => ~rw_o
  /\ state = "MODIFY" => data_i = ram[addr_o]
  /\ state = "WRITE" => \E i \in 0 .. DATA_LENGTH - 1 : data_faulted_s = Xor(ram[addr_o], {i})

\* The bit that an injection flips is one of the word.
LEMMA RandomBitInWord == RandomBit \in 0 .. DATA_LENGTH - 1
<1> DEFINE v == Low(rand_vect, BitSlice)
           n == ToInteger(v, BitSlice)
<1>1. BitSlice \in Nat /\ DATA_LENGTH \in Nat \ {0}
  BY SaboteurAssumption
<1>2. v \in Vectors(BitSlice)
  BY LowVector
<1>3. \E k \in 0 .. 2^BitSlice - 1 : Unsigned(k, BitSlice) = v
  BY <1>2, SaboteurAssumption
<1>4. n \in 0 .. 2^BitSlice - 1
  BY <1>1, <1>3, ToIntegerRange
<1>5. n \in Nat
  BY <1>4
<1> HIDE DEF n
<1>6. n % DATA_LENGTH \in 0 .. DATA_LENGTH - 1
  BY <1>1, <1>5
<1> QED
  BY <1>6 DEF RandomBit, n

\* A clock in which the port does not write leaves the RAM alone.
LEMMA CarriesNext == ASSUME Carries, [SaboteurNext]_sabVars PROVE Carries'
<1>1. CASE UNCHANGED sabVars
  BY <1>1 DEF sabVars, fsmVars, Carries
<1>2. ASSUME NEW fault_enable \in BOOLEAN, Idle(fault_enable) PROVE Carries'
  BY <1>2 DEF Idle, Carries
<1>3. CASE Read /\ Ram
  <2>1. state = "READ" /\ en_o /\ ~rw_o /\ addr_o = addr_s
    BY <1>3 DEF Read, Carries
  <2>2. ram' = ram /\ data_i' = ram[addr_o] /\ addr_o' = addr_o
    BY <1>3, <2>1 DEF Ram, Read
  <2>3. addr_s' \in Rows /\ state' = "MODIFY" /\ ~rw_o'
    BY <1>3 DEF Read, RandomAddress, Unsigned, Rows, Vectors
  <2> QED
    BY <2>2, <2>3 DEF Carries
<1>4. CASE Modify /\ Ram
  <2>1. state = "MODIFY" /\ ~rw_o /\ data_i = ram[addr_o]
    BY <1>4 DEF Modify, Carries
  <2>2. ram' = ram /\ UNCHANGED <<addr_o, addr_s, rw_o>> /\ state' = "WRITE"
        /\ data_faulted_s' = Xor(ram[addr_o], {RandomBit})
    BY <1>4, <2>1 DEF Ram, Modify
  <2>3. \E i \in 0 .. DATA_LENGTH - 1 : data_faulted_s' = Xor(ram'[addr_o'], {i})
    BY <2>2, RandomBitInWord
  <2> QED
    BY <2>1, <2>2, <2>3 DEF Carries
<1>5. CASE Write
  BY <1>5 DEF Write, Carries
<1> QED
  BY <1>1, <1>2, <1>3, <1>4, <1>5 DEF SaboteurNext

\* Only the end of an injection changes what the RAM holds or is about to hold.
LEMMA InjectsOne ==
  ASSUME Carries, SaboteurNext, Written' # Written
  PROVE  \E a \in Rows, i \in 0 .. DATA_LENGTH - 1 :
           Written' = [Written EXCEPT ![a] = Xor(Written[addr_o], {i})]
<1>1. ram' = Written
  BY DEF SaboteurNext, Ram, Written
<1>2. rw_o'
  BY <1>1 DEF Written
<1>3. Write
  BY <1>2 DEF SaboteurNext, Idle, Read, Modify, Carries
<1>4. state = "WRITE" /\ en_o' /\ addr_o' = addr_s /\ data_out' = data_faulted_s
  BY <1>3 DEF Write
<1>5. Written = ram /\ addr_s \in Rows
  BY <1>4 DEF Carries, Written
<1>6. PICK i \in 0 .. DATA_LENGTH - 1 : data_faulted_s = Xor(ram[addr_o], {i})
  BY <1>4 DEF Carries
<1>7. Written' = [Written EXCEPT ![addr_s] = Xor(Written[addr_o], {i})]
  BY <1>1, <1>2, <1>4, <1>5, <1>6 DEF Written
<1> QED
  BY <1>5, <1>7

\* Words and addresses of any width, any LFSR, any moments at which injection is enabled.
THEOREM SaboteurInjects == SaboteurSpec => InjectFromPrevious
<1>1. SaboteurInit => Carries
  BY DEF SaboteurInit, Carries, Rows, Vectors
<1>2. Carries /\ [SaboteurNext]_sabVars => Carries'
  BY CarriesNext
<1>3. Carries /\ [SaboteurNext]_sabVars =>
        [Written' # Written =>
           \E a \in Rows, i \in 0 .. DATA_LENGTH - 1 :
             Written' = [Written EXCEPT ![a] = Xor(Written[addr_o], {i})]]_sabVars
  BY InjectsOne
<1> QED
  BY <1>1, <1>2, <1>3, PTL DEF SaboteurSpec, InjectFromPrevious
===============================================================================
