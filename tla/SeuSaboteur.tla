----------------------------- MODULE SeuSaboteur ------------------------------
(***************************************************************************)
(* injection_fault_SEU: an FSM on the single port of an external synchronous*)
(* RAM that is meant to read a random word, flip a random bit and write the *)
(* word back.  One step is one rising clock edge of the FSM and the RAM.    *)
(***************************************************************************)
EXTENDS BitVectors

CONSTANTS
  ADDRESS_LENGTH, DATA_LENGTH, MEMORY_DEPTH,
  LfsrBits, LfsrTaps, LfsrSeed,   \* the LFSR: 32 bits, {31, 21, 1, 0}, A5C3F19B
  AddrSlice,     \* how many LFSR bits choose the address (6)
  BitSlice,      \* how many LFSR bits choose the bit (8)
  InitialWords   \* the words the RAM may hold when injection starts

\* Every vector is a number's: the provers have no induction over its bits.
ASSUME SaboteurAssumption ==
  /\ ADDRESS_LENGTH \in Nat /\ DATA_LENGTH \in Nat \ {0}
  /\ MEMORY_DEPTH \in 1 .. 2^ADDRESS_LENGTH
  /\ LfsrBits \in Nat /\ AddrSlice \in 0 .. LfsrBits /\ BitSlice \in 0 .. LfsrBits
  /\ LfsrTaps \subseteq 0 .. LfsrBits - 1
  /\ LfsrSeed \in Vectors(LfsrBits)
  /\ \A v \in Vectors(BitSlice) :
       \E n \in 0 .. 2^BitSlice - 1 : Unsigned(n, BitSlice) = v
  /\ InitialWords \subseteq Vectors(DATA_LENGTH)

Rows == Vectors(ADDRESS_LENGTH)

VARIABLES
  state, rand_vect, data_faulted_s, addr_s,   \* signals of the FSM
  en_o, rw_o, addr_o, data_out,               \* its registered outputs
  ram, data_i                                 \* the RAM and its read register

fsmVars == <<state, data_faulted_s, addr_s, en_o, rw_o, addr_o, data_out>>
sabVars == <<fsmVars, rand_vect, ram, data_i>>

next_rand_vect(s) == ShiftInTop(s, LfsrBits, Parity(s, LfsrTaps))

RandomAddress ==
  Unsigned(ToInteger(Low(rand_vect, AddrSlice), AddrSlice) % MEMORY_DEPTH, ADDRESS_LENGTH)

RandomBit == ToInteger(Low(rand_vect, BitSlice), BitSlice) % DATA_LENGTH

Idle(fault_enable) ==
  /\ state = "IDLE"
  /\ en_o' = fault_enable
  /\ rw_o' = FALSE
  /\ state' = IF fault_enable THEN "READ" ELSE "IDLE"
  /\ UNCHANGED <<data_faulted_s, addr_s, addr_o, data_out>>

\* addr_o takes the value addr_s had before this edge.
Read ==
  /\ state = "READ"
  /\ rw_o' = FALSE
  /\ addr_s' = RandomAddress
  /\ addr_o' = addr_s
  /\ state' = "MODIFY"
  /\ UNCHANGED <<data_faulted_s, en_o, data_out>>

\* Mutant: the bit is set instead of flipped.
Modify_Sets ==
  /\ state = "MODIFY"
  /\ data_faulted_s' = data_i \union {RandomBit}
  /\ state' = "WRITE"
  /\ UNCHANGED <<addr_s, en_o, rw_o, addr_o, data_out>>

Modify ==
  /\ state = "MODIFY"
  /\ data_faulted_s' = Xor(data_i, {RandomBit})
  /\ state' = "WRITE"
  /\ UNCHANGED <<addr_s, en_o, rw_o, addr_o, data_out>>

Write ==
  /\ state = "WRITE"
  /\ en_o' = TRUE
  /\ rw_o' = TRUE
  /\ addr_o' = addr_s
  /\ data_out' = data_faulted_s
  /\ state' = "IDLE"
  /\ UNCHANGED <<data_faulted_s, addr_s>>

\* The external RAM: an enabled edge stores or loads.
Ram ==
  /\ ram' = IF en_o /\ rw_o THEN [ram EXCEPT ![addr_o] = data_out] ELSE ram
  /\ data_i' = IF en_o /\ ~rw_o THEN ram[addr_o] ELSE data_i

\* Unreset registers power up as zero.
SaboteurInit ==
  /\ state = "IDLE"
  /\ rand_vect = next_rand_vect(LfsrSeed)
  /\ data_faulted_s = {} /\ addr_s = {}
  /\ en_o = FALSE /\ rw_o = FALSE /\ addr_o = {} /\ data_out = {}
  /\ ram \in [Rows -> InitialWords] /\ data_i = {}

SaboteurNext ==
  /\ rand_vect' = next_rand_vect(rand_vect)
  /\ \/ \E fault_enable \in BOOLEAN : Idle(fault_enable)
     \/ Read
     \/ Modify
     \/ Write
  /\ Ram

SaboteurSpec == SaboteurInit /\ [][SaboteurNext]_sabVars /\ WF_sabVars(SaboteurNext)

-------------------------------------------------------------------------------

\* The RAM as it will be once a write on the port has been clocked in.
Written == IF en_o /\ rw_o THEN [ram EXCEPT ![addr_o] = data_out] ELSE ram

\* The promise the code keeps: each injection is one atomic event, which stores
\* into the new target the word of the PREVIOUS target with one bit flipped.
InjectFromPrevious ==
  [][Written' # Written =>
       \E a \in Rows, i \in 0 .. DATA_LENGTH - 1 :
         Written' = [Written EXCEPT ![a] = Xor(Written[addr_o], {i})]]_sabVars

===============================================================================
