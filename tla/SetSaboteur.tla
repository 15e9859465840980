----------------------------- MODULE SetSaboteur ------------------------------
(***************************************************************************)
(* fault_injection_SET_top: a controller that decides WHEN a transient      *)
(* strikes, by comparing the low bits of two LFSRs, and an injection block  *)
(* that decides how: stuck-at before transient before transparent.  The     *)
(* enable of the block is registered, so it acts one clock after the        *)
(* controls.  One step is a rising clock edge, after which the operator's   *)
(* controls (the inputs) may change.                                        *)
(***************************************************************************)
EXTENDS BitVectors

CONSTANTS
  RandBits,       \* width of both LFSRs (16)
  Taps1, Taps2,   \* their tapped positions
  Seed1, Seed2,   \* their seeds, ACE1 and 1234
  MatchWidths     \* the values of nbr_bits_to_match in use, out of 0 .. 15

ASSUME ControllerAssumption ==
  /\ RandBits \in Nat \ {0}
  /\ Taps1 \subseteq 0 .. RandBits - 1 /\ Taps2 \subseteq 0 .. RandBits - 1
  /\ Seed1 \in Vectors(RandBits) /\ Seed2 \in Vectors(RandBits)
  /\ MatchWidths \subseteq 0 .. RandBits - 1 /\ MatchWidths # {}

\* The taps and seeds of the source, whose LFSRs have 16 bits.
SourceTaps1 == {15, 13, 12, 10}
SourceTaps2 == {15, 14, 12, 3}
SourceSeed1 == {15, 13, 11, 10, 7, 6, 5, 0}   \* ACE1
SourceSeed2 == {12, 9, 5, 4, 2}               \* 1234

VARIABLES
  rst_n, fault_enable, nbr_bits_to_match,   \* the inputs
  rand_vect1, rand_vect2,                   \* the LFSRs
  match                                     \* registered coincidence of their low bits

inputs == <<rst_n, fault_enable, nbr_bits_to_match>>
controllerVars == <<inputs, rand_vect1, rand_vect2, match>>

fibo_lfsr1(s) == ShiftInTop(s, RandBits, Parity(s, Taps1))
fibo_lfsr2(s) == ShiftInTop(s, RandBits, Parity(s, Taps2))

Coincide(u, v) == Low(u, nbr_bits_to_match) = Low(v, nbr_bits_to_match)

\* The vectors are variables, not signals: the comparison sees the ones just
\* drawn.  (The reset is asynchronous; the next edge finds it done.)
random_proc ==
  \/ /\ ~rst_n
     /\ rand_vect1' = Seed1 /\ rand_vect2' = Seed2 /\ match' = FALSE
  \/ /\ rst_n /\ fault_enable
     /\ rand_vect1' = fibo_lfsr1(rand_vect1) /\ rand_vect2' = fibo_lfsr2(rand_vect2)
     /\ match' = Coincide(rand_vect1', rand_vect2')
  \/ /\ rst_n /\ ~fault_enable
     /\ match' = FALSE
     /\ UNCHANGED <<rand_vect1, rand_vect2>>

Operator ==
  rst_n' \in BOOLEAN /\ fault_enable' \in BOOLEAN /\ nbr_bits_to_match' \in MatchWidths

ControllerInit ==
  /\ rst_n \in BOOLEAN /\ fault_enable \in BOOLEAN /\ nbr_bits_to_match \in MatchWidths
  /\ rand_vect1 = Seed1 /\ rand_vect2 = Seed2 /\ match = FALSE

-------------------------------------------------------------------------------
(* The injection block                                                      *)

CONSTANTS
  DataBits,   \* DATA_LENGTH (32)
  FlipMasks   \* the values of fault_mask in use

ASSUME SaboteurAssumption ==
  DataBits \in Nat \ {0} /\ FlipMasks \subseteq Vectors(DataBits) /\ FlipMasks # {}

VARIABLE fault_enable_r   \* the injection block's registered enable

saboteurVars == <<controllerVars, fault_enable_r>>

\* What the operator may have set up in a cycle: transient_fault,
\* permanent_fault, stuckatbit, stuckatvalue and fault_mask.
FaultSetups ==
  [transient : BOOLEAN, permanent : BOOLEAN,
   bit : 0 .. DataBits - 1, value : BOOLEAN, mask : FlipMasks]

reg_proc == fault_enable_r' = fault_enable

\* fault_proc: what becomes of a word on its way through the block.
data_out(data_in, fault) ==
  IF fault_enable_r /\ fault.permanent
    THEN (data_in \ {fault.bit}) \union (IF fault.value THEN {fault.bit} ELSE {})
  ELSE IF fault_enable_r /\ fault.transient /\ match
    THEN Xor(data_in, fault.mask)
  ELSE data_in

SaboteurInit == ControllerInit /\ fault_enable_r = FALSE

SaboteurNext == random_proc /\ reg_proc /\ Operator

-------------------------------------------------------------------------------
\* "Injection probability 1/2^N" for every N in use: as long as the controller
\* stays enabled with that N and out of reset, matches keep coming.
MatchesRecur ==
  \A n \in MatchWidths :
    <>[](rst_n /\ fault_enable /\ nbr_bits_to_match = n) => []<>match
===============================================================================
