------------------------------ MODULE BitVectors ------------------------------
(***************************************************************************)
(* Bit vectors (std_ulogic_vector) for the hardware modules.  A vector is   *)
(* the set of the positions that hold '1': the zero vector is {}, a one-hot *)
(* vector is {i}, `xor' is the symmetric difference and a slice is an       *)
(* intersection.  Positions count from 0 as in "31 downto 0".               *)
(***************************************************************************)
EXTENDS Naturals, FiniteSets

\* The vectors of width w.
Vectors(w) == SUBSET (0 .. w - 1)

Xor(u, v) == (u \ v) \union (v \ u)

\* old with the bits of `part' taken from new.
Overlay(old, new, part) == (old \ part) \union (new \intersect part)

\* The xor of the bits of v selected by taps: 1 when an odd number of them is set.
Parity(v, taps) == Cardinality(v \intersect taps) % 2

\* to_unsigned(n, w).
Unsigned(n, w) == {i \in 0 .. w - 1 : (n \div 2^i) % 2 = 1}

\* v(w-1 downto 0).
Low(v, w) == v \intersect (0 .. w - 1)

\* to_integer(unsigned(v)) of a vector of width w.
ToInteger(v, w) == CHOOSE n \in 0 .. 2^w - 1 : Unsigned(n, w) = v

\* A right shift of a w-bit register with `new' entering at the top.
ShiftInTop(v, w, new) ==
  {i - 1 : i \in v \ {0}} \union (IF new = 1 THEN {w - 1} ELSE {})

===============================================================================
