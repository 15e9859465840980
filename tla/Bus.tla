---------------------------------- MODULE Bus ----------------------------------
(***************************************************************************)
(* The bus interface types of neorv32_package (bus_req_t, bus_rsp_t) as far *)
(* as arbitration, atomics and the bus monitor tell requests apart.  A word *)
(* is a number, an address stands for a whole region: a cell of the         *)
(* internal memory, a hole of the IO space, or the external bus.            *)
(* The last section says what the atomic operations mean, after the RISC-V  *)
(* Zaamo extension and independent of how the controller computes them.     *)
(***************************************************************************)
EXTENDS Integers

CONSTANTS
  WordBits,   \* XLEN
  Cells,      \* words of the internal data memory (gateway port B)
  Holes,      \* addresses of the IO space without a device (gateway port C)
  Externals,  \* every other address (gateway port X, when there is one)
  Harts       \* the bus hosts, named as the ports of the core complex arbiter

ASSUME BusAssumption ==
  /\ WordBits \in Nat \ {0}
  /\ Harts = {"a", "b"}
  /\ Cells \intersect Holes = {} /\ Cells \intersect Externals = {}
  /\ Holes \intersect Externals = {}

\* The laws of 2^n that proofs about words need; the provers have none of their own.
ASSUME PowersOfTwo ==
  \A n \in 0 .. WordBits - 1 : 2^n \in Nat \ {0} /\ 2^(n + 1) = 2 * 2^n

Word      == 0 .. 2^WordBits - 1
Addresses == Cells \union Holes \union Externals

\* The codes of amoop(3 downto 0), as the load/store unit forms them.
SWAP == 0    ADD == 1    XOR == 2    AND == 3    OR == 4
MINU == 6    MAXU == 7   LR == 8     SC == 9     MIN == 14   MAX == 15

RmwCodes == {SWAP, ADD, XOR, AND, OR, MINU, MAXU, MIN, MAX}
AmoCodes == RmwCodes \union {LR, SC}

BusRequests == [stb : BOOLEAN, rw : BOOLEAN, amo : BOOLEAN, amoop : AmoCodes,
                addr : Addresses, data : Word, lock : BOOLEAN, meta : Harts]

BusResponses == [ack : BOOLEAN, err : BOOLEAN, data : Word]

\* Words combined bit by bit.
Bit(v, i) == (v \div 2^i) % 2

Bitwise(v, w, f(_, _)) ==
  LET sum[i \in 0 .. WordBits] ==
        IF i = 0 THEN 0 ELSE sum[i - 1] + f(Bit(v, i - 1), Bit(w, i - 1)) * 2^(i - 1)
  IN  sum[WordBits]

And(v, w)         == IF v = 0 \/ w = 0 THEN 0 ELSE Bitwise(v, w, LAMBDA x, y : x * y)
Or(v, w)          == v + w - And(v, w)
ExclusiveOr(v, w) == Bitwise(v, w, LAMBDA x, y : (x + y) % 2)

\* An idle response bus.
rsp_terminate_c == [ack |-> FALSE, err |-> FALSE, data |-> 0]

-------------------------------------------------------------------------------
\* Two's complement value of a word.
SignedValue(v) == IF v >= 2^(WordBits - 1) THEN v - 2^WordBits ELSE v

\* The reference meaning of a read-modify-write operation.
Apply(code, old, new) ==
  CASE code = SWAP -> new
    [] code = ADD  -> (old + new) % 2^WordBits
    [] code = XOR  -> ExclusiveOr(old, new)
    [] code = AND  -> And(old, new)
    [] code = OR   -> Or(old, new)
    [] code = MINU -> IF old < new THEN old ELSE new
    [] code = MAXU -> IF old > new THEN old ELSE new
    [] code = MIN  -> IF SignedValue(old) < SignedValue(new) THEN old ELSE new
    [] code = MAX  -> IF SignedValue(old) > SignedValue(new) THEN old ELSE new
================================================================================
