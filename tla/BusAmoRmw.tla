------------------------------- MODULE BusAmoRmw -------------------------------
(***************************************************************************)
(* neorv32_bus_amo_rmw: turns an atomic read-modify-write request into a    *)
(* read and a write of the same address, with the bus locked by the host.   *)
(* Registers and outputs; `core_req' comes from the arbiter above,          *)
(* `sys_rsp' from the bus below.                                            *)
(***************************************************************************)
EXTENDS Bus

VARIABLES
  arbiter,   \* state of the controller
  cmd,       \* the operation of the request
  rdata,     \* what was read
  wdata,     \* the operand of the request
  alu_res    \* registered result of the operation

rmwVars == <<arbiter, cmd, rdata, wdata, alu_res>>

RmwInit ==
  /\ arbiter = "S_IDLE" /\ cmd = SWAP
  /\ rdata = 0 /\ wdata = 0 /\ alu_res = 0

\* Amoop 10xx is a load-reservate or a store-conditional.
IsRmw(r) == r.stb /\ r.amo /\ r.amoop \div 4 # 2

-------------------------------------------------------------------------------
(* The ALU.  Minimum and maximum share one signed comparator on operands     *)
(* that are extended by a bit: cmd(3) asks for the sign, cmd(0) for the      *)
(* maximum.                                                                  *)

\* Value of the operand extended by the bit (sign /\ its top bit), offset so
\* that the signed order of WordBits + 1 bits is the order of the naturals.
Biased(v, code) ==
  IF code \div 8 = 1 /\ Bit(v, WordBits - 1) = 1 THEN v ELSE v + 2^WordBits

cmp_less(code, r, w) == Biased(r, code) < Biased(w, code)

\* Mutant: the comparator ignores cmd(0), so maxima are minima.
cmp_res_Min(code, r, w) == IF cmp_less(code, r, w) THEN r ELSE w

cmp_res(code, r, w) == IF cmp_less(code, r, w) # (code % 2 = 1) THEN r ELSE w

amo_alu(code, r, w) ==
  CASE code % 8 = 0 -> w
    [] code % 8 = 1 -> (r + w) % 2^WordBits
    [] code % 8 = 2 -> ExclusiveOr(r, w)
    [] code % 8 = 3 -> And(r, w)
    [] code % 8 = 4 -> Or(r, w)
    [] OTHER        -> cmp_res(code, r, w)

-------------------------------------------------------------------------------
\* The state after the read: one clock for the registered ALU.
AfterRead == "S_EXECUTE"

\* One clock edge.
arbiter_comb(core_req, sys_rsp) ==
  /\ arbiter' =
       CASE arbiter = "S_IDLE"       -> IF IsRmw(core_req) THEN "S_READ_WAIT" ELSE arbiter
         [] arbiter = "S_READ_WAIT"  -> IF sys_rsp.ack THEN AfterRead ELSE arbiter
         [] arbiter = "S_EXECUTE"    -> "S_WRITE"
         [] arbiter = "S_WRITE"      -> "S_WRITE_WAIT"
         [] arbiter = "S_WRITE_WAIT" -> IF sys_rsp.ack THEN "S_IDLE" ELSE arbiter
  /\ cmd'   = IF arbiter = "S_IDLE" /\ IsRmw(core_req) THEN core_req.amoop ELSE cmd
  /\ wdata' = IF arbiter = "S_IDLE" /\ IsRmw(core_req) THEN core_req.data ELSE wdata
  /\ rdata' = IF arbiter = "S_READ_WAIT" THEN sys_rsp.data ELSE rdata
  /\ alu_res' = amo_alu(cmd, rdata, wdata)

Writing == arbiter \in {"S_WRITE", "S_WRITE_WAIT"}

\* The clock in which the controller strobes its write.
Strobes == arbiter = "S_WRITE"

\* The request below: the host's, replaced by a write in the write phase.
sys_req(core_req) ==
  [core_req EXCEPT !.data = IF Writing THEN alu_res ELSE @,
                   !.stb  = Strobes \/ @,
                   !.rw   = Writing \/ @]

\* Mutant: the acknowledge of the read is passed on.
Passes_Read == arbiter \in {"S_IDLE", "S_READ_WAIT", "S_WRITE_WAIT"}

\* The phases in which the host sees the bus's acknowledge.
Passes == arbiter \in {"S_IDLE", "S_WRITE_WAIT"}

core_rsp(sys_rsp) ==
  [ack  |-> sys_rsp.ack /\ Passes,
   err  |-> sys_rsp.err /\ Passes,
   data |-> IF arbiter = "S_IDLE" THEN sys_rsp.data ELSE rdata]
================================================================================
