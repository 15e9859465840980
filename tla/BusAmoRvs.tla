------------------------------- MODULE BusAmoRvs -------------------------------
(***************************************************************************)
(* neorv32_bus_amo_rvs: the reservation station of LR/SC.  One reservation  *)
(* bit for the whole processor; every data access sets or clears it.        *)
(***************************************************************************)
EXTENDS Bus

VARIABLES
  valid,    \* the reservation
  sc_fail,  \* a store-conditional was refused: local acknowledge
  sc_pend   \* a store-conditional is on its way to the memory

rvsVars == <<valid, sc_fail, sc_pend>>

RvsInit == valid = FALSE /\ sc_fail = FALSE /\ sc_pend = FALSE

lr(r) == r.amo /\ r.amoop = LR
sc(r) == r.amo /\ r.amoop = SC

\* (Every request here is a data access: meta(0) = 0.)
rvs_control(r) == valid' = IF r.stb THEN lr(r) ELSE valid

sc_result(r, sys_rsp) ==
  /\ sc_fail' = (r.stb /\ sc(r) /\ ~valid)
  /\ sc_pend' = IF r.stb /\ sc(r) /\ valid THEN TRUE
                ELSE IF sys_rsp.ack THEN FALSE ELSE sc_pend

\* Mutant: a refused store-conditional still writes.
bus_request_Always(r) == r

\* A store-conditional reaches the memory only with a reservation.
bus_request(r) == [r EXCEPT !.stb = @ /\ (sc(r) => valid)]

rvs_rsp(sys_rsp) ==
  [ack  |-> sys_rsp.ack \/ sc_fail,
   err  |-> sys_rsp.err,
   data |-> IF sc_fail THEN 1 ELSE IF sc_pend THEN 0 ELSE sys_rsp.data]
================================================================================
