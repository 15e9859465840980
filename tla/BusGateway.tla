------------------------------ MODULE BusGateway -------------------------------
(***************************************************************************)
(* neorv32_bus_gateway: decodes the section of an access, ORs the answers   *)
(* of the sections and watches the access (the "keeper").                   *)
(***************************************************************************)
EXTENDS Bus

CONSTANTS
  TmoInt,    \* TMO_INT, a power of two, or 0: no timeout
  TmoExt     \* TMO_EXT, likewise

VARIABLES
  x_en,        \* generic X_EN: there is an external bus; this never changes
  keeper,      \* "idle" (00), "busy" (01) or "error" (11)
  keeper_lock, \* the watched access is locked
  keeper_ext,  \* it goes to the external bus
  keeper_cnt   \* clocks since the last strobe or acknowledge

keeperVars == <<keeper, keeper_lock, keeper_ext, keeper_cnt>>

\* The counter has a bit more than the larger timeout needs, and wraps.
CntValues == 2 * (IF TmoExt > TmoInt THEN TmoExt ELSE IF TmoInt > 0 THEN TmoInt ELSE 1)

GatewayInit ==
  keeper = "idle" /\ keeper_lock = FALSE /\ keeper_ext = FALSE /\ keeper_cnt = 0

\* The section an address belongs to; without external bus some have none.
port_sel(addr) == IF addr \in Cells THEN "dmem"
                  ELSE IF addr \in Holes THEN "io"
                  ELSE IF x_en THEN "xbus" ELSE "none"

port_req(port, r) == [r EXCEPT !.stb = @ /\ port_sel(r.addr) = port]

\* The sections' answers, ORed: a silent section drives zeros.
int_rsp(dmem, xbus) ==
  [ack  |-> dmem.ack \/ xbus.ack,
   err  |-> dmem.err \/ xbus.err,
   data |-> Or(dmem.data, xbus.data)]

\* Mutant: a locked access is not timed.
Expired_Unlocked == ~keeper_lock /\ ~keeper_ext /\ TmoInt > 0 /\ (keeper_cnt \div TmoInt) % 2 = 1

Expired == \/ ~keeper_ext /\ TmoInt > 0 /\ (keeper_cnt \div TmoInt) % 2 = 1
           \/ keeper_ext /\ TmoExt > 0 /\ (keeper_cnt \div TmoExt) % 2 = 1

\* Mutant: the error state is left at once, whatever the lock says.
ErrorOver_Always(r) == TRUE

\* The error response lasts to the end of a locked access.
ErrorOver(r) == ~keeper_lock \/ ~r.lock

\* One clock edge of the monitor.
bus_monitor(r, rsp) ==
  \/ /\ keeper = "idle"
     /\ keeper_lock' = r.lock
     /\ keeper_ext' = (port_sel(r.addr) = "xbus")
     /\ keeper_cnt' = 0
     /\ keeper' = IF r.stb THEN "busy" ELSE "idle"
  \/ /\ keeper = "busy"
     /\ keeper_cnt' = IF rsp.ack THEN 0 ELSE (keeper_cnt + 1) % CntValues
     /\ keeper' = IF Expired THEN "error"
                  ELSE IF (IF keeper_lock THEN ~r.lock ELSE rsp.ack) THEN "idle"
                  ELSE "busy"
     /\ UNCHANGED <<keeper_lock, keeper_ext>>
  \/ /\ keeper = "error"
     /\ keeper' = IF ErrorOver(r) THEN "idle" ELSE "error"
     /\ UNCHANGED <<keeper_lock, keeper_ext, keeper_cnt>>

keeper_err == keeper = "error"

gateway_rsp(rsp) == [rsp EXCEPT !.ack = @ \/ keeper_err, !.err = @ \/ keeper_err]
================================================================================
