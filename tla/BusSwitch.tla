------------------------------ MODULE BusSwitch --------------------------------
(***************************************************************************)
(* neorv32_bus_switch: two hosts share one device port.  The processor has  *)
(* it three times: data/instruction of a core (A first), the two cores      *)
(* (round robin), CPU/DMA (A first).                                        *)
(*                                                                          *)
(* The module has the registers of the arbiter and, as operators, its       *)
(* combinational outputs; a system instantiates it and drives the ports:    *)
(* `req' is the pair of the hosts' request buses, `x_rsp' the response of   *)
(* the device.                                                              *)
(***************************************************************************)

CONSTANTS
  RoundRobin,  \* ROUND_ROBIN_EN
  ReadOnly     \* the port declared read-only (A_READ_ONLY, B_READ_ONLY), if any

Ports == {"a", "b"}
Other(p) == IF p = "a" THEN "b" ELSE "a"

ASSUME SwitchAssumption ==
  /\ RoundRobin \in BOOLEAN
  /\ ReadOnly \in {{}, {"a"}, {"b"}}

VARIABLES
  state,    \* S_IDLE, or the port being served (S_BUSY_A, S_BUSY_B)
  sel_q,    \* registered port select: steers the response
  lock,     \* whether the port asked for a locked access when it was granted
  pending   \* a_req, b_req: a strobe that arrived while the other was served

switchVars == <<state, sel_q, lock, pending>>

SwitchTypeOK ==
  /\ state \in Ports \union {"S_IDLE"}
  /\ sel_q \in Ports
  /\ lock \in [Ports -> BOOLEAN]
  /\ pending \in [Ports -> BOOLEAN]

SwitchInit ==
  /\ state = "S_IDLE"
  /\ sel_q = "a"
  /\ lock = [p \in Ports |-> FALSE]
  /\ pending = [p \in Ports |-> FALSE]

\* Mutant: only the live strobe counts.
Requested_Live(p, req) == req[p].stb

Requested(p, req) == req[p].stb \/ pending[p]

\* Mutant: the priorities are swapped.
First_Swapped == IF RoundRobin /\ sel_q = "a" THEN "a" ELSE "b"

\* The port that goes first when both ask.
First == IF RoundRobin /\ sel_q = "a" THEN "b" ELSE "a"

\* Mutant: the select falls back to A as soon as no strobe is out.
sel_Strobed(req) ==
  IF state # "S_IDLE" THEN (IF req[state].stb THEN state ELSE "a")
  ELSE IF Requested(First, req) THEN First
  ELSE IF Requested(Other(First), req) THEN Other(First) ELSE "a"

\* The port whose request is on the device port; A when there is none.
sel(req) ==
  IF state # "S_IDLE" THEN state
  ELSE IF Requested(First, req) THEN First
  ELSE IF Requested(Other(First), req) THEN Other(First) ELSE "a"

stb(req) == IF state = "S_IDLE" THEN \E p \in Ports : Requested(p, req)
                                ELSE req[state].stb

\* Mutant: a locked access ends with its first acknowledge.
Released_OnAck(p, req, x_rsp) == x_rsp.ack

\* A locked access ends when its host lowers lock, a single one with its acknowledge.
Released(p, req, x_rsp) == IF lock[p] THEN ~req[p].lock ELSE x_rsp.ack

\* Mutant: a strobe is remembered only while the other port is served.
Remember_Busy(p, req) == state = Other(p) /\ (pending[p] \/ req[p].stb)

Remember(p, req) == state # p /\ (pending[p] \/ req[p].stb)

\* One clock edge.
arbiter_sync(req, x_rsp) ==
  /\ state' = IF state = "S_IDLE" THEN (IF stb(req) THEN sel(req) ELSE "S_IDLE")
              ELSE IF Released(state, req, x_rsp) THEN "S_IDLE" ELSE state
  /\ sel_q' = sel(req)
  /\ lock' = IF state = "S_IDLE" THEN [p \in Ports |-> req[p].lock] ELSE lock
  /\ pending' = [p \in Ports |-> Remember(p, req)]

\* The write data of a read-only port never reaches the device.
DataPort(req) == IF ReadOnly = {} THEN sel(req) ELSE CHOOSE p \in Ports : p \notin ReadOnly

x_req(req) == [req[sel(req)] EXCEPT !.stb = stb(req), !.data = req[DataPort(req)].data]

rsp_o(p, x_rsp) == [x_rsp EXCEPT !.ack = sel_q = p /\ @, !.err = sel_q = p /\ @]
================================================================================
